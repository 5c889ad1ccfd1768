---------------------------- MODULE StoreProofs ----------------------------
(***************************************************************************)
(* The store's type invariant and its safety invariants, for every number  *)
(* of threads, slots, ids and contents, every budget and every set of      *)
(* faults.  IndInv is proved inductive part by part: the index, the        *)
(* leases, the files, the rows' identities and what is left.               *)
(*                                                                         *)
(* From it: where no call fails the archive is within its budget and leaks *)
(* no file; and whatever fails it implements Archive, step by step.        *)
(***************************************************************************)
EXTENDS Store, IndexProofs

(* The invariant holds of the index what its transactions need. *)
LEMMA CountsMeanSound == IndInv => Sound(index)
BY DEF IndInv, CountsExact, Settled, Sound

-----------------------------------------------------------------------------
(* Drafts and leases. *)

(* Two states of the drafts that differ in slot s of t only. *)
DifferAt(D, E, t, s) ==
  \A o \in Threads, r \in Slot : (o = t /\ r = s) \/ E[o][r] = D[o][r]

(* Slot s of t is empty in D and holds p in E: one occurrence more. *)
LEMMA SlotFilled ==
  ASSUME NEW D, NEW E, NEW t \in Threads, NEW s \in Slot, NEW p \in Parts,
         D[t][s] = NoPart, E[t][s] = p, DifferAt(D, E, t, s), NEW d \in Digests
  PROVE  Cardinality(Occurrences(E, Threads, d))
           = IF d = p.digest
             THEN Cardinality(Occurrences(D, Threads, d)) + 1
             ELSE Cardinality(Occurrences(D, Threads, d))
<1> DEFINE before == Occurrences(D, Threads, d)
           after == Occurrences(E, Threads, d)
<1>1. p # NoPart
  BY IndexAssumption
<1>2. IsFiniteSet(before)
  BY OccurrencesFinite, StoreAssumption
<1>3. <<t, s>> \notin before
  BY DEF Occurrences, In
<1>4. CASE d = p.digest
  <2>1. after = before \cup {<<t, s>>}
    BY <1>1, <1>4 DEF Occurrences, In, DifferAt
  <2>2. Cardinality(after) = Cardinality(before) + 1
    BY <1>2, <1>3, <2>1, FS_AddElement
  <2>3. QED
    BY <1>4, <2>2
<1>5. CASE d # p.digest
  <2>1. after = before
    BY <1>3, <1>5 DEF Occurrences, In, DifferAt
  <2>2. QED
    BY <1>5, <2>1
<1>6. QED
  BY <1>4, <1>5

(* Slot s of t holds p in D and is empty in E: one occurrence less. *)
LEMMA SlotEmptied ==
  ASSUME NEW D, NEW E, NEW t \in Threads, NEW s \in Slot, NEW p \in Parts,
         D[t][s] = p, E[t][s] = NoPart, DifferAt(D, E, t, s), NEW d \in Digests
  PROVE  Cardinality(Occurrences(D, Threads, d))
           = IF d = p.digest
             THEN Cardinality(Occurrences(E, Threads, d)) + 1
             ELSE Cardinality(Occurrences(E, Threads, d))
<1>1. DifferAt(E, D, t, s)
  BY DEF DifferAt
<1>2. QED
  BY <1>1, SlotFilled, SMTT(30)

(* A draft is given up. *)
LEMMA DraftEmptied ==
  ASSUME NEW D \in [Threads -> Holding], NEW t \in Threads, NEW d \in Digests
  PROVE  LET new == [D EXCEPT ![t] = Nothing]
         IN  /\ new \in [Threads -> Holding]
             /\ Cardinality(Occurrences(new, Threads, d))
                  = Cardinality(Occurrences(D, Threads, d))
                    - Cardinality(Occurrences(D, {t}, d))
             /\ Cardinality(Occurrences(new, Threads, d)) \in Nat
<1> DEFINE new == [D EXCEPT ![t] = Nothing]
<1>1. new \in [Threads -> Holding]
  BY NothingIsHolding
<1>2. \A o \in Threads \ {t} : new[o] = D[o]
  OBVIOUS
<1>3. Cardinality(Occurrences(new, Threads, d))
        = Cardinality(Occurrences(D, Threads, d))
          - Cardinality(Occurrences(D, {t}, d))
          + Cardinality(Occurrences(new, {t}, d))
  <2> HIDE DEF new
  <2>1. {t} \in SUBSET Threads /\ IsFiniteSet(Threads)
    BY StoreAssumption
  <2>2. QED
    BY <1>2, <2>1, RowsReplaced
<1>4. Cardinality(Occurrences(new, {t}, d)) = 0
  <2>1. \A x \in {t} : new[x] = Nothing
    OBVIOUS
  <2>2. Occurrences(new, {t}, d) = {}
    BY <2>1, NothingOccurs
  <2>3. QED
    BY <2>2, FS_EmptySet
<1>5. /\ Cardinality(Occurrences(D, Threads, d)) \in Nat
      /\ Cardinality(Occurrences(new, Threads, d)) \in Nat
      /\ Cardinality(Occurrences(D, {t}, d)) \in Nat
  BY OccurrencesFinite, StoreAssumption, FS_Singleton
<1>6. QED
  BY <1>1, <1>3, <1>4, <1>5

(* A digest without a lease is held by no draft. *)
LEMMA UnleasedIsUnheld ==
  ASSUME IndInv, NEW d \in Digests, ~Leased(d), NEW t \in Threads
  PROVE  d \notin DigestsOf(draft[t])
<1>1. Cardinality(Occurrences(draft, Threads, d)) = 0
  BY DEF IndInv, TypeOK, CountsExact, Leased
<1>2. Occurrences(draft, Threads, d) = {}
  BY <1>1, OccurrencesFinite, StoreAssumption, FS_EmptySet
<1>3. QED
  BY <1>2, OccursInRow

-----------------------------------------------------------------------------
(* The index. *)

(* What the second lock of a commit may record: the rows are as they were, *)
(* but for one new row with the content of the draft, which was unknown.   *)
LEMMA RecordingsSound ==
  ASSUME IndInv, NEW t \in Threads, NEW ix \in Recordings(t)
  PROVE  /\ ix \in Indexes(Times) /\ Sound(ix)
         /\ ix.pinned = index.pinned
         /\ index.live \subseteq ix.live
         /\ \A e \in index.live : ix.holds[e] = index.holds[e]
         /\ \A e \in ix.live \ index.live :
              /\ ix.holds[e] = draft[t] /\ Known(index, draft[t]) = {}
              /\ ix.live = index.live \cup {e}
<1>1. /\ index \in Indexes(Times) /\ Sound(index)
      /\ draft[t] \in Holding /\ stamp[t] \in Times \cup {0}
  BY CountsMeanSound DEF IndInv, TypeOK
<1>2. CASE Known(index, draft[t]) # {}
  <2>1. PICK e \in Known(index, draft[t]) : ix = Touch(index, e, stamp[t])
    BY <1>2 DEF Recordings
  <2>2. e \in Ids
    BY <1>1 DEF Known, Indexes
  <2>3. /\ ix \in Indexes(Times) /\ Sound(ix)
        /\ ix.live = index.live
        /\ ix.holds = index.holds
        /\ ix.pinned = index.pinned
    BY <1>1, <2>1, <2>2, TouchSound
  <2>4. QED
    BY <2>3
<1>3. CASE Known(index, draft[t]) = {}
  <2>1. PICK e \in Ids : NextId(index, e) /\ ix = Insert(index, e, draft[t], stamp[t])
    BY <1>3 DEF Recordings
  <2>2. e \in Ids \ index.live
    BY <2>1 DEF NextId
  <2>3. /\ ix \in Indexes(Times) /\ Sound(ix)
        /\ ix.live = index.live \cup {e}
        /\ ix.holds = [index.holds EXCEPT ![e] = draft[t]]
        /\ ix.pinned = index.pinned
    BY <1>1, <2>1, <2>2, InsertSound
  <2>4. index.holds \in [Ids -> Holding] /\ index.live \subseteq Ids
    BY <1>1 DEF Indexes
  <2>5. QED
    BY <1>3, <2>2, <2>3, <2>4
<1>4. QED
  BY <1>2, <1>3

(* Every step but a commit's and a pin's leaves the index or deletes rows. *)
LEMMA IndexSteps ==
  ASSUME IndInv, [Next]_vars
  PROVE  \/ UNCHANGED index
         \/ \E t \in Threads :
              \/ Look(t) \/ LookFails(t) \/ Record(t) \/ EvictFails(t)
              \/ \E e \in Ids, pinned \in BOOLEAN : SetPinned(t, e, pinned)
              \/ \E e \in Ids : Remove(t, e)
              \/ Clear(t) \/ Expire(t)
BY DEF Next, Request, Commit, Receive, Abandon, Publish, BeginCommit, Derive,
       DeriveFails, DropDerived, RecordFails, Discard, Hangup, Lock, Sweep,
       Crash, Restart, Serve, Tick, Reconcile, vars

(* A row of the next state is a row of this one, or the one new row and a  *)
(* draft whose content no row had.                                         *)
RowsKept ==
  \A e \in index'.live :
    \/ e \in index.live /\ index'.holds[e] = index.holds[e]
    \/ /\ \E t \in Threads : /\ index'.holds[e] = draft[t]
                              /\ Known(index, draft[t]) = {}
       /\ \A o \in index'.live \ {e} :
            o \in index.live /\ index'.holds[o] = index.holds[o]

(* A deletion, by whichever request, is one of the index's steps. *)
LEMMA DeleteKeeps ==
  ASSUME IndInv, NEW t \in Threads, NEW S \in SUBSET Ids, Delete(t, S)
  PROVE  index' \in Indexes(Times) /\ Sound(index') /\ RowsKept
<1>1. index \in Indexes(Times) /\ Sound(index)
  BY CountsMeanSound DEF IndInv, TypeOK
<1>2. index' = Release(index, S)
  BY DEF Delete
<1>3. index' \in Indexes(Times) /\ Sound(index')
  BY <1>1, <1>2, ReleaseSound
<1>4. RowsKept
  BY <1>1, <1>2 DEF RowsKept, Release, Indexes
<1>5. QED
  BY <1>3, <1>4

(* Every step of the store leaves the index typed and sound. *)
LEMMA IndexKept ==
  ASSUME IndInv, [Next]_vars
  PROVE  index' \in Indexes(Times) /\ Sound(index') /\ RowsKept
<1>1. index \in Indexes(Times) /\ Sound(index) /\ index.live \subseteq Ids
  BY CountsMeanSound DEF IndInv, TypeOK, Indexes
<1>2. CASE UNCHANGED index
  BY <1>1, <1>2 DEF RowsKept
<1>3. ASSUME NEW t \in Threads, Look(t) \/ LookFails(t)
      PROVE  index' \in Indexes(Times) /\ Sound(index') /\ RowsKept
  <2>1. CASE UNCHANGED index
    BY <1>2, <2>1
  <2>2. CASE ~ UNCHANGED index
    <3>1. PICK e \in Known(index, draft[t]) : index' = Touch(index, e, stamp[t])
      BY <1>3, <2>2 DEF Look, LookFails
    <3>2. e \in Ids /\ stamp[t] \in Times \cup {0}
      BY <1>1 DEF Known, IndInv, TypeOK
    <3>3. /\ index' \in Indexes(Times) /\ Sound(index')
          /\ index'.live = index.live /\ index'.holds = index.holds
      BY <1>1, <3>1, <3>2, TouchSound
    <3>4. QED
      BY <3>3 DEF RowsKept
  <2>3. QED
    BY <2>1, <2>2
<1>4. ASSUME NEW t \in Threads, Record(t)
      PROVE  index' \in Indexes(Times) /\ Sound(index') /\ RowsKept
  <2>1. PICK ix \in Recordings(t) : index' = Release(ix, Victims(ix, Budget))
    BY <1>4 DEF Record
  <2>2. /\ ix \in Indexes(Times) /\ Sound(ix)
        /\ index.live \subseteq ix.live
        /\ \A e \in index.live : ix.holds[e] = index.holds[e]
        /\ \A e \in ix.live \ index.live :
             /\ ix.holds[e] = draft[t] /\ Known(index, draft[t]) = {}
             /\ ix.live = index.live \cup {e}
    BY RecordingsSound
  <2>3. Victims(ix, Budget) \in SUBSET Ids
    BY <2>2 DEF Victims, Unpinned, Indexes
  <2>4. index' \in Indexes(Times) /\ Sound(index')
    BY <2>1, <2>2, <2>3, ReleaseSound
  <2>5. /\ index'.live \subseteq ix.live
        /\ \A e \in index'.live : index'.holds[e] = ix.holds[e]
    BY <2>1, <2>2 DEF Release, Indexes
  <2>6. RowsKept
    BY <2>2, <2>5 DEF RowsKept
  <2>7. QED
    BY <2>4, <2>6
<1>5. ASSUME NEW t \in Threads, EvictFails(t)
      PROVE  index' \in Indexes(Times) /\ Sound(index') /\ RowsKept
  <2>1. index' \in Recordings(t)
    BY <1>5 DEF EvictFails
  <2>2. /\ index' \in Indexes(Times) /\ Sound(index')
        /\ \A e \in index.live : index'.holds[e] = index.holds[e]
        /\ \A e \in index'.live \ index.live :
             /\ index'.holds[e] = draft[t] /\ Known(index, draft[t]) = {}
             /\ index'.live = index.live \cup {e}
    BY <2>1, RecordingsSound
  <2>3. QED
    BY <2>2 DEF RowsKept
<1>6. ASSUME NEW t \in Threads, NEW e \in Ids, NEW pinned \in BOOLEAN,
             SetPinned(t, e, pinned)
      PROVE  index' \in Indexes(Times) /\ Sound(index') /\ RowsKept
  BY <1>1, <1>6 DEF SetPinned, Indexes, Sound, RowsKept
<1>7. ASSUME NEW t \in Threads,
             (\E e \in Ids : Remove(t, e)) \/ Clear(t) \/ Expire(t)
      PROVE  index' \in Indexes(Times) /\ Sound(index') /\ RowsKept
  <2>1. \E S \in SUBSET Ids : Delete(t, S)
    BY <1>1, <1>7 DEF Remove, Clear, Expire, Unpinned, Expired
  <2>2. QED
    BY <2>1, DeleteKeeps
<1>8. QED
  BY <1>2, <1>3, <1>4, <1>5, <1>6, <1>7, IndexSteps

-----------------------------------------------------------------------------
(* The leases. *)

(* The drafts and the leases, as every step leaves them. *)
LeasesKept ==
  /\ draft' \in [Threads -> Holding]
  /\ leases' \in [Digests -> Nat]
  /\ \A d \in Digests :
       leases'[d] = Cardinality(Occurrences(draft', Threads, d))

(* Before a step, the registry counts the leases that drafts hold. *)
LEMMA LeasesNow ==
  ASSUME IndInv
  PROVE  /\ draft \in [Threads -> Holding]
         /\ leases \in [Digests -> Nat]
         /\ \A d \in Digests :
              leases[d] = Cardinality(Occurrences(draft, Threads, d))
BY DEF IndInv, TypeOK, CountsExact

(* A part enters a free slot together with a lease on its digest. *)
LEMMA PartTaken ==
  ASSUME IndInv, NEW t \in Threads, NEW s \in Slot, draft[t][s] = NoPart,
         NEW p \in Parts,
         draft' = [draft EXCEPT ![t][s] = p], leases' = LeaseTaken(p.digest)
  PROVE  LeasesKept
<1>1. p.digest \in Digests
  BY IndexAssumption
<1>2. leases' \in [Digests -> Nat]
  BY LeasesNow, <1>1 DEF LeaseTaken
<1>3. draft' \in [Threads -> Holding]
  BY LeasesNow DEF Holding
<1>4. ASSUME NEW d \in Digests
      PROVE  leases'[d] = Cardinality(Occurrences(draft', Threads, d))
  <2>1. leases'[d] = IF d = p.digest THEN leases[d] + 1 ELSE leases[d]
    BY LeasesNow, <1>1 DEF LeaseTaken
  <2>2. draft'[t][s] = p /\ DifferAt(draft, draft', t, s)
    <3>1. \A o \in Threads : draft'[o] = IF o = t THEN [draft[t] EXCEPT ![s] = p] ELSE draft[o]
      BY LeasesNow
    <3>2. /\ [draft[t] EXCEPT ![s] = p][s] = p
          /\ \A r \in Slot : r # s => [draft[t] EXCEPT ![s] = p][r] = draft[t][r]
      BY LeasesNow DEF Holding
    <3>3. QED
      BY <3>1, <3>2 DEF DifferAt
  <2>3. Cardinality(Occurrences(draft', Threads, d))
          = IF d = p.digest
            THEN Cardinality(Occurrences(draft, Threads, d)) + 1
            ELSE Cardinality(Occurrences(draft, Threads, d))
    <3>1. \A D, E :
             D[t][s] = NoPart /\ E[t][s] = p /\ DifferAt(D, E, t, s) =>
               Cardinality(Occurrences(E, Threads, d))
                 = IF d = p.digest
                   THEN Cardinality(Occurrences(D, Threads, d)) + 1
                   ELSE Cardinality(Occurrences(D, Threads, d))
      BY SlotFilled
    <3>2. QED
      BY <2>2, <3>1
  <2>4. QED
    BY <2>1, <2>3, LeasesNow
<1>5. QED
  BY <1>2, <1>3, <1>4 DEF LeasesKept

(* The thumbnail leaves its slot together with its lease. *)
LEMMA ThumbGivenBack ==
  ASSUME IndInv, NEW t \in Threads, ThumbDropped(t)
  PROVE  LeasesKept
<1>1. Thumb \in Slot
  BY DEF Slot
<1>2. CASE draft[t][Thumb] = NoPart
  <2>1. draft' = draft /\ leases' = leases
    BY <1>1, <1>2, LeasesNow DEF ThumbDropped, Holding
  <2>2. QED
    BY <2>1, LeasesNow DEF LeasesKept
<1>3. CASE draft[t][Thumb] # NoPart
  <2>1. PICK p \in Parts : p = draft[t][Thumb]
    BY <1>1, <1>3, LeasesNow DEF Holding
  <2>2. /\ leases' = [leases EXCEPT ![p.digest] = @ - 1]
        /\ draft' = [draft EXCEPT ![t][Thumb] = NoPart]
        /\ p.digest \in Digests
    BY <1>3, <2>1, IndexAssumption DEF ThumbDropped
  <2>3. draft' \in [Threads -> Holding]
    BY <2>2, LeasesNow DEF Holding
  <2>4. ASSUME NEW d \in Digests
        PROVE  /\ leases'[d] = Cardinality(Occurrences(draft', Threads, d))
               /\ leases'[d] \in Nat
    <3>1. /\ draft'[t][Thumb] = NoPart /\ draft[t][Thumb] = p
          /\ DifferAt(draft, draft', t, Thumb)
      BY <1>1, <2>1, <2>2, LeasesNow DEF DifferAt, Holding
    <3>2. Cardinality(Occurrences(draft, Threads, d))
            = IF d = p.digest
              THEN Cardinality(Occurrences(draft', Threads, d)) + 1
              ELSE Cardinality(Occurrences(draft', Threads, d))
      BY <1>1, <3>1, SlotEmptied
    <3>3. Cardinality(Occurrences(draft', Threads, d)) \in Nat
      BY OccurrencesFinite, StoreAssumption
    <3>4. leases'[d] = IF d = p.digest THEN leases[d] - 1 ELSE leases[d]
      BY <2>2, LeasesNow
    <3>5. QED
      BY <3>2, <3>3, <3>4, LeasesNow
  <2>5. leases' \in [Digests -> Nat]
    BY <2>2, <2>4, LeasesNow
  <2>6. QED
    BY <2>3, <2>4, <2>5 DEF LeasesKept
<1>4. QED
  BY <1>2, <1>3

(* A draft is given up together with all its leases. *)
LEMMA DraftGivenUp ==
  ASSUME IndInv, NEW t \in Threads,
         draft' = [draft EXCEPT ![t] = Nothing], leases' = LeasesDropped(t)
  PROVE  LeasesKept
<1>1. ASSUME NEW d \in Digests
      PROVE  /\ draft' \in [Threads -> Holding]
             /\ Cardinality(Occurrences(draft', Threads, d))
                  = Cardinality(Occurrences(draft, Threads, d))
                    - Cardinality(Occurrences(draft, {t}, d))
             /\ Cardinality(Occurrences(draft', Threads, d)) \in Nat
  BY LeasesNow, DraftEmptied
<1>2. \A d \in Digests :
        leases'[d] = leases[d] - Cardinality(Occurrences(draft, {t}, d))
  BY DEF LeasesDropped
<1>3. \A d \in Digests :
        leases'[d] = Cardinality(Occurrences(draft', Threads, d))
  BY <1>1, <1>2, LeasesNow
<1>4. leases' \in [Digests -> Nat]
  BY <1>1, <1>3 DEF LeasesDropped
<1>5. draft' \in [Threads -> Holding]
  BY LeasesNow, NothingIsHolding
<1>6. QED
  BY <1>3, <1>4, <1>5 DEF LeasesKept

(* What derive() makes is a part, or nothing. *)
LEMMA DepictionsAreParts ==
  ASSUME NEW h \in Holding, NEW p \in Depictions(h)
  PROVE  p \in Parts \cup {NoPart}
BY StoreAssumption DEF Depictions, Holding, Slot

(* The steps that change a draft or a lease, by kind. *)
LEMMA DraftSteps ==
  ASSUME IndInv, [Next]_vars
  PROVE  \/ UNCHANGED <<draft, leases>>
         \/ Crash
         \/ \E t \in Threads :
              \/ Derive(t) \/ DropDerived(t) \/ RecordFails(t) \/ EvictFails(t)
              \/ Discard(t) \/ Hangup(t)
              \/ \E p \in Offered : Publish(t, p)
BY DEF Next, Request, Commit, Receive, Abandon, BeginCommit, Look, LookFails,
       DeriveFails, Record, Lock, Sweep, SetPinned, Remove, Clear, Expire,
       Delete, Restart, Serve, Tick, Reconcile, vars, memory

(* Every step keeps the registry equal to what drafts hold. *)
LEMMA DraftsKept ==
  ASSUME IndInv, [Next]_vars
  PROVE  LeasesKept
<1>1. CASE UNCHANGED <<draft, leases>>
  BY <1>1, LeasesNow DEF LeasesKept
<1>2. CASE Crash
  <2>1. \A t \in Threads : draft'[t] = Nothing
    BY <1>2 DEF Crash
  <2>2. \A d \in Digests : Cardinality(Occurrences(draft', Threads, d)) = 0
    BY <2>1, NothingOccurs, FS_EmptySet
  <2>3. QED
    BY <1>2, <2>2, NothingIsHolding DEF Crash, LeasesKept
<1>3. ASSUME NEW t \in Threads, Derive(t)
      PROVE  LeasesKept
  <2>1. draft[t][Thumb] = NoPart
    BY <1>3 DEF Derive, At, IndInv, Settled
  <2>2. PICK p \in Depictions(draft[t]) :
          /\ draft' = [draft EXCEPT ![t][Thumb] = p]
          /\ IF p = NoPart THEN UNCHANGED leases
             ELSE leases' = LeaseTaken(p.digest)
    BY <1>3 DEF Derive
  <2>3. CASE p = NoPart
    <3>1. draft' = draft /\ leases' = leases
      BY <2>1, <2>2, <2>3, LeasesNow DEF Holding, Slot
    <3>2. QED
      BY <3>1, LeasesNow DEF LeasesKept
  <2>4. CASE p # NoPart
    <3>1. p \in Parts /\ Thumb \in Slot
      BY <2>4, LeasesNow, DepictionsAreParts DEF Slot
    <3>2. QED
      BY <2>1, <2>2, <2>4, <3>1, PartTaken
  <2>5. QED
    BY <2>3, <2>4
<1>4. ASSUME NEW t \in Threads,
             DropDerived(t) \/ RecordFails(t) \/ EvictFails(t)
      PROVE  LeasesKept
  <2>1. ThumbDropped(t)
    BY <1>4 DEF DropDerived, RecordFails, EvictFails
  <2>2. QED
    BY <2>1, ThumbGivenBack
<1>5. ASSUME NEW t \in Threads, Discard(t) \/ Hangup(t)
      PROVE  LeasesKept
  <2>1. draft' = [draft EXCEPT ![t] = Nothing] /\ leases' = LeasesDropped(t)
    BY <1>5 DEF Discard, Hangup
  <2>2. QED
    BY <2>1, DraftGivenUp
<1>6. ASSUME NEW t \in Threads, NEW p \in Offered, Publish(t, p)
      PROVE  LeasesKept
  <2> DEFINE s == CHOOSE r \in FreeSlots(t) : TRUE
  <2>1. FreeSlots(t) # {}
    BY <1>6 DEF Publish, At, IndInv, Settled
  <2>2. s \in Slot /\ draft[t][s] = NoPart
    BY <2>1 DEF FreeSlots, Slot
  <2>3. /\ draft' = [draft EXCEPT ![t][s] = p]
        /\ leases' = LeaseTaken(p.digest)
    BY <1>6 DEF Publish
  <2>4. p \in Parts
    BY StoreAssumption
  <2> HIDE DEF s
  <2>5. QED
    BY <2>2, <2>3, <2>4, PartTaken
<1>7. QED
  BY <1>1, <1>2, <1>3, <1>4, <1>5, <1>6, DraftSteps

-----------------------------------------------------------------------------
(* The files. *)

(* A step that removes a file asked for its references and its leases, and *)
(* changes neither a row nor a draft.                                      *)
LEMMA FileSteps ==
  ASSUME IndInv, [Next]_vars
  PROVE  \/ files \subseteq files'
         \/ /\ UNCHANGED <<index, draft>>
            /\ \A d \in files \ files' : Removable(d)
<1>1. ASSUME NEW t \in Threads, NEW d \in Digests, Sweep(t, d)
      PROVE  /\ UNCHANGED <<index, draft>>
             /\ \A f \in files \ files' : Removable(f)
  BY <1>1 DEF Sweep
<1>2. ASSUME NEW d \in Digests, Reconcile(d)
      PROVE  /\ UNCHANGED <<index, draft>>
             /\ \A f \in files \ files' : Removable(f)
  BY <1>2 DEF Reconcile, memory
<1>3. QED
  BY <1>1, <1>2 DEF Next, Request, Commit, Receive, Abandon, Publish,
     BeginCommit, Look, LookFails, Derive, DeriveFails, Record, DropDerived, RecordFails,
     EvictFails, Discard, Hangup, Lock, SetPinned, Remove, Clear, Expire,
     Delete, Crash, Restart, Serve, Tick, vars, disk

(* A file that may be removed is named by no row and no draft. *)
LEMMA RemovableIsUnused ==
  ASSUME IndInv, NEW d \in Digests, Removable(d)
  PROVE  /\ \A e \in index.live : d \notin DigestsOf(index.holds[e])
         /\ \A t \in Threads : d \notin DigestsOf(draft[t])
<1>1. index \in Indexes(Times) /\ Sound(index) /\ index.live \subseteq Ids
  BY CountsMeanSound DEF IndInv, TypeOK, Indexes
<1>2. ~References(index, d) /\ ~Leased(d)
  BY DEF Removable, Referenced
<1>3. \A e \in Ids : d \notin DigestsOf(index.holds[e])
  BY <1>1, <1>2, UnreferencedIsUnnamed
<1>4. QED
  BY <1>1, <1>2, <1>3, UnleasedIsUnheld

(* What a draft holds it held before, or has just been published. *)
LEMMA DraftFiles ==
  ASSUME IndInv, [Next]_vars, NEW t \in Threads, NEW d \in DigestsOf(draft'[t])
  PROVE  d \in DigestsOf(draft[t]) \/ d \in files'
<1>1. PICK r \in Slot : In(draft'[t], r, d)
  BY DEF DigestsOf
<1>2. CASE draft'[t][r] = draft[t][r]
  BY <1>1, <1>2 DEF In, DigestsOf
<1>3. CASE draft'[t][r] # draft[t][r]
  <2>1. CASE Crash
    BY <1>1, <2>1 DEF Crash, Nothing, In
  <2>2. ASSUME NEW o \in Threads, Derive(o)
        PROVE  d \in files'
    <3>1. PICK p \in Depictions(draft[o]) :
            /\ draft' = [draft EXCEPT ![o][Thumb] = p]
            /\ p # NoPart => files' = files \cup {p.digest}
      BY <2>2 DEF Derive
    <3>2. draft'[t][r] = p
      BY <1>3, <3>1, LeasesNow DEF Holding
    <3>3. QED
      BY <1>1, <3>1, <3>2 DEF In
  <2>3. ASSUME NEW o \in Threads,
               DropDerived(o) \/ RecordFails(o) \/ EvictFails(o)
        PROVE  FALSE
    <3>1. draft' = [draft EXCEPT ![o][Thumb] = NoPart]
      BY <2>3 DEF DropDerived, RecordFails, EvictFails, ThumbDropped
    <3>2. draft'[t][r] = NoPart
      BY <1>3, <3>1, LeasesNow DEF Holding
    <3>3. QED
      BY <1>1, <3>2 DEF In
  <2>4. ASSUME NEW o \in Threads, Discard(o) \/ Hangup(o)
        PROVE  FALSE
    <3>1. draft' = [draft EXCEPT ![o] = Nothing]
      BY <2>4 DEF Discard, Hangup
    <3>2. draft'[t][r] = NoPart
      BY <1>3, <3>1, LeasesNow DEF Nothing
    <3>3. QED
      BY <1>1, <3>2 DEF In
  <2>5. ASSUME NEW o \in Threads, NEW p \in Offered, Publish(o, p)
        PROVE  d \in files'
    <3> DEFINE s == CHOOSE q \in FreeSlots(o) : TRUE
    <3>1. draft' = [draft EXCEPT ![o][s] = p] /\ files' = files \cup {p.digest}
      BY <2>5 DEF Publish
    <3> HIDE DEF s
    <3>2. draft'[t][r] = p
      BY <1>3, <3>1, LeasesNow DEF Holding
    <3>3. QED
      BY <1>1, <3>1, <3>2 DEF In
  <2>6. QED
    BY <1>3, <2>1, <2>2, <2>3, <2>4, <2>5, DraftSteps
<1>4. QED
  BY <1>2, <1>3

(* Every step leaves a file for each digest that a row or draft names. *)
LEMMA FilesKept ==
  ASSUME IndInv, [Next]_vars
  PROVE  NoHole'
<1> SUFFICES ASSUME NEW d \in Digests,
                    \/ \E e \in index'.live : d \in DigestsOf(index'.holds[e])
                    \/ \E t \in Threads : d \in DigestsOf(draft'[t])
             PROVE  d \in files'
  BY DEF NoHole
<1>1. \/ \E e \in index.live : d \in DigestsOf(index.holds[e])
      \/ \E t \in Threads : d \in DigestsOf(draft[t])
      \/ d \in files'
  BY IndexKept, DraftFiles DEF RowsKept
<1>2. CASE files \subseteq files'
  BY <1>1, <1>2 DEF IndInv, NoHole
<1>3. CASE \A f \in files \ files' : Removable(f)
  BY <1>1, <1>3, RemovableIsUnused DEF IndInv, NoHole
<1>4. QED
  BY <1>2, <1>3, FileSteps

-----------------------------------------------------------------------------
(* The identities and what is left. *)

(* Every step leaves at most one row to an identity. *)
LEMMA IdentitiesKept ==
  ASSUME IndInv, [Next]_vars
  PROVE  OneRowPerIdentity'
<1> SUFFICES ASSUME NEW e \in index'.live, NEW o \in index'.live,
                    Identity(index'.holds[e]) = Identity(index'.holds[o])
             PROVE  e = o
  BY DEF OneRowPerIdentity
<1>1. RowsKept
  BY IndexKept
<1>2. CASE /\ e \in index.live /\ index'.holds[e] = index.holds[e]
           /\ o \in index.live /\ index'.holds[o] = index.holds[o]
  BY <1>2 DEF IndInv, OneRowPerIdentity
<1>3. ASSUME NEW x \in index'.live, NEW y \in index'.live \ {x},
             Identity(index'.holds[x]) = Identity(index'.holds[y]),
             NEW t \in Threads,
             index'.holds[x] = draft[t], Known(index, draft[t]) = {},
             y \in index.live, index'.holds[y] = index.holds[y]
      PROVE  FALSE
  <2>1. y \in Known(index, draft[t])
    BY <1>3 DEF Known
  <2>2. QED
    BY <1>3, <2>1
<1>4. QED
  BY <1>1, <1>2, <1>3 DEF RowsKept

(* The variables whose types no other lemma gives. *)
PlacesOK ==
  /\ files \subseteq Digests
  /\ incoming \subseteq Threads
  /\ lock \in Threads \cup {Nobody}
  /\ pc \in [Threads -> Locations]
  /\ stamp \in [Threads -> Times \cup {0}]
  /\ orphaned \in [Threads -> SUBSET Digests]
  /\ unused \in [Threads -> SUBSET Digests]
  /\ phase \in {"down", "starting", "up"}
  /\ now \in Times

(* Every step keeps the types of the threads' private state. *)
LEMMA PlacesKept ==
  ASSUME IndInv, [Next]_vars
  PROVE  PlacesOK'
<1> USE DEF PlacesOK, disk, memory, vars, Go, Locations
<1>1. PlacesOK /\ draft \in [Threads -> Holding]
  BY DEF IndInv, TypeOK
<1>2. ASSUME NEW t \in Threads, Request(t)
      PROVE  PlacesOK'
  <2>1. CASE Receive(t) \/ Abandon(t)
    BY <1>1, <2>1 DEF Receive, Abandon
  <2>2. ASSUME NEW p \in Offered, Publish(t, p)
        PROVE  PlacesOK'
    <3>1. p.digest \in Digests
      BY StoreAssumption, IndexAssumption
    <3>2. QED
      BY <1>1, <2>2, <3>1 DEF Publish
  <2>3. ASSUME NEW e \in Ids, NEW pinned \in BOOLEAN, SetPinned(t, e, pinned)
        PROVE  PlacesOK'
    BY <1>1, <2>3 DEF SetPinned
  <2>4. ASSUME NEW S, Delete(t, S)
        PROVE  PlacesOK'
    <3>1. Orphaned(index, S) \in SUBSET Digests
      BY DEF Orphaned
    <3>2. QED
      BY <1>1, <2>4, <3>1 DEF Delete
  <2>5. QED
    BY <1>2, <2>1, <2>2, <2>3, <2>4 DEF Request, Remove, Clear, Expire
<1>3. ASSUME NEW t \in Threads, Commit(t)
      PROVE  PlacesOK'
  <2>1. CASE BeginCommit(t)
    BY <1>1, <2>1 DEF BeginCommit
  <2>2. CASE Look(t) \/ LookFails(t)
    BY <1>1, <2>2 DEF Look, LookFails
  <2>3. CASE Derive(t)
    <3>1. PICK p \in Depictions(draft[t]) :
            files' = files \/ (p # NoPart /\ files' = files \cup {p.digest})
      BY <2>3 DEF Derive
    <3>2. p # NoPart => p.digest \in Digests
      BY <1>1, DepictionsAreParts, IndexAssumption
    <3>3. files' \subseteq Digests
      BY <1>1, <3>1, <3>2
    <3>4. QED
      BY <1>1, <2>3, <3>3 DEF Derive
  <2>4. CASE DeriveFails(t)
    BY <1>1, <2>4 DEF DeriveFails
  <2>5. CASE Record(t)
    <3>1. PICK ix \in Recordings(t) :
            orphaned' = [orphaned EXCEPT ![t] = Orphaned(ix, Victims(ix, Budget))]
      BY <2>5 DEF Record
    <3>2. Orphaned(ix, Victims(ix, Budget)) \in SUBSET Digests
      BY DEF Orphaned
    <3>3. QED
      BY <1>1, <2>5, <3>1, <3>2 DEF Record
  <2>6. CASE DropDerived(t)
    <3>1. ThumbDigests(t) \in SUBSET Digests
      BY DEF ThumbDigests
    <3>2. QED
      BY <1>1, <2>6, <3>1 DEF DropDerived
  <2>7. CASE RecordFails(t) \/ EvictFails(t)
    BY <1>1, <2>7 DEF RecordFails, EvictFails
  <2>8. QED
    BY <1>3, <2>1, <2>2, <2>3, <2>4, <2>5, <2>6, <2>7 DEF Commit
<1>4. ASSUME NEW t \in Threads, Discard(t) \/ Hangup(t)
      PROVE  PlacesOK'
  <2>1. DigestsOf(draft[t]) \in SUBSET Digests
    BY DEF DigestsOf
  <2>2. QED
    BY <1>1, <1>4, <2>1 DEF Discard, Hangup
<1>5. ASSUME NEW t \in Threads, Lock(t)
      PROVE  PlacesOK'
  BY <1>1, <1>5 DEF Lock
<1>6. ASSUME NEW t \in Threads, NEW d \in Digests, Sweep(t, d)
      PROVE  PlacesOK'
  BY <1>1, <1>6 DEF Sweep
<1>7. CASE Crash \/ Restart \/ Serve \/ Tick
  BY <1>1, <1>7 DEF Crash, Restart, Serve, Tick
<1>8. ASSUME NEW d \in Digests, Reconcile(d)
      PROVE  PlacesOK'
  BY <1>1, <1>8 DEF Reconcile
<1>9. CASE UNCHANGED vars
  BY <1>1, <1>9
<1>10. QED
  BY <1>2, <1>3, <1>4, <1>5, <1>6, <1>7, <1>8, <1>9 DEF Next

(* What Settled says of a thread. *)
ThreadSettled(t) ==
  /\ draft[t][Thumb] # NoPart => pc[t] \in {"recording", "dropping"}
  /\ pc[t] = "receiving" => FreeSlots(t) # {}

(* Every step keeps what Settled says of each thread. *)
LEMMA ThreadsSettledKept ==
  ASSUME IndInv, [Next]_vars, NEW o \in Threads
  PROVE  ThreadSettled(o)'
<1> USE DEF ThreadSettled, FreeSlots, Go, At
<1>1. /\ ThreadSettled(o)
      /\ draft \in [Threads -> Holding] /\ pc \in [Threads -> Locations]
  BY DEF IndInv, TypeOK, Settled
<1>2. CASE draft'[o] = draft[o] /\ pc'[o] = pc[o]
  BY <1>1, <1>2
<1>3. CASE draft'[o] = Nothing /\ pc'[o] # "receiving"
  BY <1>3 DEF Nothing, Slot
<1>4. CASE /\ draft'[o][Thumb] = draft[o][Thumb]
           /\ pc[o] \notin {"recording", "dropping"} \/ pc'[o] = "dropping"
           /\ pc'[o] # "receiving"
  BY <1>1, <1>4
<1>5. CASE draft'[o][Thumb] = NoPart /\ pc'[o] # "receiving"
  BY <1>5
<1>6. CASE pc'[o] = "recording"
  BY <1>6
<1>7. ASSUME NEW t \in Threads, Request(t)
      PROVE  ThreadSettled(o)'
  <2>1. CASE Receive(t)
    BY <1>1, <2>1 DEF Receive
  <2>2. CASE Abandon(t)
    BY <1>1, <1>2, <1>4, <2>2 DEF Abandon
  <2>3. ASSUME NEW p \in Offered, Publish(t, p)
        PROVE  ThreadSettled(o)'
    <3> DEFINE s == CHOOSE q \in FreeSlots(t) : TRUE
    <3>1. draft' = [draft EXCEPT ![t][s] = p] /\ pc' = [pc EXCEPT ![t] = "open"]
      BY <2>3 DEF Publish
    <3>2. FreeSlots(t) # {} /\ pc[t] = "receiving"
      BY <2>3 DEF Publish, IndInv, Settled
    <3>3. s \in Slots
      BY <3>2
    <3> HIDE DEF s
    <3>4. s # Thumb
      BY <3>3, IndexAssumption
    <3>5. CASE o = t
      <4>1. draft'[o][Thumb] = draft[o][Thumb]
        BY <1>1, <3>1, <3>4, <3>5 DEF Holding, Slot
      <4>2. QED
        BY <1>1, <1>4, <3>1, <3>2, <3>5, <4>1
    <3>6. CASE o # t
      BY <1>1, <1>2, <3>1, <3>6
    <3>7. QED
      BY <3>5, <3>6
  <2>4. ASSUME NEW e \in Ids, NEW pinned \in BOOLEAN, SetPinned(t, e, pinned)
        PROVE  ThreadSettled(o)'
    BY <1>2, <2>4 DEF SetPinned, memory
  <2>5. ASSUME NEW S, Delete(t, S)
        PROVE  ThreadSettled(o)'
    BY <1>1, <1>2, <1>4, <2>5 DEF Delete
  <2>6. QED
    BY <1>7, <2>1, <2>2, <2>3, <2>4, <2>5 DEF Request, Remove, Clear, Expire
<1>8. ASSUME NEW t \in Threads, Commit(t)
      PROVE  ThreadSettled(o)'
  <2>1. CASE BeginCommit(t)
    BY <1>1, <1>2, <1>4, <2>1 DEF BeginCommit
  <2>2. CASE Look(t) \/ LookFails(t)
    BY <1>1, <1>2, <1>4, <2>2 DEF Look, LookFails
  <2>3. CASE Derive(t)
    <3>1. PICK p \in Depictions(draft[t]) :
            draft' = [draft EXCEPT ![t][Thumb] = p]
      BY <2>3 DEF Derive
    <3>2. QED
      BY <1>1, <1>2, <1>6, <2>3, <3>1 DEF Derive
  <2>4. CASE DeriveFails(t)
    BY <1>1, <1>2, <1>4, <2>4 DEF DeriveFails
  <2>5. CASE Record(t)
    BY <1>1, <1>2, <1>4, <2>5 DEF Record
  <2>6. CASE DropDerived(t) \/ RecordFails(t) \/ EvictFails(t)
    <3>1. draft' = [draft EXCEPT ![t][Thumb] = NoPart]
      BY <2>6 DEF DropDerived, RecordFails, EvictFails, ThumbDropped
    <3>2. \E place \in {"answering", "collecting", "closing"} :
            pc' = [pc EXCEPT ![t] = place]
      BY <2>6 DEF DropDerived, RecordFails, EvictFails
    <3>3. QED
      BY <1>1, <1>2, <1>5, <3>1, <3>2 DEF Holding, Slot
  <2>7. QED
    BY <1>8, <2>1, <2>2, <2>3, <2>4, <2>5, <2>6 DEF Commit
<1>9. ASSUME NEW t \in Threads, Discard(t) \/ Hangup(t)
      PROVE  ThreadSettled(o)'
  BY <1>1, <1>2, <1>3, <1>9 DEF Discard, Hangup
<1>10. ASSUME NEW t \in Threads, Lock(t)
      PROVE  ThreadSettled(o)'
  BY <1>2, <1>10 DEF Lock
<1>11. ASSUME NEW t \in Threads, NEW d \in Digests, Sweep(t, d)
      PROVE  ThreadSettled(o)'
  <2>1. pc[t] \in {"collecting", "sweeping"}
    BY <1>11 DEF Sweep, IndInv, Settled
  <2>2. QED
    BY <1>1, <1>2, <1>4, <1>11, <2>1 DEF Sweep
<1>12. CASE Crash
  BY <1>3, <1>12 DEF Crash
<1>13. CASE Restart \/ Serve \/ Tick \/ UNCHANGED vars
  BY <1>2, <1>13 DEF Restart, Serve, Tick, vars, memory
<1>14. ASSUME NEW d \in Digests, Reconcile(d)
      PROVE  ThreadSettled(o)'
  BY <1>2, <1>14 DEF Reconcile, memory
<1>15. QED
  BY <1>7, <1>8, <1>9, <1>10, <1>11, <1>12, <1>13, <1>14 DEF Next

(* Only a sweep keeps the index mutex. *)
HolderSweeps(t) == lock = t => pc[t] \in {"collecting", "sweeping"}

(* Whoever holds the index mutex between two steps is sweeping. *)
LEMMA HolderKept ==
  ASSUME IndInv, [Next]_vars, NEW o \in Threads
  PROVE  HolderSweeps(o)'
<1> USE DEF HolderSweeps, At, Go
<1>1. /\ HolderSweeps(o)
      /\ pc \in [Threads -> Locations]
      /\ Nobody \notin Threads
  BY StoreAssumption DEF IndInv, TypeOK, Settled
<1>2. CASE UNCHANGED <<lock, pc>>
  BY <1>1, <1>2
<1>3. ASSUME NEW t \in Threads, NEW place, UNCHANGED lock,
             pc[t] \notin {"collecting", "sweeping"},
             pc' = [pc EXCEPT ![t] = place]
      PROVE  HolderSweeps(o)'
  BY <1>1, <1>3
<1>4. ASSUME NEW t \in Threads, Lock(t)
      PROVE  HolderSweeps(o)'
  BY <1>1, <1>4 DEF Lock
<1>5. ASSUME NEW t \in Threads, NEW d \in Digests, Sweep(t, d)
      PROVE  HolderSweeps(o)'
  <2>1. CASE lock' = Nobody
    BY <1>1, <2>1
  <2>2. CASE lock' = t /\ orphaned'[t] # {}
    BY <1>1, <1>5, <2>2 DEF Sweep
  <2>3. orphaned \in [Threads -> SUBSET Digests]
    BY DEF IndInv, TypeOK
  <2>4. QED
    BY <1>5, <2>1, <2>2, <2>3 DEF Sweep
<1>6. CASE Crash
  BY <1>1, <1>6 DEF Crash
<1>7. ASSUME NEW t \in Threads,
             \/ Receive(t) \/ Abandon(t) \/ \E p \in Offered : Publish(t, p)
             \/ \E S : Delete(t, S)
             \/ BeginCommit(t) \/ Look(t) \/ LookFails(t)
             \/ Derive(t) \/ DeriveFails(t)
             \/ Record(t) \/ DropDerived(t) \/ RecordFails(t) \/ EvictFails(t)
             \/ Discard(t) \/ Hangup(t)
      PROVE  HolderSweeps(o)'
  <2>1. /\ UNCHANGED lock
        /\ pc[t] \notin {"collecting", "sweeping"}
        /\ \E place : pc' = [pc EXCEPT ![t] = place]
    BY <1>7 DEF Receive, Abandon, Publish, Delete, BeginCommit, Look, LookFails, Derive,
       DeriveFails, Record, DropDerived, RecordFails, EvictFails, Discard, Hangup
  <2>2. QED
    BY <1>3, <2>1
<1>8. CASE \/ Restart \/ Serve \/ Tick \/ UNCHANGED vars
           \/ \E d \in Digests : Reconcile(d)
           \/ \E t \in Threads, e \in Ids, pinned \in BOOLEAN : SetPinned(t, e, pinned)
  BY <1>2, <1>8 DEF Restart, Serve, Tick, Reconcile, SetPinned, vars, memory
<1>9. QED
  BY <1>4, <1>5, <1>6, <1>7, <1>8 DEF Next, Request, Commit, Remove, Clear, Expire

(* Temporaries: a transfer removes its own, a restart the others. *)
LEMMA TemporariesKept ==
  ASSUME IndInv, [Next]_vars
  PROVE  /\ TemporariesOwned'
         /\ phase' = "starting" => incoming' = {}
<1> USE DEF At, Go, TemporariesOwned
<1>1. /\ TemporariesOwned
      /\ phase = "starting" => incoming = {}
      /\ pc \in [Threads -> Locations] /\ incoming \subseteq Threads
  BY DEF IndInv, TypeOK, Settled
<1>2. CASE UNCHANGED <<incoming, phase, pc>>
  BY <1>1, <1>2
<1>3. ASSUME NEW t \in Threads, NEW place, phase = "up", phase' = "up",
             incoming' = incoming, pc[t] # "receiving",
             pc' = [pc EXCEPT ![t] = place]
      PROVE  TemporariesOwned'
  BY <1>1, <1>3
<1>4. ASSUME NEW t \in Threads, Receive(t)
      PROVE  TemporariesOwned' /\ phase' = "up"
  BY <1>1, <1>4 DEF Receive
<1>5. ASSUME NEW t \in Threads, Abandon(t) \/ \E p \in Offered : Publish(t, p)
      PROVE  TemporariesOwned' /\ phase' = "up"
  BY <1>1, <1>5 DEF Abandon, Publish
<1>6. ASSUME NEW t \in Threads, Lock(t)
      PROVE  TemporariesOwned' /\ phase' = "up"
  BY <1>1, <1>6 DEF Lock, disk
<1>7. ASSUME NEW t \in Threads, NEW d \in Digests, Sweep(t, d)
      PROVE  TemporariesOwned' /\ phase' = "up"
  <2>1. pc[t] # "receiving"
    BY <1>7 DEF Sweep, IndInv, Settled
  <2>2. QED
    BY <1>1, <1>7, <2>1 DEF Sweep
<1>8. CASE Crash \/ Restart
  BY <1>8 DEF Crash, Restart
<1>9. CASE Serve \/ Tick \/ UNCHANGED vars \/ \E d \in Digests : Reconcile(d)
  BY <1>1, <1>9 DEF Serve, Tick, Reconcile, vars, memory, disk
<1>10. ASSUME NEW t \in Threads,
             \/ \E S : Delete(t, S)
             \/ BeginCommit(t) \/ Look(t) \/ LookFails(t)
             \/ Derive(t) \/ DeriveFails(t)
             \/ Record(t) \/ DropDerived(t) \/ RecordFails(t) \/ EvictFails(t)
             \/ Discard(t) \/ Hangup(t)
      PROVE  TemporariesOwned' /\ phase' = "up"
  <2>1. /\ phase = "up" /\ phase' = "up" /\ incoming' = incoming
        /\ pc[t] # "receiving"
        /\ \E place : pc' = [pc EXCEPT ![t] = place]
    BY <1>10 DEF Delete, BeginCommit, Look, LookFails, Derive, DeriveFails, Record,
       DropDerived, RecordFails, EvictFails, Discard, Hangup, disk
  <2>2. QED
    BY <1>3, <2>1
<1>11. ASSUME NEW t \in Threads, NEW e \in Ids, NEW pinned \in BOOLEAN,
              SetPinned(t, e, pinned)
       PROVE  TemporariesOwned' /\ phase' = "up"
  BY <1>1, <1>11 DEF SetPinned, memory, disk
<1>12. QED
  BY <1>4, <1>5, <1>6, <1>7, <1>8, <1>9, <1>10, <1>11
     DEF Next, Request, Commit, Remove, Clear, Expire

-----------------------------------------------------------------------------
(* The theorems. *)

(* The invariant holds of a new archive. *)
LEMMA InitIndInv == Init => IndInv
<1> SUFFICES ASSUME Init PROVE IndInv
  OBVIOUS
<1> USE DEF Init
<1>1. index \in Indexes(Times) /\ Sound(index) /\ index.live = {} /\ index.pinned = {}
  BY EmptySound DEF EmptyIndex
<1>2. now \in Times
  BY StoreAssumption DEF Times
<1>3. TypeOK
  BY <1>1, <1>2, NothingIsHolding DEF TypeOK, Locations
<1>4. \A d \in Digests : Cardinality(Occurrences(draft, Threads, d)) = 0
  BY NothingOccurs, FS_EmptySet
<1>5. CountsExact
  BY <1>1, <1>4 DEF CountsExact, Sound
<1>6. \A t \in Threads : DigestsOf(draft[t]) = {}
  BY DEF DigestsOf, Nothing, In
<1>7. NoHole
  BY <1>1, <1>6 DEF NoHole
<1>8. Settled
  BY <1>1, StoreAssumption DEF Settled, Sound, Nothing, Slot
<1>9. OneRowPerIdentity /\ TemporariesOwned
  BY <1>1 DEF OneRowPerIdentity, TemporariesOwned
<1>10. QED
  BY <1>3, <1>5, <1>7, <1>8, <1>9 DEF IndInv

(* Every step keeps the invariant. *)
LEMMA NextIndInv == IndInv /\ [Next]_vars => IndInv'
<1> SUFFICES ASSUME IndInv, [Next]_vars PROVE IndInv'
  OBVIOUS
<1>1. index' \in Indexes(Times) /\ Sound(index')
  BY IndexKept
<1>2. LeasesKept
  BY DraftsKept
<1>3. TypeOK'
  BY <1>1, <1>2, PlacesKept DEF TypeOK, PlacesOK, LeasesKept
<1>4. CountsExact'
  BY <1>1, <1>2 DEF CountsExact, Sound, LeasesKept
<1>5. Settled'
  BY <1>1, ThreadsSettledKept, HolderKept, TemporariesKept
     DEF Settled, Sound, ThreadSettled, HolderSweeps
<1>6. QED
  BY <1>3, <1>4, <1>5, FilesKept, IdentitiesKept, TemporariesKept DEF IndInv

(* One step of PinnedSurvives. *)
LEMMA PinnedRowStays ==
  ASSUME IndInv, [Next]_vars, NEW e \in index.pinned
  PROVE  \/ e \in index'.live /\ index'.holds[e] = index.holds[e]
         \/ \E t \in Threads : Remove(t, e)
<1> DEFINE stays == e \in index'.live /\ index'.holds[e] = index.holds[e]
<1>1. /\ index \in Indexes(Times) /\ Sound(index) /\ index.live \subseteq Ids
      /\ e \in index.live
  BY CountsMeanSound DEF IndInv, TypeOK, Indexes, Settled
<1>2. ASSUME NEW ix \in Indexes(Times), NEW S,
             e \in ix.live \ S, ix.holds[e] = index.holds[e],
             index' = Release(ix, S)
      PROVE  stays
  BY <1>1, <1>2 DEF Release
<1>3. CASE UNCHANGED index
  BY <1>1, <1>3
<1>4. ASSUME NEW t \in Threads, Look(t) \/ LookFails(t)
      PROVE  stays
  BY <1>1, <1>4 DEF Look, LookFails, Touch, Indexes
<1>5. ASSUME NEW t \in Threads, Record(t)
      PROVE  stays
  <2>1. PICK ix \in Recordings(t) : index' = Release(ix, Victims(ix, Budget))
    BY <1>5 DEF Record
  <2>2. /\ ix \in Indexes(Times) /\ ix.pinned = index.pinned
        /\ e \in ix.live /\ ix.holds[e] = index.holds[e]
    BY <1>1, RecordingsSound
  <2>3. e \notin Victims(ix, Budget)
    BY <2>2 DEF Victims, Unpinned
  <2>4. QED
    BY <1>2, <2>1, <2>2, <2>3
<1>6. ASSUME NEW t \in Threads, EvictFails(t)
      PROVE  stays
  BY <1>1, <1>6, RecordingsSound DEF EvictFails
<1>7. ASSUME NEW t \in Threads, NEW o \in Ids, NEW pinned \in BOOLEAN,
             SetPinned(t, o, pinned)
      PROVE  stays
  BY <1>1, <1>7 DEF SetPinned, Indexes
<1>8. ASSUME NEW t \in Threads, NEW o \in Ids, Remove(t, o), o # e
      PROVE  stays
  BY <1>1, <1>2, <1>8 DEF Remove, Delete
<1>9. ASSUME NEW t \in Threads, Clear(t) \/ Expire(t)
      PROVE  stays
  BY <1>1, <1>2, <1>9 DEF Clear, Expire, Delete, Unpinned, Expired
<1>10. QED
  BY <1>3, <1>4, <1>5, <1>6, <1>7, <1>8, <1>9, IndexSteps

(* Every reachable state satisfies the inductive invariant.                *)
THEOREM Inductive == Spec => []IndInv
BY InitIndInv, NextIndInv, PTL DEF Spec

(* Every variable keeps its type; in particular no reference count and no  *)
(* lease count ever goes below zero.                                       *)
THEOREM TypeCorrect == Spec => []TypeOK
<1>1. IndInv => TypeOK
  BY DEF IndInv
<1>2. QED
  BY <1>1, Inductive, PTL

(* blob.refs and the lease registry count exactly.                         *)
THEOREM CountsAreExact == Spec => []CountsExact
<1>1. IndInv => CountsExact
  BY DEF IndInv
<1>2. QED
  BY <1>1, Inductive, PTL

(* No sweep, reconciliation or failed step takes the file of a row or of a *)
(* draft.                                                                  *)
THEOREM ArchiveHasNoHole == Spec => []NoHole
<1>1. IndInv => NoHole
  BY DEF IndInv
<1>2. QED
  BY <1>1, Inductive, PTL

(* Content is archived at most once.                                       *)
THEOREM IdentitiesAreUnique == Spec => []OneRowPerIdentity
<1>1. IndInv => OneRowPerIdentity
  BY DEF IndInv
<1>2. QED
  BY <1>1, Inductive, PTL

(* Every temporary belongs to a transfer in progress.                      *)
THEOREM TemporariesAreOwned == Spec => []TemporariesOwned
<1>1. IndInv => TemporariesOwned
  BY DEF IndInv
<1>2. QED
  BY <1>1, Inductive, PTL

(* Eviction, expiry, clear, a commit and a restart leave a pinned row.     *)
THEOREM PinnedRowsSurvive == Spec => PinnedSurvives
<1>1. IndInv /\ [Next]_vars
        => [\A e \in index.pinned :
              \/ e \in index'.live /\ index'.holds[e] = index.holds[e]
              \/ \E t \in Threads : Remove(t, e)]_vars
  BY PinnedRowStays
<1>2. QED
  BY <1>1, Inductive, PTL DEF Spec, PinnedSurvives

-----------------------------------------------------------------------------
(* The budget. *)

(* The times are whole numbers, and the index is typed by them. *)
LEMMA IndexNow ==
  ASSUME IndInv
  PROVE  /\ index \in Indexes(Times) /\ Sound(index)
         /\ index.live \subseteq Ids /\ index.pinned \subseteq index.live
         /\ Times \in SUBSET Int
BY CountsMeanSound, StoreAssumption DEF IndInv, TypeOK, Indexes, Settled, Times

(* Rows that hold what rows of the index hold take no more than the index. *)
LEMMA FewerRowsFit ==
  ASSUME IndInv, NEW ix \in Indexes(Times), Sound(ix),
         \A e \in ix.live : e \in index.live /\ ix.holds[e] = index.holds[e]
  PROVE  Bytes(ix) <= Bytes(index)
<1>1. \A d \in Digests : References(ix, d) => References(index, d)
  BY IndexNow, ReferencedIsNamed
<1>2. QED
  BY <1>1, BytesGrow

(* A commit that evicts stays within the budget: the rows it may not evict *)
(* are older than the commit and fitted before it.                         *)
LEMMA RecordFits ==
  ASSUME IndInv, WithinBudget, NEW t \in Threads, Record(t)
  PROVE  Bytes(index') <= Budget
<1>1. PICK ix \in Recordings(t) : index' = Release(ix, Victims(ix, Budget))
  BY DEF Record
<1>2. /\ ix \in Indexes(Times) /\ Sound(ix) /\ ix.pinned = index.pinned
      /\ index.live \subseteq ix.live
      /\ \A e \in index.live : ix.holds[e] = index.holds[e]
  BY RecordingsSound
<1> DEFINE rest == Release(ix, Unpinned(ix))
<1>3. rest \in Indexes(Times) /\ Sound(rest)
  <2>1. Unpinned(ix) \in SUBSET Ids
    BY <1>2 DEF Unpinned, Indexes
  <2>2. QED
    BY <1>2, <2>1, ReleaseSound
<1>4. \A e \in rest.live : e \in index.live /\ rest.holds[e] = index.holds[e]
  BY <1>2, IndexNow DEF Release, Unpinned, Indexes
<1>5. Bytes(rest) <= Bytes(index)
  BY <1>3, <1>4, FewerRowsFit
<1>6. Bytes(rest) <= Budget
  BY <1>5, BytesAreTotal, StoreAssumption DEF WithinBudget
<1>7. QED
  BY <1>1, <1>2, <1>6, IndexNow, EvictionFits, StoreAssumption

(* Unless a call fails, every step leaves the archive within its budget.   *)
LEMMA BudgetKept ==
  ASSUME IndInv, WithinBudget, "io" \notin Faults, [Next]_vars
  PROVE  WithinBudget'
<1>1. index' \in Indexes(Times) /\ Sound(index')
  BY IndexKept
<1>2. CASE \A e \in index'.live : e \in index.live /\ index'.holds[e] = index.holds[e]
  BY <1>1, <1>2, FewerRowsFit, BytesAreTotal, StoreAssumption DEF WithinBudget
<1>3. CASE UNCHANGED index
  BY <1>2, <1>3
<1>4. ASSUME NEW t \in Threads, Look(t)
      PROVE  WithinBudget'
  BY <1>2, <1>4, IndexNow DEF Look, Touch, Indexes
<1>5. ASSUME NEW t \in Threads, Record(t)
      PROVE  WithinBudget'
  BY <1>5, RecordFits DEF WithinBudget
<1>6. ASSUME NEW t \in Threads, NEW e \in Ids, NEW pinned \in BOOLEAN,
             SetPinned(t, e, pinned)
      PROVE  WithinBudget'
  BY <1>2, <1>6, IndexNow DEF SetPinned, Indexes
<1>7. ASSUME NEW t \in Threads, NEW S, Delete(t, S)
      PROVE  WithinBudget'
  BY <1>2, <1>7, IndexNow DEF Delete, Release
<1>8. ASSUME NEW t \in Threads
      PROVE  ~LookFails(t) /\ ~EvictFails(t)
  BY DEF LookFails, EvictFails, May
<1>9. QED
  BY <1>3, <1>4, <1>5, <1>6, <1>7, <1>8, IndexSteps DEF Remove, Clear, Expire

(* Unless a call fails, the archive is within its budget whatever is        *)
(* pinned, raced or restarted.                                              *)
THEOREM BudgetIsKept ==
  ASSUME "io" \notin Faults
  PROVE  Spec => []WithinBudget
<1>1. Init => WithinBudget
  <2> SUFFICES ASSUME Init PROVE WithinBudget
    OBVIOUS
  <2>1. Stored(index) = {}
    BY DEF Init, EmptyIndex, Stored, References
  <2>2. Bytes(index) = 0
    BY <2>1, BytesAreTotal, TotalFirst
  <2>3. QED
    BY <2>2, StoreAssumption DEF WithinBudget
<1>2. IndInv /\ WithinBudget /\ [Next]_vars => WithinBudget'
  BY BudgetKept
<1>3. QED
  BY <1>1, <1>2, Inductive, PTL DEF Spec

-----------------------------------------------------------------------------
(* Nothing leaks. *)

(* What a thread's lists say of its place, when no call fails and no client *)
(* hangs up or repeats a mime.                                              *)
Tidy(t) ==
  /\ orphaned[t] # {} => pc[t] \in {"dropping", "collecting", "sweeping"}
  /\ unused[t] # {} => pc[t] = "collecting"
  /\ pc[t] # "closing"
  /\ ~RepeatsMime(draft[t])

(* Nothing but a crash or the clock goes wrong. *)
Calm == Faults \subseteq {"crash", "clock"}

(* What files the lists, the leases and the rows answer for. *)
Accounted(d) ==
  \/ Referenced(d)
  \/ Leased(d)
  \/ \E t \in Threads : d \in orphaned[t] \cup unused[t]

(* A commit neither fails nor finds a mime twice. *)
LEMMA NothingFails ==
  ASSUME IndInv, Calm, NEW t \in Threads, Tidy(t)
  PROVE  ~LookFails(t) /\ ~DeriveFails(t) /\ ~RecordFails(t) /\ ~EvictFails(t) /\ ~Hangup(t)
<1>1. ~May("io") /\ ~May("hangup")
  BY DEF Calm, May
<1>2. DigestsOf(draft[t]) \subseteq files
  BY DEF IndInv, NoHole, DigestsOf
<1>3. ~RepeatsMime(draft[t])
  BY DEF Tidy
<1>4. QED
  BY <1>1, <1>2, <1>3 DEF LookFails, DeriveFails, RecordFails, EvictFails, Hangup

(* What a deletion leaves without a reference is on its list. *)
LEMMA DeletedAreListed ==
  ASSUME NEW ix \in Indexes(Times), Sound(ix), NEW S \in SUBSET Ids,
         NEW d \in Digests, References(ix, d), ~References(Release(ix, S), d)
  PROVE  d \in Orphaned(ix, S)
<1>1. Release(ix, S).refs[d] = ix.refs[d] - Cardinality(Occurrences(ix.holds, S, d))
  BY DEF Release
<1>2. Release(ix, S).refs[d] \in Nat /\ ix.refs[d] \in Nat
  <2>1. Release(ix, S) \in Indexes(Times)
    BY ReleaseSound
  <2>2. QED
    BY <2>1 DEF Indexes
<1>3. Release(ix, S).refs[d] = 0
  BY <1>2 DEF References
<1>4. Occurrences(ix.holds, S, d) # {}
  <2>1. ix.refs[d] # 0
    BY <1>2 DEF References
  <2>2. Cardinality(Occurrences(ix.holds, S, d)) # 0
    BY <1>1, <1>2, <1>3, <2>1
  <2>3. QED
    BY <2>2, FS_EmptySet
<1>5. QED
  BY <1>3, <1>4 DEF Orphaned

(* The row of a step that releases S of ix, and lists what it orphans. *)
LEMMA ReleaseAccounts ==
  ASSUME IndInv, NEW t \in Threads, Tidy(t), pc[t] \in {"open", "recording"},
         NEW ix \in Indexes(Times), Sound(ix), NEW S \in SUBSET Ids,
         \A d \in Digests : References(index, d) => References(ix, d),
         index' = Release(ix, S),
         orphaned' = [orphaned EXCEPT ![t] = Orphaned(ix, S)],
         UNCHANGED <<leases, unused>>,
         NEW d \in Digests, Accounted(d)
  PROVE  Accounted(d)'
<1>1. orphaned \in [Threads -> SUBSET Digests] /\ orphaned[t] = {}
  BY DEF IndInv, TypeOK, Tidy
<1>2. CASE Referenced(d) /\ ~Referenced(d)'
  <2>1. d \in Orphaned(ix, S)
    BY <1>2, DeletedAreListed DEF Referenced
  <2>2. QED
    BY <1>1, <2>1 DEF Accounted
<1>3. CASE ~Referenced(d) \/ Referenced(d)'
  BY <1>1, <1>3 DEF Accounted, Leased
<1>4. QED
  BY <1>2, <1>3

(* Every step keeps every file accounted for. *)
LEMMA NoLeakKept ==
  ASSUME IndInv, Calm, NoLeak, \A t \in Threads : Tidy(t), [Next]_vars
  PROVE  NoLeak'
<1> SUFFICES ASSUME phase' = "up", NEW d \in files'
             PROVE  Accounted(d)'
  BY DEF NoLeak, Accounted
<1>1. /\ files \subseteq Digests
      /\ leases \in [Digests -> Nat]
      /\ orphaned \in [Threads -> SUBSET Digests]
      /\ unused \in [Threads -> SUBSET Digests]
      /\ draft \in [Threads -> Holding]
  BY DEF IndInv, TypeOK
<1>2. phase = "up" /\ d \in files => Accounted(d)
  BY DEF NoLeak, Accounted
<1>3. CASE /\ phase = "up" /\ d \in files
           /\ \E ix \in Indexes(Times) : index' = ix /\ ix.refs = index.refs
           /\ UNCHANGED <<leases, orphaned, unused>>
  BY <1>2, <1>3 DEF Accounted, Referenced, References, Leased
<1>4. CASE Serve
  <2>1. ~Removable(d) /\ UNCHANGED <<index, leases>>
    BY <1>4 DEF Serve, Calm, May, disk, memory
  <2>2. QED
    BY <2>1 DEF Removable, Accounted, Referenced, Leased
<1>5. CASE Crash \/ Restart \/ \E e \in Digests : Reconcile(e)
  BY <1>5 DEF Crash, Restart, Reconcile
<1>6. CASE Tick \/ UNCHANGED vars
  BY <1>3, <1>6, IndexNow DEF Tick, vars, disk, memory
<1>7. ASSUME NEW t \in Threads,
             Receive(t) \/ Abandon(t) \/ BeginCommit(t) \/ Look(t) \/ Lock(t)
      PROVE  Accounted(d)'
  <2>1. /\ phase = "up" /\ d \in files
        /\ UNCHANGED <<leases, orphaned, unused>>
    BY <1>7 DEF Receive, Abandon, BeginCommit, Look, Lock, At, disk
  <2>2. index'.refs = index.refs
    BY <1>7, IndexNow DEF Receive, Abandon, BeginCommit, Look, Lock, Touch, Indexes
  <2>3. index' \in Indexes(Times)
    BY IndexKept
  <2>4. QED
    BY <1>3, <2>1, <2>2, <2>3
<1>8. ASSUME NEW t \in Threads, NEW e \in Ids, NEW pinned \in BOOLEAN,
             SetPinned(t, e, pinned)
      PROVE  Accounted(d)'
  <2>1. /\ phase = "up" /\ d \in files
        /\ UNCHANGED <<leases, orphaned, unused>>
    BY <1>8 DEF SetPinned, At, disk, memory
  <2>2. index'.refs = index.refs
    BY <1>8, IndexNow DEF SetPinned, Indexes
  <2>3. index' \in Indexes(Times)
    BY IndexKept
  <2>4. QED
    BY <1>3, <2>1, <2>2, <2>3
<1>9. ASSUME NEW t \in Threads, NEW p \in Parts,
             phase = "up", leases' = LeaseTaken(p.digest),
             files' = files \cup {p.digest}, UNCHANGED <<index, orphaned, unused>>
      PROVE  Accounted(d)'
  <2>1. p.digest \in Digests
    BY IndexAssumption
  <2>2. CASE d = p.digest
    BY <1>1, <1>9, <2>1, <2>2 DEF Accounted, Leased, LeaseTaken
  <2>3. CASE d # p.digest
    BY <1>1, <1>2, <1>9, <2>1, <2>3 DEF Accounted, Leased, LeaseTaken, Referenced
  <2>4. QED
    BY <2>2, <2>3
<1>10. ASSUME NEW t \in Threads, NEW p \in Offered, Publish(t, p)
       PROVE  Accounted(d)'
  BY <1>9, <1>10, StoreAssumption DEF Publish, At
<1>11. ASSUME NEW t \in Threads, Derive(t)
       PROVE  Accounted(d)'
  <2>1. PICK p \in Depictions(draft[t]) :
          IF p = NoPart THEN UNCHANGED <<leases, files>>
          ELSE leases' = LeaseTaken(p.digest) /\ files' = files \cup {p.digest}
    BY <1>11 DEF Derive
  <2>2. phase = "up" /\ UNCHANGED <<index, orphaned, unused>>
    BY <1>11 DEF Derive, At
  <2>3. p \in Parts \cup {NoPart}
    BY <1>1, DepictionsAreParts
  <2>4. QED
    BY <1>3, <1>9, <2>1, <2>2, <2>3, IndexNow
<1>12. ASSUME NEW t \in Threads, Record(t)
       PROVE  Accounted(d)'
  <2>1. PICK ix \in Recordings(t) :
          /\ index' = Release(ix, Victims(ix, Budget))
          /\ orphaned' = [orphaned EXCEPT ![t] = Orphaned(ix, Victims(ix, Budget))]
    BY <1>12 DEF Record
  <2>2. /\ phase = "up" /\ pc[t] = "recording" /\ d \in files
        /\ UNCHANGED <<leases, unused>>
    BY <1>12 DEF Record, At, disk
  <2>3. /\ ix \in Indexes(Times) /\ Sound(ix)
        /\ index.live \subseteq ix.live
        /\ \A e \in index.live : ix.holds[e] = index.holds[e]
    BY RecordingsSound
  <2>4. Victims(ix, Budget) \in SUBSET Ids
    BY <2>3 DEF Victims, Unpinned, Indexes
  <2>5. \A e \in Digests : References(index, e) => References(ix, e)
    BY <2>3, IndexNow, ReferencedIsNamed
  <2>6. QED
    BY <1>1, <1>2, <2>1, <2>2, <2>3, <2>4, <2>5, ReleaseAccounts
<1>13. ASSUME NEW t \in Threads, NEW S \in SUBSET Ids, Delete(t, S)
       PROVE  Accounted(d)'
  <2>1. /\ phase = "up" /\ pc[t] = "open" /\ d \in files
        /\ UNCHANGED <<leases, unused>>
        /\ index' = Release(index, S)
        /\ orphaned' = [orphaned EXCEPT ![t] = Orphaned(index, S)]
    BY <1>13 DEF Delete, At, disk
  <2>2. QED
    BY <1>1, <1>2, <2>1, IndexNow, ReleaseAccounts
<1>14. ASSUME NEW t \in Threads, DropDerived(t)
       PROVE  Accounted(d)'
  <2>1. /\ phase = "up" /\ d \in files /\ UNCHANGED <<index, orphaned>>
        /\ unused' = [unused EXCEPT ![t] = ThumbDigests(t)]
        /\ unused[t] = {}
    BY <1>14 DEF DropDerived, At, disk, Tidy
  <2>2. ThumbDropped(t)
    BY <1>14 DEF DropDerived
  <2>3. CASE d \in ThumbDigests(t)
    BY <1>1, <2>1, <2>3 DEF Accounted
  <2>4. CASE d \notin ThumbDigests(t)
    <3>1. leases'[d] = leases[d]
      BY <1>1, <2>1, <2>2, <2>4 DEF ThumbDropped, ThumbDigests, In
    <3>2. QED
      BY <1>1, <1>2, <2>1, <3>1 DEF Accounted, Leased, Referenced
  <2>5. QED
    BY <2>3, <2>4
<1>15. ASSUME NEW t \in Threads, Discard(t)
       PROVE  Accounted(d)'
  <2>1. /\ phase = "up" /\ d \in files /\ UNCHANGED <<index, unused>>
        /\ orphaned' = [orphaned EXCEPT ![t] = DigestsOf(draft[t])]
        /\ leases' = LeasesDropped(t)
        /\ orphaned[t] = {}
    BY <1>15 DEF Discard, At, disk, Tidy
  <2>2. CASE d \in DigestsOf(draft[t])
    BY <1>1, <2>1, <2>2 DEF Accounted
  <2>3. CASE d \notin DigestsOf(draft[t])
    <3>1. Occurrences(draft, {t}, d) = {}
      BY <1>1, <2>1, <2>3 DEF Occurrences, DigestsOf
    <3>2. leases'[d] = leases[d]
      <4>1. Cardinality(Occurrences(draft, {t}, d)) = 0
        BY <3>1, FS_EmptySet
      <4>2. d \in Digests /\ leases'[d] = leases[d] - 0 /\ leases[d] \in Nat
        BY <1>1, <2>1, <4>1 DEF LeasesDropped
      <4>3. QED
        BY <4>2
    <3>3. QED
      BY <1>1, <1>2, <2>1, <3>2 DEF Accounted, Leased, Referenced
  <2>4. QED
    BY <2>2, <2>3
<1>16. ASSUME NEW t \in Threads, NEW e \in Digests, Sweep(t, e)
       PROVE  Accounted(d)'
  <2>1. /\ phase = "up" /\ d \in files /\ UNCHANGED <<index, leases>>
        /\ files' = IF Removable(e) THEN files \ {e} ELSE files
    BY <1>16 DEF Sweep, Calm, May
  <2>2. CASE d = e
    BY <2>1, <2>2 DEF Removable, Accounted, Leased, Referenced
  <2>3. CASE d # e
    <3>1. \A o \in Threads : d \in orphaned[o] \cup unused[o]
                               => d \in orphaned'[o] \cup unused'[o]
      BY <1>1, <1>16, <2>3 DEF Sweep
    <3>2. QED
      BY <1>2, <2>1, <3>1 DEF Accounted, Leased, Referenced
  <2>4. QED
    BY <2>2, <2>3
<1>17. ASSUME NEW t \in Threads,
              (\E e \in Ids : Remove(t, e)) \/ Clear(t) \/ Expire(t)
       PROVE  Accounted(d)'
  <2>1. \E S \in SUBSET Ids : Delete(t, S)
    BY <1>17, IndexNow DEF Remove, Clear, Expire, Unpinned, Expired
  <2>2. QED
    BY <1>13, <2>1
<1>18. QED
  BY <1>4, <1>5, <1>6, <1>7, <1>8, <1>10, <1>11, <1>12, <1>14, <1>15,
     <1>16, <1>17, NothingFails DEF Next, Request, Commit

(* The slots of a draft decide whether it repeats a mime. *)
LEMMA SlotsDecideRepeats ==
  ASSUME NEW h, NEW k, \A s \in Slots : k[s] = h[s], ~RepeatsMime(h)
  PROVE  ~RepeatsMime(k)
BY DEF RepeatsMime

(* Every step keeps the threads tidy. *)
LEMMA TidyKept ==
  ASSUME IndInv, Calm, \A t \in Threads : Tidy(t), [Next]_vars, NEW o \in Threads
  PROVE  Tidy(o)'
<1> USE DEF Go, At
<1>1. /\ draft \in [Threads -> Holding] /\ pc \in [Threads -> Locations]
      /\ orphaned \in [Threads -> SUBSET Digests]
      /\ unused \in [Threads -> SUBSET Digests]
      /\ Tidy(o)
  BY DEF IndInv, TypeOK
<1>2. CASE UNCHANGED <<draft, pc, orphaned, unused>>
  BY <1>1, <1>2 DEF Tidy
<1>3. CASE /\ draft'[o] = draft[o] /\ pc'[o] = pc[o]
           /\ orphaned'[o] = orphaned[o] /\ unused'[o] = unused[o]
  BY <1>1, <1>3 DEF Tidy
<1>4. ASSUME NEW t \in Threads, Request(t)
      PROVE  Tidy(o)'
  <2>1. CASE Receive(t) \/ Abandon(t)
    BY <1>1, <2>1 DEF Receive, Abandon, Tidy
  <2>2. ASSUME NEW p \in Offered, Publish(t, p)
        PROVE  Tidy(o)'
    <3> DEFINE s == CHOOSE q \in FreeSlots(t) : TRUE
    <3>1. /\ draft' = [draft EXCEPT ![t][s] = p] /\ pc' = [pc EXCEPT ![t] = "open"]
          /\ UNCHANGED <<orphaned, unused>>
          /\ \A r \in Slots : draft[t][r] # NoPart => draft[t][r].mime # p.mime
      BY <2>2 DEF Publish, Calm, May
    <3>2. pc[t] = "receiving"
      BY <2>2 DEF Publish
    <3>3. CASE o = t
      <4>1. s \in Slots
        <5>1. FreeSlots(t) # {}
          BY <2>2 DEF Publish, IndInv, Settled
        <5>2. QED
          BY <5>1 DEF FreeSlots
      <4> HIDE DEF s
      <4>2. /\ \A r \in Slots \ {s} : draft'[t][r] = draft[t][r]
            /\ draft'[t][s] = p
        BY <1>1, <3>1, <4>1 DEF Holding, Slot
      <4>3. ~RepeatsMime(draft[t])
        BY <1>1, <3>3 DEF Tidy
      <4>4. ~RepeatsMime(draft'[t])
        BY <3>1, <4>2, <4>3 DEF RepeatsMime
      <4>5. QED
        BY <1>1, <3>1, <3>2, <3>3, <4>4 DEF Tidy
    <3>4. CASE o # t
      BY <1>1, <1>3, <3>1, <3>4
    <3>5. QED
      BY <3>3, <3>4
  <2>3. ASSUME NEW e \in Ids, NEW pinned \in BOOLEAN, SetPinned(t, e, pinned)
        PROVE  Tidy(o)'
    BY <1>2, <2>3 DEF SetPinned, memory
  <2>4. ASSUME NEW S, Delete(t, S)
        PROVE  Tidy(o)'
    BY <1>1, <2>4 DEF Delete, Tidy
  <2>5. QED
    BY <1>4, <2>1, <2>2, <2>3, <2>4 DEF Request, Remove, Clear, Expire
<1>5. ASSUME NEW t \in Threads, Commit(t)
      PROVE  Tidy(o)'
  <2>1. CASE BeginCommit(t) \/ Look(t)
    BY <1>1, <2>1 DEF BeginCommit, Look, Tidy
  <2>2. ASSUME NEW p, draft' = [draft EXCEPT ![t][Thumb] = p]
        PROVE  ~RepeatsMime(draft'[o])
    <3>1. \A s \in Slots : draft'[o][s] = draft[o][s]
      BY <1>1, <2>2, IndexAssumption DEF Holding, Slot
    <3>2. QED
      BY <1>1, <3>1, SlotsDecideRepeats DEF Tidy
  <2>3. CASE Derive(t)
    <3>1. ~RepeatsMime(draft'[o])
      BY <2>2, <2>3 DEF Derive
    <3>2. QED
      BY <1>1, <2>3, <3>1 DEF Derive, Tidy
  <2>4. CASE Record(t)
    BY <1>1, <2>4 DEF Record, Tidy
  <2>5. CASE DropDerived(t)
    <3>1. ~RepeatsMime(draft'[o])
      BY <2>2, <2>5 DEF DropDerived, ThumbDropped
    <3>2. QED
      BY <1>1, <2>5, <3>1 DEF DropDerived, Tidy
  <2>6. QED
    BY <1>5, <2>1, <2>3, <2>4, <2>5, NothingFails DEF Commit
<1>6. \A s \in Slots : Nothing[s] = NoPart
  BY DEF Nothing, Slot
<1>7. ~RepeatsMime(Nothing)
  BY <1>6 DEF RepeatsMime
<1>8. ASSUME NEW t \in Threads, Discard(t)
      PROVE  Tidy(o)'
  BY <1>1, <1>7, <1>8 DEF Discard, Tidy
<1>9. ASSUME NEW t \in Threads, NEW d \in Digests, Sweep(t, d)
      PROVE  Tidy(o)'
  <2>1. pc[t] \in {"collecting", "sweeping"}
    BY <1>9 DEF Sweep, IndInv, Settled
  <2>2. QED
    BY <1>1, <1>9, <2>1 DEF Sweep, Tidy
<1>10. CASE Crash
  BY <1>7, <1>10 DEF Crash, Tidy
<1>11. CASE \/ Restart \/ Serve \/ Tick \/ UNCHANGED vars
            \/ \E t \in Threads : Lock(t)
            \/ \E d \in Digests : Reconcile(d)
  BY <1>2, <1>11 DEF Restart, Serve, Tick, Lock, Reconcile, vars, memory
<1>12. QED
  BY <1>4, <1>5, <1>8, <1>9, <1>10, <1>11, NothingFails DEF Next

(* While the daemon runs, and only a crash or the clock disturbs it, every *)
(* file is named by a row, leased by a draft or about to be swept.         *)
THEOREM NothingLeaks ==
  ASSUME Faults \subseteq {"crash", "clock"}
  PROVE  Spec => []NoLeak
<1>1. Calm
  BY DEF Calm
<1> DEFINE Inv == NoLeak /\ \A t \in Threads : Tidy(t)
<1>2. Init => Inv
  <2> SUFFICES ASSUME Init PROVE Inv
    OBVIOUS
  <2>1. \A s \in Slots : Nothing[s] = NoPart
    BY DEF Nothing, Slot
  <2>2. QED
    BY <2>1 DEF Init, NoLeak, Tidy, RepeatsMime
<1>3. IndInv /\ Inv /\ [Next]_vars => Inv'
  BY <1>1, NoLeakKept, TidyKept
<1>4. QED
  BY <1>2, <1>3, Inductive, PTL DEF Spec

-----------------------------------------------------------------------------
(* The promise. *)

(* The commits whose time is set carry a time, and so does every row. *)
ThreadStamped(t) ==
  pc[t] \in {"committing", "deriving", "recording"} => stamp[t] \in Times

Dated(ix) == \A e \in ix.live : ix.at[e] \in Times

Stamped == Dated(index) /\ \A t \in Threads : ThreadStamped(t)

(* A deletion dates no row anew. *)
LEMMA ReleaseDated ==
  ASSUME NEW ix \in Indexes(Times), Dated(ix), NEW S
  PROVE  Dated(Release(ix, S))
BY DEF Dated, Release, Indexes

(* What a thread records bears no second later than the clock. *)
LEMMA RecordingsDated ==
  ASSUME IndInv, Stamped, NEW t \in Threads, pc[t] = "recording",
         NEW ix \in Recordings(t)
  PROVE  Dated(ix)
<1>1. /\ stamp[t] \in Times /\ Dated(index)
      /\ index.at \in [Ids -> Times \cup {0}] /\ index.live \subseteq Ids
  BY IndexNow DEF Stamped, ThreadStamped, Indexes
<1>2. CASE \E e \in Known(index, draft[t]) : ix = Touch(index, e, stamp[t])
  BY <1>1, <1>2 DEF Known, Touch, Dated
<1>3. CASE \E e \in Ids : ix = Insert(index, e, draft[t], stamp[t])
  <2>1. PICK e \in Ids : ix = Insert(index, e, draft[t], stamp[t])
    BY <1>3
  <2>2. ix.live = index.live \cup {e} /\ ix.at = [index.at EXCEPT ![e] = stamp[t]]
    BY <2>1, IndexNow DEF Insert, Indexes
  <2>3. QED
    BY <1>1, <2>2 DEF Dated
<1>4. QED
  BY <1>2, <1>3 DEF Recordings

(* Every step keeps the rows and the commits dated. *)
LEMMA StampedKept ==
  ASSUME IndInv, Stamped, [Next]_vars
  PROVE  Stamped'
<1> USE DEF Go, At
<1>1. /\ pc \in [Threads -> Locations] /\ stamp \in [Threads -> Times \cup {0}]
      /\ now \in Times
      /\ \A t \in Threads : ThreadStamped(t)
      /\ Dated(index)
  BY DEF IndInv, TypeOK, Stamped
<1>2. Dated(index')
  <2>1. CASE UNCHANGED index
    BY <1>1, <2>1 DEF Dated
  <2>2. ASSUME NEW t \in Threads, Look(t) \/ LookFails(t)
        PROVE  Dated(index')
    <3>1. stamp[t] \in Times
      BY <1>1, <2>2 DEF Look, LookFails, ThreadStamped
    <3>2. QED
      BY <1>1, <2>1, <2>2, <3>1, IndexNow DEF Look, LookFails, Touch, Known, Dated, Indexes
  <2>3. ASSUME NEW t \in Threads, Record(t)
        PROVE  Dated(index')
    BY <2>3, RecordingsDated, RecordingsSound, ReleaseDated DEF Record
  <2>4. ASSUME NEW t \in Threads, EvictFails(t)
        PROVE  Dated(index')
    BY <2>4, RecordingsDated DEF EvictFails
  <2>5. ASSUME NEW t \in Threads, NEW e \in Ids, NEW pinned \in BOOLEAN,
               SetPinned(t, e, pinned)
        PROVE  Dated(index')
    BY <1>1, <2>5, IndexNow DEF SetPinned, Dated, Indexes
  <2>6. ASSUME NEW t \in Threads, NEW S, Delete(t, S)
        PROVE  Dated(index')
    BY <1>1, <2>6, IndexNow, ReleaseDated DEF Delete
  <2>7. QED
    BY <2>1, <2>2, <2>3, <2>4, <2>5, <2>6, IndexSteps DEF Remove, Clear, Expire
<1>3. ASSUME NEW o \in Threads
      PROVE  ThreadStamped(o)'
  <2> USE DEF ThreadStamped
  <2>1. CASE UNCHANGED <<pc, stamp>>
    BY <1>1, <2>1
  <2>2. CASE pc'[o] \notin {"committing", "deriving", "recording"}
    BY <2>2
  <2>3. ASSUME NEW t \in Threads, BeginCommit(t) \/ Look(t) \/ Derive(t)
        PROVE  ThreadStamped(o)'
    BY <1>1, <2>3 DEF BeginCommit, Look, Derive
  <2>4. ASSUME NEW t \in Threads,
               \/ Receive(t) \/ Abandon(t) \/ \E p \in Offered : Publish(t, p)
               \/ \E S : Delete(t, S)
               \/ LookFails(t) \/ DeriveFails(t) \/ Record(t) \/ DropDerived(t)
               \/ RecordFails(t) \/ EvictFails(t) \/ Discard(t) \/ Hangup(t)
        PROVE  ThreadStamped(o)'
    <3>1. /\ \E place \in Locations \ {"committing", "deriving", "recording"} :
               pc' = [pc EXCEPT ![t] = place]
          /\ stamp' = stamp \/ \E time : stamp' = [stamp EXCEPT ![t] = time]
      BY <2>4 DEF Receive, Abandon, Publish, Delete, LookFails, DeriveFails,
         Record, DropDerived, RecordFails, EvictFails, Discard, Hangup, Locations
    <3>2. CASE o = t
      BY <1>1, <2>2, <3>1, <3>2
    <3>3. CASE o # t
      BY <1>1, <3>1, <3>3
    <3>4. QED
      BY <3>2, <3>3
  <2>5. ASSUME NEW t \in Threads, NEW d \in Digests, Sweep(t, d)
        PROVE  ThreadStamped(o)'
    <3>1. CASE o = t
      <4>1. pc[t] \in {"collecting", "sweeping"}
        BY <2>5 DEF Sweep, IndInv, Settled
      <4>2. QED
        BY <1>1, <2>2, <2>5, <3>1, <4>1 DEF Sweep
    <3>2. CASE o # t
      BY <1>1, <2>5, <3>2 DEF Sweep
    <3>3. QED
      BY <3>1, <3>2
  <2>6. CASE Crash
    BY <2>2, <2>6 DEF Crash
  <2>7. CASE \/ Restart \/ Serve \/ Tick \/ UNCHANGED vars
             \/ \E t \in Threads : Lock(t)
             \/ \E d \in Digests : Reconcile(d)
             \/ \E t \in Threads, e \in Ids, pinned \in BOOLEAN : SetPinned(t, e, pinned)
    BY <2>1, <2>7 DEF Restart, Serve, Tick, Lock, Reconcile, SetPinned, vars, memory
  <2>8. QED
    BY <2>3, <2>4, <2>5, <2>6, <2>7
       DEF Next, Request, Commit, Remove, Clear, Expire
<1>4. QED
  BY <1>2, <1>3 DEF Stamped

(* The shelf of an archive without a hole is a view of its index alone.    *)
View(ix) ==
  [e \in Ids |->
     IF e \in ix.live
     THEN [content |-> Identity(ix.holds[e]), pinned |-> e \in ix.pinned,
           at |-> ix.at[e]]
     ELSE NoPart]

(* Where no file is missing, what can be served of a row is what it holds. *)
LEMMA NoHoleServesAll ==
  ASSUME NEW ix, NEW there,
         \A e \in ix.live, d \in Digests : d \in DigestsOf(ix.holds[e]) => d \in there,
         NEW e \in ix.live
  PROVE  [p \in Parts |->
            Cardinality({s \in Slots : ix.holds[e][s] = p /\ p.digest \in there})]
           = Identity(ix.holds[e])
<1>1. ASSUME NEW p \in Parts, NEW s \in Slots, ix.holds[e][s] = p
      PROVE  p.digest \in there
  <2>1. p.digest \in DigestsOf(ix.holds[e])
    BY <1>1, IndexAssumption DEF DigestsOf, In, Slot
  <2>2. QED
    BY <2>1, IndexAssumption
<1>2. \A p \in Parts : {s \in Slots : ix.holds[e][s] = p /\ p.digest \in there}
                        = {s \in Slots : ix.holds[e][s] = p}
  BY <1>1
<1>3. QED
  BY <1>2 DEF Identity

(* The abstract shelf is what the index shows. *)
LEMMA ShelfIsView == IndInv => Shelf = View(index)
<1> SUFFICES ASSUME IndInv PROVE Shelf = View(index)
  OBVIOUS
<1>1. \A e \in index.live, d \in Digests :
        d \in DigestsOf(index.holds[e]) => d \in files
  BY DEF IndInv, NoHole
<1>2. \A e \in index.live :
        [p \in Parts |-> Cardinality(
           {s \in Slots : index.holds[e][s] = p /\ p.digest \in files})]
          = Identity(index.holds[e])
  BY <1>1, NoHoleServesAll
<1>3. QED
  BY <1>2 DEF Shelf, Served, View

(* So it is after a step. *)
LEMMA ShelfIsViewNext == IndInv' => Shelf' = View(index')
<1> SUFFICES ASSUME IndInv' PROVE Shelf' = View(index')
  OBVIOUS
<1>1. \A e \in index'.live, d \in Digests :
        d \in DigestsOf(index'.holds[e]) => d \in files'
  BY DEF IndInv, NoHole
<1>2. \A e \in index'.live :
        [p \in Parts |-> Cardinality(
           {s \in Slots : index'.holds[e][s] = p /\ p.digest \in files'})]
          = Identity(index'.holds[e])
  BY <1>1, NoHoleServesAll
<1>3. QED
  BY <1>2 DEF Shelf, Served, View

(* An index whose rows are dated shows entries, and nothing for the rest.  *)
LEMMA ViewShows ==
  ASSUME NEW ix \in Indexes(Times), Dated(ix), Sound(ix)
  PROVE  /\ View(ix) = [e \in Ids |-> View(ix)[e]]
         /\ \A e \in Ids : (View(ix)[e] # NoPart <=> e \in ix.live)
         /\ Promise!Held(View(ix)) = ix.live
         /\ Promise!Loose(View(ix)) = Unpinned(ix)
<1>1. ASSUME NEW e \in ix.live
      PROVE  View(ix)[e] # NoPart /\ (View(ix)[e].pinned <=> e \in ix.pinned)
  <2>1. e \in Ids /\ ix.holds[e] \in Holding /\ ix.at[e] \in Times
    BY DEF Indexes, Dated
  <2>2. Identity(ix.holds[e]) \in Contents
    BY <2>1 DEF Contents
  <2>3. View(ix)[e] = [content |-> Identity(ix.holds[e]), pinned |-> e \in ix.pinned,
                       at |-> ix.at[e]]
    BY <2>1 DEF View
  <2>4. View(ix)[e] \in [content : Contents, pinned : BOOLEAN, at : Times]
    BY <2>1, <2>2, <2>3
  <2>5. View(ix)[e] # NoPart
    BY <2>4, AbsenceAssumption
  <2>6. View(ix)[e].pinned <=> e \in ix.pinned
    BY <2>1 DEF View
  <2>7. QED
    BY <2>5, <2>6
<1>2. /\ ix.live \subseteq Ids
      /\ \A e \in Ids \ ix.live : View(ix)[e] = NoPart
  BY DEF View, Indexes
<1>3. Promise!Held(View(ix)) = ix.live
  BY <1>1, <1>2 DEF Promise!Held
<1>4. Promise!Loose(View(ix)) = Unpinned(ix)
  BY <1>1, <1>3 DEF Promise!Loose, Unpinned
<1>5. QED
  BY <1>1, <1>2, <1>3, <1>4 DEF View

(* Deleting rows takes their entries off the shelf.                        *)
LEMMA ViewReleased ==
  ASSUME NEW ix \in Indexes(Times), NEW S \in SUBSET Ids
  PROVE  View(Release(ix, S)) = Promise!Without(View(ix), S)
BY DEF View, Release, Promise!Without, Indexes

(* A commit that finds or inserts its row, and evicts some of the oldest    *)
(* unpinned rows or none, is one recording.                                *)
LEMMA RecordingPromised ==
  ASSUME IndInv, Stamped, NEW t \in Threads,
         pc[t] \in {"committing", "recording"},
         NEW ix \in Indexes(Times), Sound(ix), Dated(ix),
         \/ \E e \in Known(index, draft[t]) : ix = Touch(index, e, stamp[t])
         \/ /\ Known(index, draft[t]) = {}
            /\ \E e \in Ids \ index.live : ix = Insert(index, e, draft[t], stamp[t]),
         NEW S \in SUBSET Unpinned(ix),
         \A v \in S, k \in Unpinned(ix) \ S : Older(ix, v, k),
         Shelf' = Promise!Without(View(ix), S)
  PROVE  Promise!Next
<1> DEFINE content == Identity(draft[t])
           time == stamp[t]
<1>1. /\ index \in Indexes(Times) /\ Sound(index) /\ Dated(index)
      /\ time \in Times /\ draft[t] \in Holding
      /\ index.live \subseteq Ids /\ index.pinned \subseteq index.live
  BY IndexNow DEF Stamped, ThreadStamped, IndInv, TypeOK
<1>2. content \in Contents
  BY <1>1 DEF Contents
<1>3. Shelf = View(index)
  BY ShelfIsView
<1>4. Shelf' \in Promise!MadeRoom(View(ix))
  <2>1. Promise!Loose(View(ix)) = Unpinned(ix) /\ Unpinned(ix) \subseteq Ids
    BY ViewShows DEF Unpinned, Indexes
  <2>2. \A e \in Unpinned(ix) : View(ix)[e].at = ix.at[e]
    BY DEF View, Unpinned, Indexes
  <2>3. \A v \in S, k \in Unpinned(ix) \ S :
          \/ View(ix)[v].at < View(ix)[k].at
          \/ View(ix)[v].at = View(ix)[k].at /\ v < k
    BY <2>2 DEF Older
  <2>4. QED
    BY <2>1, <2>3 DEF Promise!MadeRoom
<1>5. SUFFICES \E e \in Ids :
        /\ IF Shelf[e] = NoPart
           THEN \A o \in Promise!Held(Shelf) : Shelf[o].content # content
           ELSE Shelf[e].content = content
        /\ View(ix) = [Shelf EXCEPT ![e] =
             [content |-> content, at |-> time,
              pinned |-> Shelf[e] # NoPart /\ Shelf[e].pinned]]
  BY <1>1, <1>2, <1>4 DEF Promise!Next, Promise!Record
<1>6. \A o \in index.live :
        /\ View(index)[o].content = Identity(index.holds[o])
        /\ View(index)[o].pinned <=> o \in index.pinned
  BY <1>1 DEF View
<1>7. /\ Promise!Held(View(index)) = index.live
      /\ \A e \in Ids : View(index)[e] # NoPart <=> e \in index.live
  BY <1>1, ViewShows
<1>8. ASSUME NEW e \in Known(index, draft[t]), ix = Touch(index, e, time)
      PROVE  /\ e \in Ids
             /\ Shelf[e] # NoPart /\ Shelf[e].content = content
             /\ View(ix) = [Shelf EXCEPT ![e] =
                  [content |-> content, at |-> time,
                   pinned |-> Shelf[e] # NoPart /\ Shelf[e].pinned]]
  <2>1. e \in index.live /\ Identity(index.holds[e]) = content
    BY DEF Known
  <2>2. e \in Ids /\ Shelf[e] # NoPart /\ Shelf[e].content = content
    BY <1>1, <1>3, <1>6, <1>7, <2>1
  <2>3. (Shelf[e] # NoPart /\ Shelf[e].pinned) <=> e \in index.pinned
    BY <1>3, <1>6, <2>1, <2>2
  <2>4. /\ ix.live = index.live /\ ix.holds = index.holds /\ ix.pinned = index.pinned
        /\ ix.at = [index.at EXCEPT ![e] = time]
    BY <1>1, <1>8 DEF Touch, Indexes
  <2>5. QED
    BY <1>1, <1>3, <2>1, <2>2, <2>3, <2>4 DEF View, Indexes
<1>9. ASSUME NEW e \in Ids \ index.live, Known(index, draft[t]) = {},
             ix = Insert(index, e, draft[t], time)
      PROVE  /\ Shelf[e] = NoPart
             /\ \A o \in Promise!Held(Shelf) : Shelf[o].content # content
             /\ View(ix) = [Shelf EXCEPT ![e] =
                  [content |-> content, at |-> time,
                   pinned |-> Shelf[e] # NoPart /\ Shelf[e].pinned]]
  <2>1. Shelf[e] = NoPart
    BY <1>3, <1>7
  <2>2. \A o \in Promise!Held(Shelf) : Shelf[o].content # content
    BY <1>3, <1>6, <1>7, <1>9 DEF Known
  <2>3. e \notin index.pinned
    BY <1>1
  <2>4. /\ ix.live = index.live \cup {e} /\ ix.pinned = index.pinned
        /\ ix.holds = [index.holds EXCEPT ![e] = draft[t]]
        /\ ix.at = [index.at EXCEPT ![e] = time]
    BY <1>1, <1>9 DEF Insert, Indexes
  <2>5. QED
    BY <1>1, <1>3, <2>1, <2>2, <2>3, <2>4 DEF View, Indexes
<1>10. QED
  BY <1>8, <1>9

(* Every step of the store is a step of the archive, or a stutter.         *)
LEMMA StepPromised ==
  ASSUME IndInv, Stamped, IndInv', Stamped', [Next]_vars
  PROVE  [Promise!Next]_Shelf
<1>1. /\ index \in Indexes(Times) /\ Sound(index) /\ Dated(index)
      /\ index.live \subseteq Ids /\ index.pinned \subseteq index.live
  BY IndexNow DEF Stamped
<1>2. Shelf = View(index) /\ Shelf' = View(index')
  BY ShelfIsView, ShelfIsViewNext
<1>3. CASE UNCHANGED index
  BY <1>2, <1>3
<1>4. ASSUME NEW t \in Threads, pc[t] \in {"committing", "recording"},
             NEW ix \in Indexes(Times), Sound(ix), Dated(ix), index' = ix,
             \/ \E e \in Known(index, draft[t]) : ix = Touch(index, e, stamp[t])
             \/ /\ Known(index, draft[t]) = {}
                /\ \E e \in Ids \ index.live : ix = Insert(index, e, draft[t], stamp[t])
      PROVE  Promise!Next
  <2>1. Shelf' = Promise!Without(View(ix), {})
    BY <1>2, <1>4 DEF Promise!Without, View
  <2>2. QED
    BY <1>4, <2>1, RecordingPromised
<1>5. ASSUME NEW t \in Threads, Look(t) \/ LookFails(t)
      PROVE  [Promise!Next]_Shelf
  <2>1. CASE \E e \in Known(index, draft[t]) : index' = Touch(index, e, stamp[t])
    <3>1. pc[t] = "committing"
      BY <1>5 DEF Look, LookFails, At
    <3>2. index' \in Indexes(Times) /\ Sound(index') /\ Dated(index')
      BY IndexKept DEF Stamped
    <3>3. QED
      BY <1>4, <2>1, <3>1, <3>2
  <2>2. QED
    BY <1>3, <1>5, <2>1 DEF Look, LookFails
<1>6. ASSUME NEW t \in Threads, pc[t] = "recording", NEW ix \in Recordings(t)
      PROVE  /\ ix \in Indexes(Times) /\ Sound(ix) /\ Dated(ix)
             /\ \/ \E e \in Known(index, draft[t]) : ix = Touch(index, e, stamp[t])
                \/ /\ Known(index, draft[t]) = {}
                   /\ \E e \in Ids \ index.live :
                        ix = Insert(index, e, draft[t], stamp[t])
  <2>1. ix \in Indexes(Times) /\ Sound(ix)
    BY RecordingsSound
  <2>2. Dated(ix)
    BY <1>6, RecordingsDated
  <2>3. CASE Known(index, draft[t]) # {}
    BY <2>1, <2>2, <2>3 DEF Recordings
  <2>4. CASE Known(index, draft[t]) = {}
    BY <2>1, <2>2, <2>4 DEF Recordings, NextId
  <2>5. QED
    BY <2>3, <2>4
<1>7. ASSUME NEW t \in Threads, Record(t)
      PROVE  Promise!Next
  <2>1. PICK ix \in Recordings(t) : index' = Release(ix, Victims(ix, Budget))
    BY <1>7 DEF Record
  <2>2. pc[t] = "recording"
    BY <1>7 DEF Record, At
  <2>3. /\ ix \in Indexes(Times) /\ Sound(ix) /\ Dated(ix)
        /\ \/ \E e \in Known(index, draft[t]) : ix = Touch(index, e, stamp[t])
           \/ /\ Known(index, draft[t]) = {}
              /\ \E e \in Ids \ index.live : ix = Insert(index, e, draft[t], stamp[t])
    BY <1>6, <2>2
  <2>4. /\ Victims(ix, Budget) \in SUBSET Unpinned(ix)
        /\ Victims(ix, Budget) \in SUBSET Ids
    BY <2>3 DEF Victims, Unpinned, Indexes
  <2>5. \A v \in Victims(ix, Budget), k \in Unpinned(ix) \ Victims(ix, Budget) :
          Older(ix, v, k)
    BY <2>3, IndexNow, StoreAssumption, VictimsAreOldest
  <2>6. Shelf' = Promise!Without(View(ix), Victims(ix, Budget))
    BY <1>2, <2>1, <2>3, <2>4, ViewReleased
  <2>7. QED
    BY <2>2, <2>3, <2>4, <2>5, <2>6, RecordingPromised
<1>8. ASSUME NEW t \in Threads, EvictFails(t)
      PROVE  Promise!Next
  <2>1. index' \in Recordings(t) /\ pc[t] = "recording"
    BY <1>8 DEF EvictFails, At
  <2>2. QED
    BY <1>4, <1>6, <2>1
<1>9. ASSUME NEW t \in Threads, NEW e \in Ids, NEW pinned \in BOOLEAN,
             SetPinned(t, e, pinned)
      PROVE  Promise!Next
  <2>1. e \in Promise!Held(Shelf)
    BY <1>1, <1>2, <1>9, ViewShows DEF SetPinned
  <2>2. Shelf' = [Shelf EXCEPT ![e].pinned = pinned]
    <3>1. /\ index'.live = index.live /\ index'.holds = index.holds
          /\ index'.at = index.at /\ e \in index.live
          /\ \A o \in Ids : o \in index'.pinned <=> IF o = e THEN pinned
                                                     ELSE o \in index.pinned
      BY <1>1, <1>9 DEF SetPinned, Indexes
    <3>2. QED
      BY <1>1, <1>2, <3>1 DEF View
  <2>3. QED
    BY <2>1, <2>2 DEF Promise!Next, Promise!Pin
<1>10. ASSUME NEW t \in Threads, NEW S \in SUBSET Ids, Delete(t, S)
       PROVE  Shelf' = Promise!Without(Shelf, S)
  BY <1>1, <1>2, <1>10, ViewReleased DEF Delete
<1>11. ASSUME NEW t \in Threads, NEW e \in Ids, Remove(t, e)
       PROVE  Promise!Next
  <2>1. Shelf' = Promise!Without(Shelf, {e})
    BY <1>10, <1>11 DEF Remove
  <2>2. QED
    BY <2>1 DEF Promise!Next, Promise!Remove
<1>12. ASSUME NEW t \in Threads, Clear(t) \/ Expire(t)
       PROVE  Promise!Next
  <2>1. PICK S \in SUBSET Unpinned(index) : Delete(t, S)
    BY <1>12 DEF Clear, Expire, Expired
  <2>2. S \in SUBSET Ids /\ S \in SUBSET Promise!Loose(Shelf)
    BY <1>1, <1>2, ViewShows DEF Unpinned
  <2>3. Shelf' = Promise!Without(Shelf, S)
    BY <1>10, <2>1, <2>2
  <2>4. QED
    BY <2>2, <2>3 DEF Promise!Next, Promise!Drop
<1>13. QED
  BY <1>3, <1>5, <1>7, <1>8, <1>9, <1>11, <1>12, IndexSteps

(* The store implements the archive of docs/protocol.md: whatever fails,   *)
(* races or restarts, each of its steps records one copy under one id and   *)
(* makes room with the oldest unpinned entries, pins, removes, clears or    *)
(* expires, or changes nothing a client can see.                           *)
THEOREM PromiseIsKept == Spec => KeepsPromise
<1>1. Init => Stamped
  BY DEF Init, Stamped, Dated, ThreadStamped, EmptyIndex
<1>2. IndInv /\ Stamped /\ [Next]_vars => Stamped'
  BY StampedKept
<1>3. Spec => []Stamped
  BY <1>1, <1>2, Inductive, PTL DEF Spec
<1>4. Init => Promise!Init
  BY DEF Init, Promise!Init, Shelf, EmptyIndex
<1>5. IndInv /\ Stamped /\ IndInv' /\ Stamped' /\ [Next]_vars => [Promise!Next]_Shelf
  BY StepPromised
<1>6. QED
  BY <1>3, <1>4, <1>5, Inductive, PTL DEF Spec, KeepsPromise, Promise!Spec
=============================================================================
