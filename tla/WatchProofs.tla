----------------------------- MODULE WatchProofs -----------------------------
(***************************************************************************)
(* What a watcher has heard and what is under way to it add up to all that *)
(* was broadcast since it connected, for any number of clients and threads *)
(* and any bound on the queues.                                            *)
(*                                                                         *)
(* FollowAll folds over a sequence.  Two tables of the same fold agree up  *)
(* to any prefix, and a fold over a tail is the fold a step later: both by *)
(* the least prefix for which it would not be so.                          *)
(***************************************************************************)
EXTENDS Watch, FiniteSetTheorems, WellFoundedInduction, TLAPS

(* Numbers have a least one. *)
LEMMA LeastNat ==
  ASSUME NEW B, B \subseteq Nat, B # {}
  PROVE  \E n \in B : \A m \in B : n <= m
<1>1. PICK n \in B : \A m \in B : ~(<<m, n>> \in OpToRel(<, Nat))
  BY WFMin, NatLessThanWellFounded
<1>2. ASSUME NEW m \in B PROVE n <= m
  <2>1. n \in Nat /\ m \in Nat
    OBVIOUS
  <2>2. ~(m < n)
    BY <1>1, <2>1 DEF OpToRel
  <2> QED BY <2>1, <2>2
<1> QED BY <1>2

-----------------------------------------------------------------------------
(* Folding over a sequence. *)

(* T[V] is what following the events of q at the places V makes of s. *)
Follows(T, s, q, n) ==
  T = [V \in SUBSET (1 .. n) |->
        IF V = {} THEN s ELSE Follow(T[V \ {Seqs!Max(V)}], q[Seqs!Max(V)])]

(* The fold takes the places of a sequence from the last. *)
LEMMA LastPlace ==
  ASSUME NEW n \in Nat, NEW k \in 1 .. n
  PROVE  /\ Seqs!Max(1 .. k) = k
         /\ (1 .. k) \ {k} = 1 .. (k - 1)
         /\ 1 .. k \in SUBSET (1 .. n) /\ 1 .. (k - 1) \in SUBSET (1 .. n)
<1>1. Seqs!Max(1 .. k) = CHOOSE x \in 1 .. k : \A y \in 1 .. k : x >= y
  BY DEF Seqs!Max
<1>2. k \in 1 .. k /\ \A y \in 1 .. k : k >= y
  OBVIOUS
<1>3. \A x \in 1 .. k : (\A y \in 1 .. k : x >= y) => x = k
  OBVIOUS
<1>4. Seqs!Max(1 .. k) = k
  BY <1>1, <1>2, <1>3
<1> QED BY <1>4

(* A table of shelves follows the events one by one. *)
LEMMA FollowsStep ==
  ASSUME NEW T, NEW s, NEW q, NEW n \in Nat, Follows(T, s, q, n)
  PROVE  /\ T[1 .. 0] = s
         /\ \A i, k \in 0 .. n : k = i + 1 => T[1 .. k] = Follow(T[1 .. i], q[k])
<1>1. 1 .. 0 = {} /\ {} \in SUBSET (1 .. n)
  OBVIOUS
<1>2. T[1 .. 0] = s
  BY <1>1 DEF Follows
<1>3. ASSUME NEW k \in 1 .. n PROVE T[1 .. k] = Follow(T[1 .. (k - 1)], q[k])
  <2>1. 1 .. k # {}
    OBVIOUS
  <2>2. T[1 .. k] = Follow(T[(1 .. k) \ {Seqs!Max(1 .. k)}], q[Seqs!Max(1 .. k)])
    BY <2>1, LastPlace DEF Follows
  <2> QED BY <2>2, LastPlace
<1>4. ASSUME NEW i \in 0 .. n, NEW k \in 0 .. n, k = i + 1
      PROVE  T[1 .. k] = Follow(T[1 .. i], q[k])
  <2>1. k \in 1 .. n /\ k - 1 = i
    BY <1>4
  <2> QED BY <1>3, <2>1
<1> QED BY <1>2, <1>4

(* A fold that starts from what another makes of its first j events, and   *)
(* goes on with the same events, stays equal to it.                        *)
LEMMA FollowsAgree ==
  ASSUME NEW T, NEW s, NEW q, NEW n \in Nat, Follows(T, s, q, n),
         NEW U, NEW r, NEW m \in Nat, NEW j \in 0 .. n, Follows(U, T[1 .. j], r, m),
         NEW l \in 0 .. m, NEW e \in 0 .. n, e = j + l, \A i \in 1 .. l : r[i] = q[j + i]
  PROVE  U[1 .. l] = T[1 .. e]
<1> DEFINE Bad == {k \in 0 .. l : U[1 .. k] # T[1 .. (j + k)]}
<1>1. SUFFICES ASSUME Bad # {} PROVE FALSE
  OBVIOUS
<1>2. PICK k \in Bad : \A i \in Bad : k <= i
  <2>1. Bad \subseteq Nat
    OBVIOUS
  <2> HIDE DEF Bad
  <2> QED BY <1>1, <2>1, LeastNat
<1>3. k \in 1 .. l /\ j + k \in 1 .. n
  <2>1. U[1 .. 0] = T[1 .. j]
    BY FollowsStep
  <2>2. k # 0
    BY <2>1
  <2> QED BY <2>2
<1>4. U[1 .. (k - 1)] = T[1 .. (j + (k - 1))]
  <2>1. k - 1 \in 0 .. l /\ k - 1 \notin Bad
    BY <1>2, <1>3
  <2> QED BY <2>1
<1>5. U[1 .. k] = Follow(U[1 .. (k - 1)], r[k])
  <2>1. k \in 0 .. m /\ k - 1 \in 0 .. m /\ k = (k - 1) + 1
    BY <1>3
  <2> QED BY <2>1, FollowsStep
<1>6. T[1 .. (j + k)] = Follow(T[1 .. (j + (k - 1))], q[j + k])
  <2>1. j + k \in 0 .. n /\ j + (k - 1) \in 0 .. n /\ j + k = (j + (k - 1)) + 1
    BY <1>3
  <2> QED BY <2>1, FollowsStep
<1> QED BY <1>3, <1>4, <1>5, <1>6

(* There is such a table for every sequence: the shortest prefix without   *)
(* one would have one.                                                     *)
LEMMA FollowsExist ==
  ASSUME NEW s, NEW q, NEW n \in Nat
  PROVE  \E T : Follows(T, s, q, n)
<1> DEFINE Bad == {k \in Nat : ~ \E T : Follows(T, s, q, k)}
<1>1. SUFFICES ASSUME Bad # {} PROVE FALSE
  OBVIOUS
<1>2. PICK k \in Bad : \A i \in Bad : k <= i
  <2>1. Bad \subseteq Nat
    OBVIOUS
  <2> HIDE DEF Bad
  <2> QED BY <1>1, <2>1, LeastNat
<1>3. k # 0
  <2> DEFINE T == [V \in SUBSET (1 .. 0) |-> s]
  <2>1. Follows(T, s, q, 0)
    BY DEF Follows
  <2> QED BY <2>1
<1>4. PICK T : Follows(T, s, q, k - 1)
  <2>1. k - 1 \in Nat /\ k - 1 \notin Bad
    BY <1>2, <1>3
  <2> QED BY <2>1
<1> DEFINE U == [V \in SUBSET (1 .. k) |->
                  IF k \in V THEN Follow(T[V \ {k}], q[k]) ELSE T[V]]
<1>5. ASSUME NEW V \in SUBSET (1 .. k), V # {}
      PROVE  U[V] = Follow(U[V \ {Seqs!Max(V)}], q[Seqs!Max(V)])
  <2>1. CASE k \in V
    <3>1. Seqs!Max(V) = k
      <4>1. Seqs!Max(V) = CHOOSE x \in V : \A y \in V : x >= y
        BY DEF Seqs!Max
      <4>2. \A x \in V : (\A y \in V : x >= y) <=> x = k
        BY <2>1
      <4> QED BY <2>1, <4>1, <4>2
    <3>2. V \ {k} \in SUBSET (1 .. k) /\ k \notin V \ {k}
      OBVIOUS
    <3>3. U[V] = Follow(T[V \ {k}], q[k]) /\ U[V \ {k}] = T[V \ {k}]
      BY <2>1, <3>2
    <3> QED BY <3>1, <3>3
  <2>2. CASE k \notin V
    <3> DEFINE x == Seqs!Max(V)
    <3>1. V \in SUBSET (1 .. (k - 1)) /\ V \ {x} \in SUBSET (1 .. k) /\ k \notin V \ {x}
      <4>1. \A i \in V : i \in 1 .. k /\ i # k
        BY <2>2
      <4>2. \A i \in V : i \in 1 .. (k - 1)
        BY <1>3, <4>1
      <4> HIDE DEF x
      <4> QED BY <2>2, <4>2
    <3>2. T[V] = Follow(T[V \ {x}], q[x])
      BY <1>4, <1>5, <3>1 DEF Follows
    <3>3. U[V] = T[V] /\ U[V \ {x}] = T[V \ {x}]
      BY <2>2, <3>1
    <3> QED BY <3>2, <3>3
  <2> QED BY <2>1, <2>2
<1>6. U[{}] = s
  <2>1. T[{}] = s
    BY <1>4 DEF Follows
  <2> QED BY <2>1
<1>7. U = [V \in SUBSET (1 .. k) |->
            IF V = {} THEN s ELSE Follow(U[V \ {Seqs!Max(V)}], q[Seqs!Max(V)])]
  <2> HIDE DEF U
  <2>1. U = [V \in SUBSET (1 .. k) |-> U[V]]
    BY DEF U
  <2> QED BY <1>5, <1>6, <2>1
<1>8. Follows(U, s, q, k)
  <2> HIDE DEF U
  <2> QED BY <1>7 DEF Follows
<1> QED BY <1>2, <1>8

(* The fold of the model is the last entry of such a table. *)
LEMMA FollowAllTable ==
  ASSUME NEW s, NEW S, NEW q \in Seq(S)
  PROVE  \E T : Follows(T, s, q, Len(q)) /\ FollowAll(s, q) = T[1 .. Len(q)]
<1>1. DOMAIN q = 1 .. Len(q) /\ Len(q) \in Nat
  OBVIOUS
<1>2. FollowAll(s, q) = (CHOOSE T : Follows(T, s, q, Len(q)))[1 .. Len(q)]
  BY <1>1 DEF FollowAll, Seqs!FoldLeft, Seqs!MapThenFoldSet, Follows
<1>3. \E T : Follows(T, s, q, Len(q))
  BY <1>1, FollowsExist
<1> QED BY <1>2, <1>3

(* No event makes no difference.  The last event is followed last, and the *)
(* first one first.                                                        *)
LEMMA FollowNone == ASSUME NEW s PROVE FollowAll(s, << >>) = s
<1>1. << >> \in Seq({}) /\ Len(<< >>) = 0
  OBVIOUS
<1>2. PICK T : Follows(T, s, << >>, 0) /\ FollowAll(s, << >>) = T[1 .. 0]
  BY <1>1, FollowAllTable
<1> QED BY <1>2, FollowsStep

(* An event behind the others is followed last. *)
LEMMA FollowLast ==
  ASSUME NEW s, NEW S, NEW q \in Seq(S), NEW e \in S
  PROVE  FollowAll(s, Append(q, e)) = Follow(FollowAll(s, q), e)
<1> DEFINE r == Append(q, e)
           n == Len(q)
<1>1. /\ r \in Seq(S) /\ Len(r) = n + 1 /\ n \in Nat
      /\ \A i \in 1 .. n : r[0 + i] = q[i]
      /\ r[n + 1] = e
  OBVIOUS
<1> HIDE DEF r
<1>2. PICK T : Follows(T, s, q, n) /\ FollowAll(s, q) = T[1 .. n]
  BY FollowAllTable
<1>3. PICK U : Follows(U, s, r, n + 1) /\ FollowAll(s, r) = U[1 .. (n + 1)]
  BY <1>1, FollowAllTable
<1>4. U[1 .. 0] = s
  BY <1>1, <1>3, FollowsStep
<1>5. T[1 .. n] = U[1 .. n]
  <2>1. n + 1 \in Nat /\ 0 \in 0 .. (n + 1) /\ n \in 0 .. (n + 1) /\ n \in 0 .. n /\ n = 0 + n
    BY <1>1
  <2> HIDE DEF n
  <2> QED BY <1>1, <1>2, <1>3, <1>4, <2>1, FollowsAgree
<1>6. U[1 .. (n + 1)] = Follow(U[1 .. n], r[n + 1])
  <2>1. n + 1 \in Nat /\ n \in 0 .. (n + 1) /\ n + 1 \in 0 .. (n + 1)
    BY <1>1
  <2> HIDE DEF n
  <2> QED BY <1>3, <2>1, FollowsStep
<1> QED BY <1>1, <1>2, <1>3, <1>5, <1>6 DEF r

(* The first event may be followed before the rest. *)
LEMMA FollowFirst ==
  ASSUME NEW s, NEW S, NEW q \in Seq(S), q # << >>
  PROVE  FollowAll(Follow(s, Head(q)), Tail(q)) = FollowAll(s, q)
<1> DEFINE r == Tail(q)
           n == Len(q)
<1>1. /\ r \in Seq(S) /\ n \in Nat \ {0} /\ Len(r) = n - 1
      /\ \A i \in 1 .. (n - 1) : r[i] = q[1 + i]
      /\ Head(q) = q[1]
  OBVIOUS
<1> HIDE DEF r
<1>2. PICK T : Follows(T, s, q, n) /\ FollowAll(s, q) = T[1 .. n]
  BY FollowAllTable
<1>3. T[1 .. 1] = Follow(s, q[1])
  <2> DEFINE zero == 0
             one == 1
  <2>1. zero \in 0 .. n /\ one \in 0 .. n /\ n \in Nat /\ one = zero + 1
    BY <1>1
  <2> HIDE DEF n, zero, one
  <2>2. T[1 .. one] = Follow(T[1 .. zero], q[one])
    BY <1>2, <2>1, FollowsStep
  <2>3. T[1 .. zero] = s
    BY <1>2, <2>1, FollowsStep DEF zero
  <2> QED BY <2>2, <2>3 DEF one
<1>4. PICK U : Follows(U, T[1 .. 1], r, n - 1) /\ FollowAll(T[1 .. 1], r) = U[1 .. (n - 1)]
  BY <1>1, FollowAllTable
<1>5. U[1 .. (n - 1)] = T[1 .. n]
  <2> DEFINE m == n - 1
             one == 1
  <2>1. /\ n \in Nat /\ m \in Nat /\ one \in 0 .. n /\ n \in 0 .. n
        /\ m \in 0 .. m /\ n = one + m
    BY <1>1
  <2>2. \A i \in 1 .. m : r[i] = q[one + i]
    BY <1>1
  <2>3. Follows(U, T[1 .. one], r, m) /\ Follows(T, s, q, n)
    BY <1>2, <1>4
  <2> HIDE DEF n, m, one
  <2>4. ASSUME NEW l \in 0 .. m, NEW e \in 0 .. n, e = one + l,
               \A i \in 1 .. l : r[i] = q[one + i]
        PROVE  U[1 .. l] = T[1 .. e]
    BY <2>1, <2>3, <2>4, FollowsAgree
  <2>5. U[1 .. m] = T[1 .. n]
    BY <2>1, <2>2, <2>4
  <2> QED BY <2>5 DEF m
<1> QED BY <1>1, <1>2, <1>3, <1>4, <1>5 DEF r

-----------------------------------------------------------------------------
(* Events. *)

(* A set of rows and a part of it are a shelf.                             *)
LEMMA Shelved ==
  ASSUME NEW live \in SUBSET Ids, NEW pinned \in SUBSET live
  PROVE  [live |-> live, pinned |-> pinned] \in Shelves
BY DEF Shelves

(* Following a frame leads from shelf to shelf, and nowhere if it is no    *)
(* event.                                                                  *)
LEMMA FollowTyped ==
  ASSUME NEW s \in Shelves, NEW f \in Frames
  PROVE  /\ Follow(s, f) \in Shelves
         /\ f \notin Events => Follow(s, f) = s
<1>1. f \in Events \/ f = Ok \/ \E items \in SUBSET Ids : f = List(items)
  BY DEF Frames
<1>2. CASE f = Ok
  BY <1>2 DEF Ok, Follow
<1>3. CASE \E items \in SUBSET Ids : f = List(items)
  BY <1>3 DEF List, Follow
<1>4. CASE f \in Events
  <2>1. s.live \in SUBSET Ids /\ s.pinned \subseteq s.live
    BY DEF Shelves
  <2>2. CASE \E e \in Ids, p \in BOOLEAN : f = Added(e) \/ f = Updated(e, p)
    <3>1. f.ev \in {"added", "updated"} /\ f.entry \in Ids
      BY <2>2 DEF Added, Updated
    <3>2. Follow(s, f) =
            [live |-> s.live \cup {f.entry},
             pinned |-> IF f.pinned THEN s.pinned \cup {f.entry} ELSE s.pinned \ {f.entry}]
      BY <3>1 DEF Follow
    <3> QED BY <1>4, <2>1, <3>1, <3>2, Shelved
  <2>3. CASE \E e \in Ids : f = Removed(e)
    <3>1. f.ev = "removed"
      BY <2>3 DEF Removed
    <3>2. Follow(s, f) = [live |-> s.live \ {f.entry}, pinned |-> s.pinned \ {f.entry}]
      BY <3>1 DEF Follow
    <3> QED BY <1>4, <2>1, <3>2, Shelved
  <2>4. CASE f = Cleared
    <3>1. f.ev = "cleared"
      BY <2>4 DEF Cleared
    <3>2. Follow(s, f) = [live |-> s.pinned, pinned |-> s.pinned]
      BY <3>1 DEF Follow, Shelves
    <3> QED BY <1>4, <2>1, <3>2, Shelved
  <2>5. \/ \E e \in Ids : f = Added(e) \/ f = Removed(e)
        \/ f = Cleared
        \/ \E e \in Ids, p \in BOOLEAN : f = Updated(e, p)
    BY <1>4 DEF Events
  <2>6. TRUE \in BOOLEAN
    OBVIOUS
  <2> QED BY <2>2, <2>3, <2>4, <2>5, <2>6
<1> QED BY <1>1, <1>2, <1>3, <1>4

(* The removals of rows, in whatever order, are events. *)
LEMMA RemovalsTyped ==
  ASSUME NEW gone \in SUBSET Ids, NEW order \in Orders(gone)
  PROVE  Removals(order) \in Seq(Events)
<1>1. order \in [1 .. Cardinality(gone) -> gone]
  <2> DEFINE D == 1 .. Cardinality(gone)
  <2>1. Orders(gone) = {f \in [D -> gone] : \A i, j \in D : i # j => f[i] # f[j]}
    BY DEF Orders, Seqs!SetToSeqs, Seqs!Cardinality, Cardinality
  <2> QED BY <2>1
<1>2. Cardinality(gone) \in Nat
  <2>1. IsFiniteSet(Ids)
    BY FS_Interval, WatchAssumption DEF Ids
  <2> QED BY <2>1, FS_Subset, FS_CardinalityType
<1>3. \A i \in 1 .. Cardinality(gone) : Removed(order[i]) \in Events
  BY <1>1 DEF Events
<1> QED BY <1>1, <1>2, <1>3 DEF Removals

-----------------------------------------------------------------------------
(* A connection that has ended left nothing behind: the daemon forgot its  *)
(* queue, and who knows of the end has read everything.                    *)
Ended ==
  \A c \in Clients : pc[c] = "gone" => c \notin subscribed /\ queue[c] = << >>

Unlinked ==
  \A c \in Clients \ linked : wire[c] = << >> /\ (c \in shut \/ pc[c] = "gone")

(* Nobody waits for the answer of a thread without a client. *)
Placed == \A t \in Natives : pc[t] \in {"idle", "telling"}

IndInv == TypeOK /\ Placed /\ Ended /\ Unlinked /\ NoGap

(* The invariant holds at first. *)
LEMMA InitInd == Init => IndInv
<1> SUFFICES ASSUME Init PROVE IndInv
  OBVIOUS
<1>1. Nothing \in Shelves
  BY DEF Nothing, Shelves
<1>2. << >> \in Seq(Events) /\ << >> \in Seq(Frames) /\ Len(<< >>) = 0
  OBVIOUS
<1>3. TypeOK
  BY <1>1, <1>2, WatchAssumption DEF Init, TypeOK, Threads
<1> QED
  BY <1>3, WatchAssumption DEF Init, IndInv, Placed, Ended, Unlinked, NoGap, Threads

(* A change of the archive leaves what was told to whom: it is still to be *)
(* broadcast.                                                              *)
LEMMA ChangeKeeps ==
  ASSUME IndInv, NEW t \in Threads, NEW s \in Shelves, NEW events \in Seq(Events),
         Change(t, s, events)
  PROVE  IndInv'
<1>1. pc[t] = "idle" /\ shelf' = s /\ todo' = [todo EXCEPT ![t] = events]
      /\ pc' = [pc EXCEPT ![t] = IF t \in Clients THEN "answering" ELSE "telling"]
      /\ UNCHANGED <<told, page, subscribed, queue, shut, cut, wire, linked, heard>>
  BY DEF Change, Go, socket
<1>2. TypeOK'
  BY <1>1 DEF IndInv, TypeOK
<1>3. Placed' /\ Ended' /\ Unlinked'
  BY <1>1, WatchAssumption DEF IndInv, TypeOK, Placed, Ended, Unlinked, Threads
<1>4. NoGap'
  BY <1>1 DEF IndInv, NoGap
<1> QED BY <1>2, <1>3, <1>4 DEF IndInv

(* So do pins, removals, clearing and expiry. *)
LEMMA EditKeeps == ASSUME IndInv, NEW t \in Threads, Edit(t) PROVE IndInv'
<1>1. /\ shelf \in Shelves /\ shelf.live \in SUBSET Ids /\ shelf.pinned \subseteq shelf.live
      /\ shelf = [live |-> shelf.live, pinned |-> shelf.pinned]
  BY DEF IndInv, TypeOK, Shelves
<1>2. CASE Expire(t)
  <2>1. PICK gone \in SUBSET Recent(shelf) : \E order \in Orders(gone) :
          Change(t, Without(shelf, gone), Removals(order))
    BY <1>2 DEF Expire
  <2>2. gone \in SUBSET Ids /\ Without(shelf, gone) \in Shelves
    BY <1>1 DEF Recent, Shelves, Without
  <2> QED BY <2>1, <2>2, RemovalsTyped, ChangeKeeps
<1>3. CASE Record(t)
  <2>1. PICK e \in Ids : LET s == [shelf EXCEPT !.live = @ \cup {e}] IN
          \E gone \in SUBSET Recent(s) : \E order \in Orders(gone) :
            Change(t, Without(s, gone),
                   Removals(order) \o IF e \in gone THEN << >> ELSE <<Added(e)>>)
    BY <1>3 DEF Record
  <2> DEFINE s == [shelf EXCEPT !.live = @ \cup {e}]
  <2>2. PICK gone \in SUBSET Recent(s) : \E order \in Orders(gone) :
          Change(t, Without(s, gone),
                 Removals(order) \o IF e \in gone THEN << >> ELSE <<Added(e)>>)
    BY <2>1
  <2>3. gone \in SUBSET Ids /\ Without(s, gone) \in Shelves /\ Added(e) \in Events
    BY <1>1 DEF Recent, Shelves, Without, Events
  <2>4. ASSUME NEW order \in Orders(gone)
        PROVE  Removals(order) \o (IF e \in gone THEN << >> ELSE <<Added(e)>>) \in Seq(Events)
    <3>1. Removals(order) \in Seq(Events)
      BY <2>3, RemovalsTyped
    <3> QED BY <2>3, <3>1
  <2> QED BY <2>2, <2>3, <2>4, ChangeKeeps
<1>4. CASE Touch(t)
  <2>1. PICK e \in shelf.live : Change(t, shelf, <<Updated(e, e \in shelf.pinned)>>)
    BY <1>4 DEF Touch
  <2>2. Updated(e, e \in shelf.pinned) \in Events
    <3>1. (e \in shelf.pinned) \in BOOLEAN
      OBVIOUS
    <3>2. \A p \in BOOLEAN : Updated(e, p) \in Events
      BY <1>1 DEF Events
    <3> QED BY <3>1, <3>2
  <2>3. <<Updated(e, e \in shelf.pinned)>> \in Seq(Events)
    BY <2>2
  <2> QED BY <1>1, <2>1, <2>3, ChangeKeeps
<1>5. CASE SetPinned(t)
  <2>1. PICK e \in shelf.live, pinned \in BOOLEAN :
          Change(t, [shelf EXCEPT !.pinned = IF pinned THEN @ \cup {e} ELSE @ \ {e}],
                 <<Updated(e, pinned)>>)
    BY <1>5 DEF SetPinned
  <2>2. [shelf EXCEPT !.pinned = IF pinned THEN @ \cup {e} ELSE @ \ {e}] \in Shelves
    BY <1>1 DEF Shelves
  <2>3. <<Updated(e, pinned)>> \in Seq(Events)
    BY <1>1 DEF Events
  <2> QED BY <2>1, <2>2, <2>3, ChangeKeeps
<1>6. CASE Remove(t)
  <2>1. PICK e \in shelf.live : Change(t, Without(shelf, {e}), <<Removed(e)>>)
    BY <1>6 DEF Remove
  <2>2. Without(shelf, {e}) \in Shelves /\ <<Removed(e)>> \in Seq(Events)
    BY <1>1 DEF Without, Shelves, Events
  <2> QED BY <2>1, <2>2, ChangeKeeps
<1>7. CASE Clear(t)
  <2>1. Without(shelf, Recent(shelf)) \in Shelves /\ <<Cleared>> \in Seq(Events)
    BY <1>1 DEF Without, Recent, Shelves, Events
  <2> QED BY <1>7, <2>1, ChangeKeeps DEF Clear
<1> QED BY <1>2, <1>3, <1>4, <1>5, <1>6, <1>7 DEF Edit

(* An answer is no event: it adds nothing to what a watcher knows. *)
LEMMA AnswerKeeps == ASSUME IndInv, NEW t \in Threads, Answer(t) PROVE IndInv'
<1>1. /\ pc[t] = "answering" /\ t \notin shut /\ Len(wire[t]) < WireLimit
      /\ wire' = [wire EXCEPT ![t] = Append(@, Ok)]
      /\ pc' = [pc EXCEPT ![t] = "telling"]
      /\ UNCHANGED <<shelf, told, todo, page, subscribed, queue, shut, cut, linked, heard>>
  BY DEF Answer, Writable, Go, archive
<1>2. t \in Clients
  BY <1>1 DEF IndInv, Placed, Threads
<1>3. Ok \in Frames /\ wire[t] \in Seq(Frames) /\ Append(wire[t], Ok) \in Seq(Frames)
      /\ Len(Append(wire[t], Ok)) = Len(wire[t]) + 1 /\ Len(wire[t]) \in Nat
  <2>1. Ok \in Frames /\ wire[t] \in Seq(Frames)
    BY <1>2 DEF IndInv, TypeOK, Frames
  <2> QED BY <2>1
<1>4. TypeOK'
  BY <1>1, <1>2, <1>3, WatchAssumption DEF IndInv, TypeOK
<1>5. Placed' /\ Ended' /\ Unlinked'
  BY <1>1, <1>2, WatchAssumption DEF IndInv, TypeOK, Placed, Ended, Unlinked, Threads
<1>6. NoGap'
  <2>1. FollowAll(heard[t], Append(wire[t], Ok)) = FollowAll(heard[t], wire[t])
    <3>1. \A s : Follow(s, Ok) = s
      BY DEF Ok, Follow
    <3> QED BY <1>3, <3>1, FollowLast
  <2> QED BY <1>1, <1>2, <2>1 DEF IndInv, TypeOK, NoGap
<1> QED BY <1>4, <1>5, <1>6 DEF IndInv

(* Ending a session takes the client from those the property speaks of.    *)
LEMMA DropKeeps ==
  ASSUME IndInv, NEW c \in Clients, pc' = [pc EXCEPT ![c] = "gone"],
         shut' = shut \cup {c}, subscribed' = subscribed \ {c},
         queue' = [queue EXCEPT ![c] = << >>], cut' = cut \ {c},
         UNCHANGED <<shelf, told, wire, linked, heard>>,
         todo' \in [Threads -> Seq(Events)], page' \in [Clients -> SUBSET Ids]
  PROVE  IndInv'
<1>1. << >> \in Seq(Events) /\ Len(<< >>) = 0
  OBVIOUS
<1>2. TypeOK'
  <2>1. /\ shut' \subseteq Clients /\ subscribed' \subseteq Clients /\ cut' \subseteq Clients
        /\ pc' \in [Threads -> {"idle", "answering", "listing", "telling", "gone"}]
    BY DEF IndInv, TypeOK
  <2>2. queue' \in [Clients -> Seq(Events)]
    BY <1>1 DEF IndInv, TypeOK
  <2>3. \A d \in Clients : Len(queue'[d]) <= QueueLimit + 1
    BY <1>1, WatchAssumption DEF IndInv, TypeOK
  <2> QED BY <2>1, <2>2, <2>3 DEF IndInv, TypeOK
<1>3. Placed' /\ Ended' /\ Unlinked'
  BY WatchAssumption DEF IndInv, TypeOK, Placed, Ended, Unlinked, Threads
<1>4. NoGap'
  BY DEF IndInv, TypeOK, NoGap
<1> QED BY <1>2, <1>3, <1>4 DEF IndInv

(* A broadcast is added to what was told and to every queue, or the        *)
(* connection of a full one is shut.                                       *)
LEMMA BroadcastKeeps == ASSUME IndInv, NEW t \in Threads, Broadcast(t) PROVE IndInv'
<1>1. PICK closed \in SUBSET Slow :
        /\ {c \in Slow : Full(c)} \subseteq closed
        /\ Deliver(t, subscribed \ (shut \cup closed), closed)
  BY DEF Broadcast
<1> DEFINE e == Head(todo[t])
           reached == subscribed \ (shut \cup closed)
<1>2. /\ pc[t] = "telling" /\ todo[t] # << >>
      /\ told' = Follow(told, e)
      /\ todo' = [todo EXCEPT ![t] = Tail(@)]
      /\ queue' = [c \in Clients |->
           CASE c \in reached -> Append(queue[c], e)
             [] c \in closed -> << >>
             [] OTHER -> queue[c]]
      /\ shut' = shut \cup closed
      /\ subscribed' = subscribed \ (shut \cup closed)
      /\ UNCHANGED <<shelf, pc, page, cut, wire, linked, heard>>
  BY <1>1 DEF Deliver, socket
<1>3. e \in Events /\ Tail(todo[t]) \in Seq(Events) /\ e \in Frames
  BY <1>2 DEF IndInv, TypeOK, Frames
<1>4. closed \subseteq Clients /\ reached \subseteq Clients
  BY <1>1 DEF IndInv, TypeOK, Slow
<1> HIDE DEF e
<1>5. \A c \in reached : /\ queue'[c] = Append(queue[c], e)
                         /\ queue'[c] \in Seq(Events)
                         /\ Len(queue'[c]) = Len(queue[c]) + 1
                         /\ Len(queue[c]) <= QueueLimit
  <2> SUFFICES ASSUME NEW c \in reached
               PROVE  /\ queue'[c] = Append(queue[c], e)
                      /\ queue'[c] \in Seq(Events)
                      /\ Len(queue'[c]) = Len(queue[c]) + 1
                      /\ Len(queue[c]) <= QueueLimit
    OBVIOUS
  <2>1. queue[c] \in Seq(Events) /\ Len(queue[c]) \in Nat
    BY <1>4 DEF IndInv, TypeOK
  <2>2. queue'[c] = Append(queue[c], e)
    BY <1>2, <1>4
  <2>3. Len(queue[c]) <= QueueLimit
    BY <1>1, <2>1, WatchAssumption DEF Slow, Full
  <2> QED BY <1>3, <2>1, <2>2, <2>3
<1>6. \A c \in Clients \ reached : queue'[c] \in {<< >>, queue[c]}
  BY <1>2
<1>7. /\ told' \in Shelves
      /\ queue' \in [Clients -> Seq(Events)]
      /\ \A c \in Clients : Len(queue'[c]) <= QueueLimit + 1
  <2>1. told' \in Shelves
    BY <1>2, <1>3, FollowTyped DEF IndInv, TypeOK
  <2>2. ASSUME NEW c \in Clients
        PROVE  queue'[c] \in Seq(Events) /\ Len(queue'[c]) <= QueueLimit + 1
    <3>1. << >> \in Seq(Events) /\ Len(<< >>) = 0 /\ queue[c] \in Seq(Events)
      BY DEF IndInv, TypeOK
    <3>2. CASE c \in reached
      BY <1>5, <3>1, <3>2, WatchAssumption
    <3>3. CASE c \notin reached
      <4>1. queue'[c] = << >> \/ queue'[c] = queue[c]
        BY <1>6, <3>3
      <4>2. Len(queue[c]) <= QueueLimit + 1 /\ 0 <= QueueLimit + 1
        BY WatchAssumption DEF IndInv, TypeOK
      <4> QED BY <3>1, <4>1, <4>2
    <3> QED BY <3>2, <3>3
  <2>3. queue' = [c \in Clients |-> queue'[c]]
    BY <1>2
  <2> QED BY <2>1, <2>2, <2>3
<1>8. TypeOK'
  BY <1>2, <1>3, <1>4, <1>7 DEF IndInv, TypeOK
<1>9. Placed' /\ Ended' /\ Unlinked'
  BY <1>2, <1>6 DEF IndInv, Placed, Ended, Unlinked
<1>10. NoGap'
  <2> SUFFICES ASSUME NEW c \in reached, c \notin cut
               PROVE  FollowAll(FollowAll(heard[c], wire[c]), queue'[c]) = told'
    BY <1>2 DEF NoGap
  <2>1. FollowAll(FollowAll(heard[c], wire[c]), queue[c]) = told
    BY DEF IndInv, NoGap
  <2>2. queue[c] \in Seq(Events)
    BY <1>4 DEF IndInv, TypeOK
  <2>3. queue'[c] = Append(queue[c], e)
    BY <1>5
  <2>4. FollowAll(FollowAll(heard[c], wire[c]), Append(queue[c], e)) = Follow(told, e)
    BY <1>3, <2>1, <2>2, FollowLast
  <2> QED BY <1>2, <2>3, <2>4
<1> QED BY <1>8, <1>9, <1>10 DEF IndInv

(* The steps of a thread that answers and tells. *)
LEMMA TellKeeps == ASSUME IndInv, NEW t \in Threads, Tell(t) PROVE IndInv'
<1>1. CASE AnswerFails(t)
  <2>1. t \in Clients
    BY <1>1 DEF AnswerFails, IndInv, Placed, Threads
  <2>2. todo' \in [Threads -> Seq(Events)] /\ page' \in [Clients -> SUBSET Ids]
    BY <1>1 DEF AnswerFails, IndInv, TypeOK
  <2> QED BY <1>1, <2>1, <2>2, DropKeeps DEF AnswerFails, Go, socket
<1>2. CASE Told(t)
  <2>1. /\ pc[t] = "telling" /\ pc' = [pc EXCEPT ![t] = "idle"]
        /\ UNCHANGED <<shelf, told, todo, page, subscribed, queue, shut, cut, wire, linked, heard>>
    BY <1>2 DEF Told, Go, archive, socket
  <2>2. TypeOK'
    BY <2>1 DEF IndInv, TypeOK
  <2> QED BY <2>1, <2>2 DEF IndInv, TypeOK, Placed, Ended, Unlinked, NoGap, Threads
<1> QED BY <1>1, <1>2, AnswerKeeps, BroadcastKeeps DEF Tell

(* A worker takes the first event of its queue to the socket, or shuts it. *)
LEMMA WorkKeeps == ASSUME IndInv, NEW c \in Clients, Work(c) PROVE IndInv'
<1>1. queue[c] \in Seq(Events) /\ wire[c] \in Seq(Frames) /\ Len(queue[c]) \in Nat
      /\ Len(wire[c]) \in Nat /\ << >> \in Seq(Events) /\ Len(<< >>) = 0
  BY DEF IndInv, TypeOK
<1>2. ASSUME queue[c] # << >>
      PROVE  /\ Head(queue[c]) \in Events /\ Head(queue[c]) \in Frames
             /\ Tail(queue[c]) \in Seq(Events) /\ Len(Tail(queue[c])) = Len(queue[c]) - 1
             /\ Append(wire[c], Head(queue[c])) \in Seq(Frames)
             /\ Len(Append(wire[c], Head(queue[c]))) = Len(wire[c]) + 1
             /\ pc[c] # "gone"
  BY <1>1, <1>2 DEF IndInv, Ended, Frames
<1>3. CASE Notify(c)
  <2>1. /\ queue[c] # << >> /\ c \notin cut /\ c \notin shut /\ Len(wire[c]) < WireLimit
        /\ wire' = [wire EXCEPT ![c] = Append(@, Head(queue[c]))]
        /\ queue' = [queue EXCEPT ![c] = Tail(@)]
        /\ UNCHANGED <<shelf, told, todo, pc, page, subscribed, shut, cut, linked, heard>>
    BY <1>3 DEF Notify, Writable, archive
  <2>2. TypeOK'
    BY <1>1, <1>2, <2>1, WatchAssumption DEF IndInv, TypeOK
  <2>3. Placed' /\ Ended' /\ Unlinked'
    BY <1>2, <2>1 DEF IndInv, TypeOK, Placed, Ended, Unlinked
  <2>4. NoGap'
    <3> DEFINE s == FollowAll(heard[c], wire[c])
    <3>1. FollowAll(heard[c], Append(wire[c], Head(queue[c]))) = Follow(s, Head(queue[c]))
      BY <1>1, <1>2, <2>1, FollowLast
    <3>2. FollowAll(Follow(s, Head(queue[c])), Tail(queue[c])) = FollowAll(s, queue[c])
      <4> HIDE DEF s
      <4> QED BY <1>1, <2>1, FollowFirst
    <3> QED BY <2>1, <3>1, <3>2 DEF IndInv, TypeOK, NoGap
  <2> QED BY <2>2, <2>3, <2>4 DEF IndInv
<1>4. CASE NotifyFails(c)
  <2>1. /\ queue[c] # << >> /\ cut' = cut \cup {c}
        /\ queue' = [queue EXCEPT ![c] = Tail(@)]
        /\ UNCHANGED <<shelf, told, todo, pc, page, subscribed, shut, wire, linked, heard>>
    BY <1>4 DEF NotifyFails, archive, socket
  <2>2. TypeOK'
    BY <1>1, <1>2, <2>1, WatchAssumption DEF IndInv, TypeOK
  <2>3. Placed' /\ Ended' /\ Unlinked'
    BY <1>2, <2>1 DEF IndInv, TypeOK, Placed, Ended, Unlinked
  <2> QED BY <2>1, <2>2, <2>3 DEF IndInv, TypeOK, NoGap
<1>5. CASE WorkerEnds(c)
  <2>1. /\ cut' = cut \ {c} /\ shut' = shut \cup {c}
        /\ queue' = [queue EXCEPT ![c] = << >>]
        /\ UNCHANGED <<shelf, told, todo, pc, page, subscribed, wire, linked, heard>>
    BY <1>5 DEF WorkerEnds, archive, socket
  <2>2. TypeOK'
    BY <1>1, <2>1, WatchAssumption DEF IndInv, TypeOK
  <2>3. Placed' /\ Ended' /\ Unlinked'
    BY <2>1 DEF IndInv, TypeOK, Placed, Ended, Unlinked
  <2> QED BY <2>1, <2>2, <2>3 DEF IndInv, TypeOK, NoGap
<1> QED BY <1>3, <1>4, <1>5 DEF Work

(* A session lists, sends a list and ends. *)
LEMMA ServeKeeps == ASSUME IndInv, NEW c \in Clients, Serve(c) PROVE IndInv'
<1>0. c \in Threads /\ c \notin Natives
  BY WatchAssumption DEF Threads
<1>1. CASE ReadList(c)
  <2>1. /\ pc[c] = "idle" /\ page' = [page EXCEPT ![c] = Recent(shelf)]
        /\ pc' = [pc EXCEPT ![c] = "listing"]
        /\ UNCHANGED <<shelf, told, todo, subscribed, queue, shut, cut, wire, linked, heard>>
    BY <1>1 DEF ReadList, Go, archive
  <2>2. Recent(shelf) \in SUBSET Ids
    BY DEF IndInv, TypeOK, Shelves, Recent
  <2>3. TypeOK'
    BY <2>1, <2>2 DEF IndInv, TypeOK
  <2> QED BY <1>0, <2>1, <2>3 DEF IndInv, TypeOK, Placed, Ended, Unlinked, NoGap, Threads
<1>2. CASE SendList(c)
  <2>1. /\ pc[c] = "listing" /\ c \notin shut /\ Len(wire[c]) < WireLimit
        /\ wire' = [wire EXCEPT ![c] = Append(@, List(page[c]))]
        /\ page' = [page EXCEPT ![c] = {}] /\ pc' = [pc EXCEPT ![c] = "idle"]
        /\ UNCHANGED <<shelf, told, todo, subscribed, queue, shut, cut, linked, heard>>
    BY <1>2 DEF SendList, Writable, Go, archive
  <2>2. List(page[c]) \in Frames /\ wire[c] \in Seq(Frames)
    BY DEF IndInv, TypeOK, Frames
  <2>3. Append(wire[c], List(page[c])) \in Seq(Frames)
        /\ Len(Append(wire[c], List(page[c]))) = Len(wire[c]) + 1 /\ Len(wire[c]) \in Nat
    BY <2>2
  <2>4. TypeOK'
    <3>1. wire' \in [Clients -> Seq(Frames)] /\ \A d \in Clients : Len(wire'[d]) <= WireLimit
      BY <2>1, <2>3, WatchAssumption DEF IndInv, TypeOK
    <3>2. page' \in [Clients -> SUBSET Ids]
          /\ pc' \in [Threads -> {"idle", "answering", "listing", "telling", "gone"}]
      BY <2>1 DEF IndInv, TypeOK
    <3> QED BY <2>1, <3>1, <3>2 DEF IndInv, TypeOK
  <2>5. Placed' /\ Ended' /\ Unlinked'
    BY <1>0, <2>1 DEF IndInv, TypeOK, Placed, Ended, Unlinked
  <2>6. NoGap'
    <3>1. \A s : Follow(s, List(page[c])) = s
      BY DEF List, Follow
    <3>2. FollowAll(heard[c], Append(wire[c], List(page[c]))) = FollowAll(heard[c], wire[c])
      BY <2>2, <3>1, FollowLast
    <3> QED BY <2>1, <3>2 DEF IndInv, TypeOK, NoGap
  <2> QED BY <2>4, <2>5, <2>6 DEF IndInv
<1>3. CASE SessionEnds(c)
  <2>1. todo' \in [Threads -> Seq(Events)] /\ page' \in [Clients -> SUBSET Ids]
    BY <1>3 DEF SessionEnds, IndInv, TypeOK, archive
  <2> QED BY <1>3, <2>1, DropKeeps DEF SessionEnds, Go, archive, socket
<1> QED BY <1>1, <1>2, <1>3 DEF Serve

(* A client connects with nothing behind, reads what is first on the wire, *)
(* and goes.                                                               *)
LEMMA ListenKeeps == ASSUME IndInv, NEW c \in Clients, Listen(c) PROVE IndInv'
<1>0. c \in Threads /\ c \notin Natives
  BY WatchAssumption DEF Threads
<1>1. CASE Connect(c)
  <2>1. /\ c \notin linked /\ pc[c] = "gone"
        /\ linked' = linked \cup {c} /\ subscribed' = subscribed \cup {c}
        /\ shut' = shut \ {c} /\ heard' = [heard EXCEPT ![c] = told]
        /\ pc' = [pc EXCEPT ![c] = "idle"]
        /\ UNCHANGED <<shelf, told, todo, page, queue, cut, wire>>
    BY <1>1 DEF Connect, Go, archive
  <2>2. queue[c] = << >> /\ wire[c] = << >>
    BY <2>1 DEF IndInv, Ended, Unlinked
  <2>3. TypeOK'
    BY <2>1 DEF IndInv, TypeOK
  <2>4. Placed' /\ Ended' /\ Unlinked'
    BY <1>0, <2>1 DEF IndInv, TypeOK, Placed, Ended, Unlinked
  <2>5. FollowAll(FollowAll(told, << >>), << >>) = told
    BY FollowNone
  <2>6. NoGap'
    BY <2>1, <2>2, <2>5 DEF IndInv, TypeOK, NoGap
  <2> QED BY <2>3, <2>4, <2>6 DEF IndInv
<1>2. CASE Read(c)
  <2>1. /\ c \in linked /\ wire[c] # << >>
        /\ wire' = [wire EXCEPT ![c] = Tail(@)]
        /\ heard' = [heard EXCEPT ![c] = Follow(@, Head(wire[c]))]
        /\ UNCHANGED <<shelf, told, todo, pc, page, subscribed, queue, shut, cut, linked>>
    BY <1>2 DEF Read, archive, daemon
  <2>2. wire[c] \in Seq(Frames) /\ heard[c] \in Shelves /\ Len(wire[c]) \in Nat
    BY DEF IndInv, TypeOK
  <2>3. Head(wire[c]) \in Frames /\ Tail(wire[c]) \in Seq(Frames)
        /\ Len(Tail(wire[c])) = Len(wire[c]) - 1
    BY <2>1, <2>2
  <2>4. Follow(heard[c], Head(wire[c])) \in Shelves
    BY <2>2, <2>3, FollowTyped
  <2>5. TypeOK'
    BY <2>1, <2>2, <2>3, <2>4, WatchAssumption DEF IndInv, TypeOK
  <2>6. Placed' /\ Ended' /\ Unlinked'
    BY <2>1 DEF IndInv, TypeOK, Placed, Ended, Unlinked
  <2>7. FollowAll(Follow(heard[c], Head(wire[c])), Tail(wire[c])) = FollowAll(heard[c], wire[c])
    BY <2>1, <2>2, FollowFirst
  <2>8. NoGap'
    BY <2>1, <2>7 DEF IndInv, TypeOK, NoGap
  <2> QED BY <2>5, <2>6, <2>8 DEF IndInv
<1>3. CASE Lose(c)
  <2>1. /\ c \in shut /\ wire[c] = << >> /\ linked' = linked \ {c}
        /\ UNCHANGED <<shelf, told, todo, pc, page, subscribed, queue, shut, cut, wire, heard>>
    BY <1>3 DEF Lose, archive, daemon
  <2> QED BY <2>1 DEF IndInv, TypeOK, Placed, Ended, Unlinked, NoGap
<1> QED BY <1>1, <1>2, <1>3 DEF Listen

(* Every step keeps the invariant. *)
LEMMA StepInd == IndInv /\ [Next]_vars => IndInv'
<1> SUFFICES ASSUME IndInv, [Next]_vars PROVE IndInv'
  OBVIOUS
<1>1. CASE UNCHANGED vars
  BY <1>1 DEF vars, archive, daemon, socket, IndInv, TypeOK, Placed, Ended, Unlinked, NoGap
<1> QED
  BY <1>1, EditKeeps, TellKeeps, WorkKeeps, ServeKeeps, ListenKeeps DEF Next

(* Queues and sockets stay within their bounds, and hold what is broadcast *)
(* (outbox.rs broadcast()).                                                *)
THEOREM WatchTyped == Spec => []TypeOK
<1> QED BY InitInd, StepInd, PTL DEF Spec, IndInv

(* A watcher whose connection stands has heard, or has on its way, every   *)
(* event broadcast since it connected, in that order and nothing else      *)
(* (outbox.rs broadcast(), Outbox::send(), session.rs run()).              *)
THEOREM NothingMissed == Spec => []NoGap
<1> QED BY InitInd, StepInd, PTL DEF Spec, IndInv
=============================================================================
