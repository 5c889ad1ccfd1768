---------------------------- MODULE IndexProofs ----------------------------
(***************************************************************************)
(* What the transactions of Index keep: the reference counts stay exact    *)
(* and a row that is gone holds nothing.  The argument counts places: the  *)
(* occurrences of a digest in a finite set of rows are a finite set, and   *)
(* replacing some of the rows changes its cardinality by theirs.           *)
(*                                                                         *)
(* The bytes of the archive are a sum over a set, and eviction takes rows  *)
(* until the sum fits.  Both are recursive functions on finite sets; what  *)
(* holds of them holds because there is no smallest set for which it would *)
(* not.                                                                    *)
(***************************************************************************)
EXTENDS Index, FiniteSetTheorems, WellFoundedInduction, TLAPS

(* A digest occurs finitely often in finitely many rows or drafts. *)
LEMMA OccurrencesFinite ==
  ASSUME NEW holds, NEW S, IsFiniteSet(S), NEW d
  PROVE  /\ IsFiniteSet(Occurrences(holds, S, d))
         /\ Cardinality(Occurrences(holds, S, d)) \in Nat
<1>1. IsFiniteSet({Thumb})
  BY FS_Singleton
<1>2. IsFiniteSet(Slot)
  BY <1>1, FS_Union, IndexAssumption DEF Slot
<1>3. IsFiniteSet(S \X Slot)
  BY <1>2, FS_Product
<1>4. Occurrences(holds, S, d) \in SUBSET (S \X Slot)
  BY DEF Occurrences
<1>5. IsFiniteSet(Occurrences(holds, S, d))
  BY <1>3, <1>4, FS_Subset
<1>6. QED
  BY <1>5, FS_CardinalityType

(* Nothing occurs in rows or drafts that hold nothing. *)
LEMMA NothingOccurs ==
  ASSUME NEW holds, NEW S, \A x \in S : holds[x] = Nothing, NEW d
  PROVE  Occurrences(holds, S, d) = {}
BY DEF Occurrences, In, Nothing

(* What a row holds has an occurrence. *)
LEMMA OccursInRow ==
  ASSUME NEW holds, NEW S, NEW x \in S, NEW d \in DigestsOf(holds[x])
  PROVE  Occurrences(holds, S, d) # {}
<1>1. PICK s \in Slot : In(holds[x], s, d)
  BY DEF DigestsOf
<1>2. <<x, s>> \in Occurrences(holds, S, d)
  BY <1>1 DEF Occurrences
<1>3. QED
  BY <1>2

(* The cardinality of a disjoint union, in the form SMT can use. *)
LEMMA DisjointUnion ==
  ASSUME NEW A, NEW B, NEW U, IsFiniteSet(A), IsFiniteSet(B),
         U = A \cup B, A \cap B = {}
  PROVE  Cardinality(U) = Cardinality(A) + Cardinality(B)
<1>1. Cardinality(U)
        = Cardinality(A) + Cardinality(B) - Cardinality(A \cap B)
  BY FS_Union
<1>2. Cardinality(A) \in Nat /\ Cardinality(B) \in Nat
  BY FS_CardinalityType
<1>3. Cardinality(A \cap B) = 0
  BY FS_EmptySet
<1>4. QED
  BY <1>1, <1>2, <1>3

(* Rows T of the rows S are replaced; the others stay. *)
LEMMA RowsReplaced ==
  ASSUME NEW holds, NEW new, NEW S, IsFiniteSet(S), NEW T \in SUBSET S,
         \A x \in S \ T : new[x] = holds[x],
         NEW d
  PROVE  /\ Cardinality(Occurrences(new, S, d))
              = Cardinality(Occurrences(holds, S, d))
                - Cardinality(Occurrences(holds, T, d))
                + Cardinality(Occurrences(new, T, d))
         /\ Cardinality(Occurrences(holds, T, d))
              <= Cardinality(Occurrences(holds, S, d))
<1> DEFINE kept == Occurrences(holds, S \ T, d)
<1>1. IsFiniteSet(T) /\ IsFiniteSet(S \ T)
  BY FS_Subset
<1>2. /\ IsFiniteSet(kept) /\ Cardinality(kept) \in Nat
      /\ IsFiniteSet(Occurrences(holds, T, d))
      /\ Cardinality(Occurrences(holds, T, d)) \in Nat
      /\ IsFiniteSet(Occurrences(new, T, d))
      /\ Cardinality(Occurrences(new, T, d)) \in Nat
  BY <1>1, OccurrencesFinite
<1>3. /\ Occurrences(holds, S, d) = kept \cup Occurrences(holds, T, d)
      /\ kept \cap Occurrences(holds, T, d) = {}
  BY DEF Occurrences
<1>4. /\ Occurrences(new, S, d) = kept \cup Occurrences(new, T, d)
      /\ kept \cap Occurrences(new, T, d) = {}
  BY DEF Occurrences
<1>5. Cardinality(Occurrences(holds, S, d))
        = Cardinality(kept) + Cardinality(Occurrences(holds, T, d))
  BY <1>2, <1>3, DisjointUnion
<1>6. Cardinality(Occurrences(new, S, d))
        = Cardinality(kept) + Cardinality(Occurrences(new, T, d))
  BY <1>2, <1>4, DisjointUnion
<1>7. QED
  BY <1>2, <1>5, <1>6

-----------------------------------------------------------------------------

(* There are finitely many ids. *)
LEMMA IdsFinite == IsFiniteSet(Ids)
BY FS_Interval, IndexAssumption DEF Ids

(* Holding nothing is a way of holding. *)
LEMMA NothingIsHolding == Nothing \in Holding
BY DEF Nothing, Holding

(* An empty index is sound. *)
LEMMA EmptySound ==
  ASSUME NEW stamps
  PROVE  EmptyIndex \in Indexes(stamps) /\ Sound(EmptyIndex)
<1>1. EmptyIndex \in Indexes(stamps)
  BY NothingIsHolding DEF EmptyIndex, Indexes
<1>2. ASSUME NEW d \in Digests
      PROVE  Occurrences(EmptyIndex.holds, Ids, d) = {}
  BY NothingOccurs DEF EmptyIndex
<1>3. QED
  BY <1>1, <1>2, FS_EmptySet DEF EmptyIndex, Sound

(* Moving a row to the top changes its timestamp only. *)
LEMMA TouchSound ==
  ASSUME NEW stamps, NEW ix \in Indexes(stamps), Sound(ix),
         NEW e \in Ids, NEW time \in stamps \cup {0}
  PROVE  /\ Touch(ix, e, time) \in Indexes(stamps)
         /\ Sound(Touch(ix, e, time))
         /\ Touch(ix, e, time).live = ix.live
         /\ Touch(ix, e, time).holds = ix.holds
         /\ Touch(ix, e, time).pinned = ix.pinned
BY DEF Indexes, Touch, Sound

(* A new row: every part and the thumbnail gain one reference each. *)
LEMMA InsertSound ==
  ASSUME NEW stamps, NEW ix \in Indexes(stamps), Sound(ix),
         NEW e \in Ids \ ix.live, NEW h \in Holding, NEW time \in stamps \cup {0}
  PROVE  /\ Insert(ix, e, h, time) \in Indexes(stamps)
         /\ Sound(Insert(ix, e, h, time))
         /\ Insert(ix, e, h, time).live = ix.live \cup {e}
         /\ Insert(ix, e, h, time).holds = [ix.holds EXCEPT ![e] = h]
         /\ Insert(ix, e, h, time).pinned = ix.pinned
<1> DEFINE new == Insert(ix, e, h, time)
           holds == [ix.holds EXCEPT ![e] = h]
           refs == [d \in Digests |->
             ix.refs[d] + Cardinality(Occurrences(holds, {e}, d))]
<1>1. /\ new.live = ix.live \cup {e}
      /\ new.holds = holds
      /\ new.pinned = ix.pinned
      /\ new.at = [ix.at EXCEPT ![e] = time]
      /\ new.refs = refs
      /\ new = [live |-> new.live, holds |-> new.holds, pinned |-> new.pinned,
                at |-> new.at, refs |-> new.refs]
  <2> HIDE DEF holds, refs
  <2>1. new = [ix EXCEPT !.live = @ \cup {e}, !.holds = holds,
                         !.at[e] = time, !.refs = refs]
    BY Zenon DEF Insert, holds, refs
  <2>2. QED
    BY <2>1 DEF Indexes
<1>2. holds \in [Ids -> Holding] /\ refs = new.refs
  BY <1>1 DEF Indexes
<1>3. \A d \in Digests : new.refs[d]
        = ix.refs[d] + Cardinality(Occurrences(holds, {e}, d))
  BY <1>1
<1>4. /\ \A o \in Ids \ {e} : holds[o] = ix.holds[o]
      /\ holds[e] = h
  BY DEF Indexes
<1> HIDE DEF new, holds, refs
<1>5. ASSUME NEW d \in Digests
      PROVE  /\ new.refs[d] = Cardinality(Occurrences(holds, Ids, d))
             /\ new.refs[d] \in Nat
  <2>1. Cardinality(Occurrences(holds, Ids, d))
          = Cardinality(Occurrences(ix.holds, Ids, d))
            - Cardinality(Occurrences(ix.holds, {e}, d))
            + Cardinality(Occurrences(holds, {e}, d))
    BY <1>4, RowsReplaced, IdsFinite
  <2>2. Cardinality(Occurrences(ix.holds, {e}, d)) = 0
    BY NothingOccurs, FS_EmptySet DEF Sound
  <2>3. ix.refs[d] = Cardinality(Occurrences(ix.holds, Ids, d))
    BY DEF Sound
  <2>4. /\ Cardinality(Occurrences(holds, Ids, d)) \in Nat
        /\ Cardinality(Occurrences(ix.holds, Ids, d)) \in Nat
    BY OccurrencesFinite, IdsFinite
  <2>5. Cardinality(Occurrences(holds, {e}, d)) \in Nat
    BY OccurrencesFinite, FS_Singleton
  <2>6. new.refs[d] = ix.refs[d] + Cardinality(Occurrences(holds, {e}, d))
    BY <1>3
  <2>7. Cardinality(Occurrences(holds, Ids, d))
          = ix.refs[d] + Cardinality(Occurrences(holds, {e}, d))
    BY <2>1, <2>2, <2>3, <2>4, <2>5
  <2>8. QED
    BY <2>4, <2>6, <2>7
<1>6. new.refs \in [Digests -> Nat]
  BY <1>1, <1>5 DEF refs
<1>7. new \in Indexes(stamps)
  BY <1>1, <1>6, <1>2 DEF Indexes
<1>8. Sound(new)
  <2>1. \A o \in Ids \ new.live : new.holds[o] = Nothing
    BY <1>1, <1>4 DEF Sound
  <2>2. QED
    BY <1>1, <1>5, <2>1 DEF Sound
<1>9. QED
  BY <1>1, <1>7, <1>8 DEF new, holds

(* Rows that go give back the references they held. *)
LEMMA ReleaseSound ==
  ASSUME NEW stamps, NEW ix \in Indexes(stamps), Sound(ix), NEW S \in SUBSET Ids
  PROVE  /\ Release(ix, S) \in Indexes(stamps)
         /\ Sound(Release(ix, S))
<1> DEFINE new == Release(ix, S)
<1>1. /\ new.live = ix.live \ S
      /\ new.holds = [e \in Ids |-> IF e \in S THEN Nothing ELSE ix.holds[e]]
      /\ new.pinned = ix.pinned \ S
      /\ new.at = [e \in Ids |-> IF e \in S THEN 0 ELSE ix.at[e]]
      /\ new.refs = [d \in Digests |->
           ix.refs[d] - Cardinality(Occurrences(ix.holds, S, d))]
      /\ new = [live |-> new.live, holds |-> new.holds, pinned |-> new.pinned,
                at |-> new.at, refs |-> new.refs]
  BY DEF Release
<1>2. ASSUME NEW d \in Digests
      PROVE  /\ new.refs[d] = Cardinality(Occurrences(new.holds, Ids, d))
             /\ new.refs[d] \in Nat
  <2>1. /\ Cardinality(Occurrences(new.holds, Ids, d))
             = Cardinality(Occurrences(ix.holds, Ids, d))
               - Cardinality(Occurrences(ix.holds, S, d))
               + Cardinality(Occurrences(new.holds, S, d))
    <3>1. \A e \in Ids \ S : new.holds[e] = ix.holds[e]
      BY <1>1
    <3>2. QED
      BY <3>1, RowsReplaced, IdsFinite
  <2>2. Cardinality(Occurrences(new.holds, S, d)) = 0
    BY <1>1, NothingOccurs, FS_EmptySet
  <2>3. ix.refs[d] = Cardinality(Occurrences(ix.holds, Ids, d))
    BY DEF Sound
  <2>4. IsFiniteSet(S)
    BY IdsFinite, FS_Subset
  <2>5. /\ Cardinality(Occurrences(new.holds, Ids, d)) \in Nat
        /\ Cardinality(Occurrences(ix.holds, Ids, d)) \in Nat
        /\ Cardinality(Occurrences(ix.holds, S, d)) \in Nat
    BY OccurrencesFinite, IdsFinite, <2>4
  <2>6. QED
    BY <1>1, <2>1, <2>2, <2>3, <2>5
<1>3. new.refs \in [Digests -> Nat]
  BY <1>1, <1>2
<1>4. new \in Indexes(stamps)
  BY <1>1, <1>3, NothingIsHolding DEF Indexes
<1>5. Sound(new)
  <2>1. \A o \in Ids \ new.live : new.holds[o] = Nothing
    BY <1>1 DEF Sound, Indexes
  <2>2. QED
    BY <1>1, <1>2, <2>1 DEF Sound
<1>6. QED
  BY <1>4, <1>5

(* A digest without a reference is named by no row. *)
LEMMA UnreferencedIsUnnamed ==
  ASSUME NEW stamps, NEW ix \in Indexes(stamps), Sound(ix),
         NEW d \in Digests, ~References(ix, d), NEW e \in Ids
  PROVE  d \notin DigestsOf(ix.holds[e])
<1>1. Cardinality(Occurrences(ix.holds, Ids, d)) = 0
  BY DEF References, Indexes, Sound
<1>2. Occurrences(ix.holds, Ids, d) = {}
  BY <1>1, OccurrencesFinite, IdsFinite, FS_EmptySet
<1>3. QED
  BY <1>2, OccursInRow

-----------------------------------------------------------------------------
(* Sums.  Bytes folds over a set in an order that CHOOSE gives.  What the  *)
(* fold computes is proved by induction on finite sets, in the form that   *)
(* needs no predicate as a parameter: a counterexample would have a        *)
(* smallest one, because the strict subsets of a finite set are well-      *)
(* founded.                                                                *)

First(S) == CHOOSE x \in S : TRUE

(* g gives the total size of every subset of S. *)
Totals(g, S) ==
  g = [T \in SUBSET S |-> IF T = {} THEN 0 ELSE Size[First(T)] + g[T \ {First(T)}]]

(* A set of finite subsets of S has a member without a smaller one. *)
LEMMA SmallestSet ==
  ASSUME NEW S, IsFiniteSet(S), NEW F, F \subseteq SUBSET S, F # {}
  PROVE  \E T \in F : \A U \in SUBSET T : U # T => U \notin F
<1>1. F \subseteq FiniteSubsetsOf(S)
  BY FS_Subset DEF FiniteSubsetsOf
<1>2. PICK T \in F : \A U \in F : ~(<<U, T>> \in StrictSubsetOrdering(S))
  BY <1>1, WFMin, FS_StrictSubsetOrderingWellFounded
<1>3. QED
  BY <1>2 DEF StrictSubsetOrdering

(* Two tables of totals agree on the sets they both know. *)
LEMMA TotalsAgree ==
  ASSUME NEW S, IsFiniteSet(S), NEW g, Totals(g, S),
         NEW R, IsFiniteSet(R), NEW h, Totals(h, R), NEW U \in SUBSET (S \cap R)
  PROVE  h[U] = g[U]
<1> DEFINE Bad == {V \in SUBSET U : g[V] # h[V]}
<1>1. SUFFICES ASSUME Bad # {} PROVE FALSE
  OBVIOUS
<1>2. IsFiniteSet(U)
  BY FS_Subset
<1>3. PICK V \in Bad : \A W \in SUBSET V : W # V => W \notin Bad
  <2>1. Bad \subseteq SUBSET U
    OBVIOUS
  <2> HIDE DEF Bad
  <2>2. QED
    BY <2>1, <1>1, <1>2, SmallestSet
<1>4. V # {}
  BY DEF Totals
<1>5. First(V) \in V
  BY <1>4 DEF First
<1>6. g[V \ {First(V)}] = h[V \ {First(V)}]
  BY <1>3, <1>5
<1>7. /\ g[V] = Size[First(V)] + g[V \ {First(V)}]
      /\ h[V] = Size[First(V)] + h[V \ {First(V)}]
  BY <1>4 DEF Totals
<1>8. QED
  BY <1>6, <1>7

(* A finite set has a table of totals. *)
LEMMA TotalsExist ==
  ASSUME NEW S, IsFiniteSet(S)
  PROVE  \E g : Totals(g, S)
<1> DEFINE Bad == {V \in SUBSET S : ~ \E g : Totals(g, V)}
<1>1. SUFFICES ASSUME Bad # {} PROVE FALSE
  OBVIOUS
<1>2. PICK V \in Bad : \A W \in SUBSET V : W # V => W \notin Bad
  <2>1. Bad \subseteq SUBSET S
    OBVIOUS
  <2> HIDE DEF Bad
  <2>2. QED
    BY <2>1, <1>1, SmallestSet
<1> DEFINE of(W) == CHOOSE g : Totals(g, W)
           below(T) == of(T)[T]
           whole == [T \in SUBSET V |->
             IF T = {} THEN 0
             ELSE Size[First(T)] + below(T \ {First(T)})]
<1>3. ASSUME NEW W \in SUBSET V, W # V
      PROVE  Totals(of(W), W) /\ IsFiniteSet(W)
  <2>1. \E g : Totals(g, W)
    BY <1>2, <1>3
  <2>2. QED
    BY <2>1, FS_Subset
<1> HIDE DEF of
<1>4. ASSUME NEW W \in SUBSET V, W # V
      PROVE  whole[W] = below(W)
  <2>1. CASE W = {}
    BY <1>3, <1>4, <2>1 DEF Totals
  <2>2. CASE W # {}
    <3> DEFINE rest == W \ {First(W)}
    <3>1. First(W) \in W
      BY <2>2 DEF First
    <3>2. rest \in SUBSET V /\ rest # V /\ rest \in SUBSET (W \cap rest)
      BY <1>4, <3>1
    <3>3. of(rest)[rest] = of(W)[rest]
      BY <1>3, <1>4, <3>2, TotalsAgree
    <3>4. of(W)[W] = Size[First(W)] + of(W)[rest]
      BY <1>3, <1>4, <2>2 DEF Totals
    <3>5. QED
      BY <2>2, <3>3, <3>4
  <2>3. QED
    BY <2>1, <2>2
<1>5. ASSUME NEW T \in SUBSET V, T # {}
      PROVE  below(T \ {First(T)}) = whole[T \ {First(T)}]
  <2>1. First(T) \in T
    BY <1>5 DEF First
  <2>2. QED
    BY <1>4, <2>1
<1>6. Totals(whole, V)
  BY <1>5 DEF Totals
<1>7. QED
  BY <1>2, <1>6

(* The sum the model computes: nothing for nothing, and a part whatever is *)
(* taken first.                                                            *)
TotalSize(S) == MapThenSumSet(LAMBDA d : Size[d], S)

(* A table of totals has the total of each of its sets. *)
LEMMA TotalInTable ==
  ASSUME NEW S, IsFiniteSet(S), NEW g, Totals(g, S), NEW T \in SUBSET S
  PROVE  TotalSize(T) = g[T]
<1>1. TotalSize(T) = (CHOOSE h : Totals(h, T))[T]
  BY DEF TotalSize, MapThenSumSet, MapThenFoldSet, Totals, First
<1>2. IsFiniteSet(T)
  BY FS_Subset
<1>3. \E h : Totals(h, T)
  BY <1>2, TotalsExist
<1>4. Totals(CHOOSE h : Totals(h, T), T)
  BY <1>3
<1>5. QED
  BY <1>1, <1>2, <1>4, TotalsAgree

(* The total of a set is the size of one of its members and the total of   *)
(* the rest.                                                               *)
LEMMA TotalFirst ==
  ASSUME NEW S, IsFiniteSet(S)
  PROVE  TotalSize(S) = IF S = {} THEN 0 ELSE Size[First(S)] + TotalSize(S \ {First(S)})
<1>1. PICK g : Totals(g, S)
  BY TotalsExist
<1>2. \A T \in SUBSET S : TotalSize(T) = g[T]
  BY <1>1, TotalInTable
<1>3. QED
  BY <1>1, <1>2 DEF Totals

(* A total of sizes is a natural number. *)
LEMMA TotalIsNat ==
  ASSUME NEW S \in SUBSET Digests, IsFiniteSet(S)
  PROVE  TotalSize(S) \in Nat
<1> DEFINE Bad == {V \in SUBSET S : TotalSize(V) \notin Nat}
<1>1. SUFFICES ASSUME Bad # {} PROVE FALSE
  OBVIOUS
<1>2. PICK V \in Bad : \A W \in SUBSET V : W # V => W \notin Bad
  <2>1. Bad \subseteq SUBSET S
    OBVIOUS
  <2> HIDE DEF Bad
  <2>2. QED
    BY <2>1, <1>1, SmallestSet
<1>3. TotalSize(V)
        = IF V = {} THEN 0 ELSE Size[First(V)] + TotalSize(V \ {First(V)})
  BY FS_Subset, TotalFirst
<1>4. V # {}
  BY <1>3
<1>5. First(V) \in V
  BY <1>4 DEF First
<1>6. TotalSize(V \ {First(V)}) \in Nat
  BY <1>2, <1>5
<1>7. Size[First(V)] \in Nat
  BY <1>5, IndexAssumption
<1>8. QED
  BY <1>3, <1>6, <1>7

(* Whichever member is taken out, the total is its size and the total of   *)
(* the rest: the order in which sizes are added does not matter.           *)
LEMMA TotalWithout ==
  ASSUME NEW S \in SUBSET Digests, IsFiniteSet(S), NEW d \in S
  PROVE  TotalSize(S) = Size[d] + TotalSize(S \ {d})
<1> DEFINE Bad == {V \in SUBSET S :
                     \E x \in V : TotalSize(V) # Size[x] + TotalSize(V \ {x})}
<1>1. SUFFICES ASSUME Bad # {} PROVE FALSE
  OBVIOUS
<1>2. PICK V \in Bad : \A W \in SUBSET V : W # V => W \notin Bad
  <2>1. Bad \subseteq SUBSET S
    OBVIOUS
  <2> HIDE DEF Bad
  <2>2. QED
    BY <2>1, <1>1, SmallestSet
<1>3. PICK x \in V : TotalSize(V) # Size[x] + TotalSize(V \ {x})
  OBVIOUS
<1> DEFINE y == First(V)
<1>4. y \in V
  BY <1>3 DEF First
<1>5. TotalSize(V) = Size[y] + TotalSize(V \ {y})
  BY <1>3, FS_Subset, TotalFirst
<1>6. x # y
  BY <1>3, <1>5
<1>7. V \ {y} \in SUBSET V /\ V \ {x} \in SUBSET V /\ V \ {y} # V /\ V \ {x} # V
  BY <1>4
<1>8. TotalSize(V \ {y}) = Size[x] + TotalSize((V \ {y}) \ {x})
  BY <1>2, <1>6, <1>7
<1>9. TotalSize(V \ {x}) = Size[y] + TotalSize((V \ {x}) \ {y})
  BY <1>2, <1>4, <1>6, <1>7
<1>10. (V \ {x}) \ {y} = (V \ {y}) \ {x}
  OBVIOUS
<1>11. /\ Size[x] \in Nat /\ Size[y] \in Nat
       /\ TotalSize((V \ {y}) \ {x}) \in Nat
  <2>1. IsFiniteSet((V \ {y}) \ {x}) /\ (V \ {y}) \ {x} \in SUBSET Digests
    BY FS_Subset
  <2>2. QED
    BY <1>4, <2>1, TotalIsNat, IndexAssumption
<1>12. QED
  BY <1>3, <1>5, <1>8, <1>9, <1>10, <1>11

(* A larger set does not weigh less. *)
LEMMA TotalGrows ==
  ASSUME NEW S \in SUBSET Digests, IsFiniteSet(S), NEW T \in SUBSET S
  PROVE  TotalSize(T) <= TotalSize(S)
<1> DEFINE Bad == {V \in SUBSET S : \E U \in SUBSET V : ~(TotalSize(U) <= TotalSize(V))}
<1>1. SUFFICES ASSUME Bad # {} PROVE FALSE
  OBVIOUS
<1>2. PICK V \in Bad : \A W \in SUBSET V : W # V => W \notin Bad
  <2>1. Bad \subseteq SUBSET S
    OBVIOUS
  <2> HIDE DEF Bad
  <2>2. QED
    BY <2>1, <1>1, SmallestSet
<1>3. PICK U \in SUBSET V : ~(TotalSize(U) <= TotalSize(V))
  OBVIOUS
<1>4. IsFiniteSet(U) /\ IsFiniteSet(V)
  BY FS_Subset
<1>5. TotalSize(U) \in Nat /\ TotalSize(V) \in Nat
  BY <1>4, TotalIsNat
<1>6. PICK x \in V : x \notin U
  BY <1>3, <1>5
<1>7. TotalSize(U) <= TotalSize(V \ {x})
  BY <1>2, <1>6
<1>8. TotalSize(V) = Size[x] + TotalSize(V \ {x}) /\ Size[x] \in Nat
  BY <1>4, TotalWithout, IndexAssumption
<1>9. IsFiniteSet(V \ {x}) /\ TotalSize(V \ {x}) \in Nat
  <2>1. IsFiniteSet(V \ {x}) /\ V \ {x} \in SUBSET Digests
    BY <1>4, FS_Subset
  <2>2. QED
    BY <2>1, TotalIsNat
<1>10. QED
  BY <1>3, <1>5, <1>7, <1>8, <1>9

-----------------------------------------------------------------------------
(* Eviction. *)

Stored(ix) == {d \in Digests : References(ix, d)}

(* What is referenced is a finite set, and Bytes is its size. *)
LEMMA BytesAreTotal ==
  ASSUME NEW ix
  PROVE  /\ Bytes(ix) = TotalSize(Stored(ix))
         /\ Bytes(ix) \in Nat
         /\ IsFiniteSet(Stored(ix)) /\ Stored(ix) \in SUBSET Digests
<1>1. Bytes(ix) = TotalSize(Stored(ix))
  BY DEF Bytes, TotalSize, Stored
<1>2. Stored(ix) \in SUBSET Digests
  BY DEF Stored
<1>3. IsFiniteSet(Stored(ix))
  BY <1>2, FS_Subset, IndexAssumption
<1>4. QED
  BY <1>1, <1>2, <1>3, TotalIsNat

(* An index that references no more than another is no larger. *)
LEMMA BytesGrow ==
  ASSUME NEW ix, NEW iy, \A d \in Digests : References(iy, d) => References(ix, d)
  PROVE  Bytes(iy) <= Bytes(ix)
<1>1. Stored(iy) \in SUBSET Stored(ix)
  BY DEF Stored
<1>2. QED
  BY <1>1, BytesAreTotal, TotalGrows

(* A digest is referenced exactly when a row names it. *)
LEMMA ReferencedIsNamed ==
  ASSUME NEW stamps, NEW ix \in Indexes(stamps), Sound(ix),
         NEW d \in Digests
  PROVE  References(ix, d) <=> \E e \in ix.live : d \in DigestsOf(ix.holds[e])
<1>1. ix.refs[d] = Cardinality(Occurrences(ix.holds, Ids, d)) /\ ix.refs[d] \in Nat
  BY DEF Indexes, Sound
<1>2. IsFiniteSet(Occurrences(ix.holds, Ids, d))
  BY OccurrencesFinite, IdsFinite
<1>3. References(ix, d) <=> Occurrences(ix.holds, Ids, d) # {}
  BY <1>1, <1>2, FS_EmptySet DEF References
<1>4. Occurrences(ix.holds, Ids, d) # {}
        => \E e \in Ids : d \in DigestsOf(ix.holds[e])
  BY DEF Occurrences, DigestsOf
<1>5. \A e \in Ids : d \in DigestsOf(ix.holds[e]) => e \in ix.live
  BY DEF Sound, DigestsOf, Nothing, In
<1>6. ix.live \subseteq Ids
  BY DEF Indexes
<1>7. QED
  BY <1>3, <1>4, <1>5, <1>6, OccursInRow

(* Releasing more rows leaves no more bytes. *)
LEMMA ReleaseShrinks ==
  ASSUME NEW stamps, NEW ix \in Indexes(stamps), Sound(ix),
         NEW S \in SUBSET Ids, NEW T \in SUBSET S
  PROVE  Bytes(Release(ix, S)) <= Bytes(Release(ix, T))
<1>1. /\ Release(ix, S) \in Indexes(stamps) /\ Sound(Release(ix, S))
      /\ Release(ix, T) \in Indexes(stamps) /\ Sound(Release(ix, T))
  BY ReleaseSound
<1>2. /\ Release(ix, S).live \subseteq Release(ix, T).live
      /\ \A e \in Release(ix, S).live :
           Release(ix, S).holds[e] = Release(ix, T).holds[e]
  BY DEF Release, Indexes
<1>3. \A d \in Digests :
        References(Release(ix, S), d) => References(Release(ix, T), d)
  <2> HIDE DEF Release
  <2>1. QED
    BY <1>1, <1>2, ReferencedIsNamed
<1>4. QED
  BY <1>3, BytesGrow

(* The rows are in one order, by age. *)
LEMMA OlderIsTotal ==
  ASSUME NEW stamps \in SUBSET Int, NEW ix \in Indexes(stamps),
         NEW a \in Ids, NEW b \in Ids
  PROVE  /\ Older(ix, a, b) \/ Older(ix, b, a) \/ a = b
         /\ ~(Older(ix, a, b) /\ Older(ix, b, a)) /\ ~Older(ix, a, a)
         /\ \A c \in Ids : Older(ix, a, b) /\ Older(ix, b, c) => Older(ix, a, c)
<1>1. ix.at \in [Ids -> Int] /\ Ids \subseteq Int
  <2>1. Ids \subseteq Int
    BY IndexAssumption DEF Ids
  <2>2. stamps \cup {0} \subseteq Int
    OBVIOUS
  <2>3. ix.at \in [Ids -> stamps \cup {0}]
    BY DEF Indexes
  <2>4. QED
    BY <2>1, <2>2, <2>3
<1>2. QED
  BY <1>1 DEF Older

(* Eviction takes the oldest: a row that goes is older than one that stays. *)
LEMMA VictimsAreOldest ==
  ASSUME NEW stamps \in SUBSET Int, NEW ix \in Indexes(stamps), Sound(ix),
         NEW budget \in Nat, NEW v \in Victims(ix, budget),
         NEW k \in Unpinned(ix) \ Victims(ix, budget)
  PROVE  Older(ix, v, k)
<1> DEFINE before(e) == {o \in Unpinned(ix) : Older(ix, o, e)}
<1>1. v \in Ids /\ k \in Ids /\ Unpinned(ix) \in SUBSET Ids
  BY DEF Victims, Unpinned, Indexes
<1>2. SUFFICES ASSUME Older(ix, k, v) PROVE FALSE
  BY <1>1, OlderIsTotal
<1>3. before(k) \in SUBSET before(v) /\ before(v) \in SUBSET Ids
  BY <1>1, <1>2, OlderIsTotal
<1>4. Bytes(Release(ix, before(v))) <= Bytes(Release(ix, before(k)))
  BY <1>3, ReleaseShrinks
<1>5. /\ Bytes(Release(ix, before(v))) > budget
      /\ ~(Bytes(Release(ix, before(k))) > budget)
  BY DEF Victims
<1>6. Bytes(Release(ix, before(v))) \in Nat /\ Bytes(Release(ix, before(k))) \in Nat
  BY BytesAreTotal
<1>7. QED
  BY <1>4, <1>5, <1>6

(* Of some rows there is an oldest. *)
LEMMA OldestExists ==
  ASSUME NEW stamps \in SUBSET Int, NEW ix \in Indexes(stamps),
         NEW S \in SUBSET Ids, S # {}
  PROVE  \E e \in S : \A o \in S : o = e \/ Older(ix, e, o)
<1> DEFINE before(e) == {o \in S : Older(ix, o, e)}
           F == {before(e) : e \in S}
<1>1. IsFiniteSet(S)
  BY IdsFinite, FS_Subset
<1>2. PICK T \in F : \A U \in SUBSET T : U # T => U \notin F
  <2>1. F \subseteq SUBSET S /\ F # {}
    OBVIOUS
  <2> HIDE DEF F
  <2>2. QED
    BY <1>1, <2>1, SmallestSet
<1>3. PICK e \in S : T = before(e)
  OBVIOUS
<1>4. SUFFICES ASSUME NEW o \in S, Older(ix, o, e) PROVE FALSE
  BY OlderIsTotal
<1>5. before(o) \in SUBSET T /\ o \in T /\ o \notin before(o) /\ before(o) \in F
  BY <1>3, <1>4, OlderIsTotal
<1>6. QED
  BY <1>2, <1>5

(* After the eviction the rows fit, if those that may not go do. *)
LEMMA EvictionFits ==
  ASSUME NEW stamps \in SUBSET Int, NEW ix \in Indexes(stamps), Sound(ix),
         NEW budget \in Nat,
         Bytes(Release(ix, Unpinned(ix))) <= budget
  PROVE  Bytes(Release(ix, Victims(ix, budget))) <= budget
<1> DEFINE V == Victims(ix, budget)
           before(e) == {o \in Unpinned(ix) : Older(ix, o, e)}
<1>1. V \subseteq Unpinned(ix) /\ Unpinned(ix) \in SUBSET Ids
  BY DEF Victims, Unpinned, Indexes
<1>2. CASE V = Unpinned(ix)
  BY <1>2
<1>3. CASE V # Unpinned(ix)
  <2> DEFINE stay == Unpinned(ix) \ V
  <2>1. PICK e \in stay : \A o \in stay : o = e \/ Older(ix, e, o)
    <3>1. stay \in SUBSET Ids /\ stay # {}
      BY <1>1, <1>3
    <3> HIDE DEF stay
    <3>2. QED
      BY <3>1, OldestExists
  <2>2. \A v \in V : Older(ix, v, e)
    BY <2>1, VictimsAreOldest
  <2>3. before(e) = V
    BY <1>1, <2>1, <2>2, OlderIsTotal
  <2>4. ~(Bytes(Release(ix, before(e))) > budget)
    BY <2>1 DEF Victims
  <2>5. Bytes(Release(ix, V)) \in Nat
    BY BytesAreTotal
  <2>6. QED
    BY <2>3, <2>4, <2>5
<1>4. QED
  BY <1>2, <1>3
=============================================================================
