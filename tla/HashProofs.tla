----------------------------- MODULE HashProofs -----------------------------
(***************************************************************************)
(* What holds of module Hash for every set of keys and values, every hash  *)
(* function, and every choice of its numeric constants.                    *)
(*                                                                         *)
(* The inductive invariant is HashInv.  It is about the record alone, so   *)
(* each operator of Hash has a lemma saying that it preserves HashInv, and *)
(* the steps of Next follow by composing them.  OneMisplaced, Load and     *)
(* AllLists are shown in the same way, each from HashInv and itself.       *)
(***************************************************************************)
EXTENDS Hash, TLAPS, FiniteSetTheorems, WellFoundedInduction

\* Outside a rehash there is one table only.
OneTable(h) == ~ isReHashing(h) => \A n \in DOMAIN h.at : h.at[n].table = Active

\* The inductive invariant.  Beside Structure it needs the counts: they bound
\* the size getNextPower2 is called with, so that a large enough table exists.
HashInv(h) ==
  HashType(h) /\ RehashShape(h) /\ NodesInReach(h) /\ OneTable(h) /\ CountsFit(h)

\* HashInv within rehash(): mBackup exists, and the frontier may be at the end.
Rehashing(h) ==
  /\ HashType(h) /\ NodesInReach(h) /\ CountsFit(h)
  /\ isReHashing(h)
  /\ h.mBucketsMask = h.mBucketsNumber - 1
  /\ h.buckets[Backup] = h.mBucketsNumber
  /\ h.buckets[Active] \in BucketSizes
  /\ h.mRehashIndex <= h.buckets[Active]

-----------------------------------------------------------------------------
(* Operators that choose.                                                  *)

\* A nonempty set of naturals has a least element.
LEMMA LeastNat ==
  ASSUME NEW S \in SUBSET Nat, S # {}
  PROVE  \E x \in S : \A y \in S : x <= y
<1>1. \E x \in S : \A y \in S : <<y, x>> \notin OpToRel(<, Nat)
  BY NatLessThanWellFounded, WFMin
<1>2. \A x, y \in Nat : <<y, x>> \notin OpToRel(<, Nat) => x <= y
  BY DEF OpToRel
<1> QED BY <1>1, <1>2

\* First picks a node of the set it is given.
LEMMA FirstInSet ==
  ASSUME NEW h, HashType(h), NEW S \in SUBSET DOMAIN h.at, S # {}
  PROVE  First(h, S) \in S
<1> DEFINE P == {h.at[n].pos : n \in S}
<1>1. P \in SUBSET Nat /\ P # {}
  BY DEF HashType, Place
<1>2. PICK p \in P : \A q \in P : p <= q
  BY <1>1, LeastNat
<1>3. \E n \in S : \A m \in S : h.at[n].pos <= h.at[m].pos
  BY <1>2
<1> QED BY <1>3 DEF First

\* Bucket numbers are positive.
LEMMA BucketSizesType ==
  BucketSizes \in SUBSET Nat /\ \A b \in BucketSizes : b \in Nat /\ b > 0
  BY BucketSizesAssumption

\* getNextPower2 returns a bucket number that holds s nodes.
LEMMA NextPower2 ==
  ASSUME NEW s \in Nat, s <= Cardinality(Entry)
  PROVE  getNextPower2(s) \in BucketSizes /\ s <= getNextPower2(s)
<1> DEFINE S == {b \in BucketSizes : b >= s}
<1>1. S \in SUBSET Nat /\ S # {}
  <2>1. Cardinality(Entry) \in Nat
    BY HashAssumption, FS_CardinalityType
  <2>2. PICK b \in BucketSizes : Cardinality(Entry) <= b
    BY BucketSizesAssumption
  <2>3. b \in Nat /\ b >= s
    BY <2>1, <2>2, BucketSizesType
  <2> QED BY <2>3, BucketSizesType
<1>2. PICK b \in S : \A c \in S : b <= c
  BY <1>1, LeastNat
<1>3. \E c \in BucketSizes : c >= s /\ \A d \in BucketSizes : d >= s => c <= d
  BY <1>2
<1> QED BY <1>3 DEF getNextPower2

\* A masked hash is a bucket of its table.
LEMMA BucketInRange ==
  ASSUME NEW k \in Key, NEW mask \in Nat
  PROVE  Bucket(k, mask) \in 0 .. mask
  BY HashAssumption DEF Bucket

\* The nodes are finitely many.
LEMMA NodesFinite ==
  ASSUME NEW h, HashType(h)
  PROVE  /\ IsFiniteSet(DOMAIN h.at)
         /\ Cardinality(DOMAIN h.at) \in Nat
         /\ Cardinality(DOMAIN h.at) <= Cardinality(Entry)
         /\ \A t : IsFiniteSet(Linked(h, t)) /\ Cardinality(Linked(h, t)) \in Nat
<1>1. DOMAIN h.at \in SUBSET Entry
  BY DEF HashType
<1>2. IsFiniteSet(Entry)
  BY HashAssumption
<1>3. IsFiniteSet(DOMAIN h.at) /\ Cardinality(DOMAIN h.at) <= Cardinality(Entry)
  BY <1>1, <1>2, FS_Subset
<1>4. Cardinality(DOMAIN h.at) \in Nat
  BY <1>3, FS_CardinalityType
<1>5. ASSUME NEW t
      PROVE  IsFiniteSet(Linked(h, t)) /\ Cardinality(Linked(h, t)) \in Nat
  <2>1. Linked(h, t) \in SUBSET DOMAIN h.at
    BY DEF Linked
  <2>2. IsFiniteSet(Linked(h, t))
    BY <1>3, <2>1, FS_Subset
  <2> QED BY <2>2, FS_CardinalityType
<1> QED BY <1>3, <1>4, <1>5

-----------------------------------------------------------------------------
(* Linking and unlinking a node.                                           *)

\* insert links a new node into the newest table: mBackup during a rehash.
LEMMA InsertNodeInv ==
  ASSUME NEW h, HashInv(h), NEW b \in Nat,
         NEW n \in Entry, n \notin DOMAIN h.at,
         NEW t, t = (IF isReHashing(h) THEN Backup ELSE Active),
         b < h.buckets[t]
  PROVE  /\ HashInv(insertNode(h, t, b, n))
         /\ DOMAIN insertNode(h, t, b, n).at = DOMAIN h.at \union {n}
<1> DEFINE g == insertNode(h, t, b, n)
<1>0. t \in Table /\ h.buckets \in [Table -> Nat] /\ ~ (b >= h.buckets[t])
  BY BucketSizesType DEF HashInv, HashType, Table
<1>1. /\ g.mBucketsNumber = h.mBucketsNumber
      /\ g.mBucketsMask = h.mBucketsMask
      /\ g.mRehashIndex = h.mRehashIndex
      /\ g.buckets = h.buckets
      /\ g.size = [h.size EXCEPT ![t] = @ + 1]
      /\ DOMAIN g.at = DOMAIN h.at \union {n}
      /\ g.at[n] = [table |-> t, bucket |-> b, pos |-> 0]
  BY <1>0 DEF insertNode, HashInv, HashType
<1>2. ASSUME NEW m \in DOMAIN h.at
      PROVE  /\ g.at[m] \in Place
             /\ g.at[m].table = h.at[m].table
             /\ g.at[m].bucket = h.at[m].bucket
  BY <1>0 DEF insertNode, HashInv, HashType, Place
<1>3. HashType(g)
  <2>1. g.at \in [DOMAIN g.at -> Place]
    BY <1>0, <1>1, <1>2 DEF insertNode, HashInv, HashType, Place
  <2>2. g.size \in [Table -> Nat]
    BY <1>0, <1>1 DEF HashInv, HashType
  <2>3. g = [h EXCEPT !.size = g.size, !.at = g.at]
    BY <1>0 DEF insertNode, HashInv, HashType
  <2> HIDE DEF g
  <2> QED BY <1>1, <2>1, <2>2, <2>3 DEF HashInv, HashType
<1>4. Linked(g, t) = Linked(h, t) \union {n}
  BY <1>1, <1>2 DEF Linked
<1>5. \A u \in Table \ {t} : Linked(g, u) = Linked(h, u)
  BY <1>1, <1>2 DEF Linked
<1>6. /\ Cardinality(Linked(g, t)) = Cardinality(Linked(h, t)) + 1
      /\ Cardinality(DOMAIN g.at) = Cardinality(DOMAIN h.at) + 1
  <2>1. n \notin Linked(h, t)
    BY DEF Linked
  <2> QED BY <1>1, <1>4, <2>1, NodesFinite, FS_AddElement DEF HashInv
<1>7. CountsFit(g)
  BY <1>0, <1>1, <1>5, <1>6, NodesFinite DEF CountsFit, isReHashing, HashInv, HashType, Table, Active, Backup
<1> HIDE DEF g
<1>8. RehashShape(g)
  BY <1>1 DEF HashInv, RehashShape, isReHashing
<1>9. NodesInReach(g)
  <2>1. \A m \in DOMAIN h.at :
          /\ h.at[m].bucket < h.buckets[h.at[m].table]
          /\ isReHashing(h) /\ h.at[m].table = Active => h.at[m].bucket >= h.mRehashIndex
    BY DEF HashInv, NodesInReach
  <2>2. g.at[n].bucket < g.buckets[g.at[n].table]
    BY <1>1
  <2>3. ~ (isReHashing(h) /\ g.at[n].table = Active)
    BY <1>1 DEF Active, Backup
  <2> QED BY <1>1, <1>2, <2>1, <2>2, <2>3 DEF NodesInReach, isReHashing
<1>10. OneTable(g)
  BY <1>1, <1>2 DEF HashInv, OneTable, isReHashing
<1> QED
  BY <1>1, <1>3, <1>7, <1>8, <1>9, <1>10 DEF HashInv, g

\* erase unlinks one live node from the table it is in.
LEMMA EraseNodeInv ==
  ASSUME NEW h, HashInv(h), NEW n \in DOMAIN h.at
  PROVE  /\ HashInv(eraseNode(h, h.at[n].table, n))
         /\ DOMAIN eraseNode(h, h.at[n].table, n).at = DOMAIN h.at \ {n}
<1> DEFINE t == h.at[n].table
           g == eraseNode(h, t, n)
<1>0. t \in Table
  BY DEF HashInv, HashType, Place
<1>1. /\ g.mBucketsNumber = h.mBucketsNumber
      /\ g.mBucketsMask = h.mBucketsMask
      /\ g.mRehashIndex = h.mRehashIndex
      /\ g.buckets = h.buckets
      /\ g.size = [h.size EXCEPT ![t] = @ - 1]
      /\ DOMAIN g.at = DOMAIN h.at \ {n}
  BY <1>0 DEF eraseNode, HashInv, HashType
<1>2. ASSUME NEW m \in DOMAIN h.at \ {n}
      PROVE  /\ g.at[m] \in Place
             /\ g.at[m].table = h.at[m].table
             /\ g.at[m].bucket = h.at[m].bucket
  <2>1. h.at[m] \in Place /\ h.at[n] \in Place
    BY DEF HashInv, HashType
  <2>2. h.at[m].pos > h.at[n].pos => h.at[m].pos - 1 \in Nat
    BY <2>1 DEF Place
  <2> QED BY <2>1, <2>2 DEF eraseNode, Place, HashInv, HashType
<1>3. Linked(g, t) = Linked(h, t) \ {n} /\ n \in Linked(h, t)
  BY <1>1, <1>2 DEF Linked
<1>4. \A u \in Table \ {t} : Linked(g, u) = Linked(h, u)
  BY <1>1, <1>2 DEF Linked
<1>5. /\ Cardinality(Linked(g, t)) = Cardinality(Linked(h, t)) - 1
      /\ Cardinality(DOMAIN g.at) = Cardinality(DOMAIN h.at) - 1
  <2>1. IsFiniteSet(Linked(h, t)) /\ IsFiniteSet(DOMAIN h.at)
    BY NodesFinite DEF HashInv
  <2>2. Cardinality(Linked(h, t) \ {n}) = Cardinality(Linked(h, t)) - 1
    BY <1>3, <2>1, FS_RemoveElement
  <2>3. Cardinality(DOMAIN h.at \ {n}) = Cardinality(DOMAIN h.at) - 1
    BY <2>1, FS_RemoveElement
  <2> QED BY <1>1, <1>3, <2>2, <2>3
<1>6. Cardinality(Linked(g, t)) \in Nat /\ Cardinality(DOMAIN g.at) \in Nat
  <2>1. IsFiniteSet(Linked(g, t)) /\ IsFiniteSet(DOMAIN g.at)
    BY <1>1, <1>3, NodesFinite, FS_RemoveElement DEF HashInv
  <2> QED BY <2>1, FS_CardinalityType
<1>7. h.size[t] >= 1
  BY <1>0, <1>5, <1>6, NodesFinite
     DEF HashInv, HashType, CountsFit, OneTable, Table, Active, Backup, isReHashing
<1>8. HashType(g)
  <2>1. g.at \in [DOMAIN g.at -> Place]
    BY <1>0, <1>1, <1>2 DEF eraseNode, HashInv, HashType, Place
  <2>2. g.size \in [Table -> Nat]
    BY <1>0, <1>1, <1>7 DEF HashInv, HashType
  <2>3. g = [h EXCEPT !.size = g.size, !.at = g.at]
    BY <1>0 DEF eraseNode, HashInv, HashType
  <2> HIDE DEF g, t
  <2> QED BY <1>1, <2>1, <2>2, <2>3 DEF HashInv, HashType
<1> HIDE DEF g
<1>9. CountsFit(g)
  BY <1>0, <1>1, <1>4, <1>5, <1>6, NodesFinite
     DEF CountsFit, OneTable, isReHashing, HashInv, HashType, Table, Active, Backup
<1>10. RehashShape(g)
  BY <1>1 DEF HashInv, RehashShape, isReHashing
<1>11. NodesInReach(g)
  BY <1>1, <1>2 DEF HashInv, NodesInReach, isReHashing
<1>12. OneTable(g)
  BY <1>1, <1>2 DEF HashInv, OneTable, isReHashing
<1> QED
  BY <1>1, <1>8, <1>9, <1>10, <1>11, <1>12 DEF HashInv, g

-----------------------------------------------------------------------------
(* Incremental rehash.                                                     *)

\* A rehash starts with an empty mBackup that is large enough.
LEMMA StartReHashingInv ==
  ASSUME NEW h, HashInv(h), ~ isReHashing(h)
  PROVE  LET g == startReHashing(h)
         IN  /\ Rehashing(g)
             /\ g.mRehashIndex < g.buckets[Active]
             /\ h.size[Active] <= g.mBucketsNumber
             /\ g.at = h.at /\ g.buckets[Active] = h.buckets[Active]
<1> DEFINE g == startReHashing(h)
           number == getNextPower2(h.size[Active])
<1>1. h.size[Active] \in Nat /\ h.size[Active] <= Cardinality(Entry)
  BY NodesFinite DEF HashInv, CountsFit, HashType, Table
<1>2. number \in BucketSizes /\ h.size[Active] <= number
  BY <1>1, NextPower2
<1> HIDE DEF number
<1>3. number \in Nat /\ number - 1 \in Nat
  BY <1>2, BucketSizesType
<1>4. /\ g = [h EXCEPT !.mBucketsNumber = number,
                       !.mBucketsMask = number - 1,
                       !.mRehashIndex = 0,
                       !.buckets = [h.buckets EXCEPT ![Backup] = number],
                       !.size = [h.size EXCEPT ![Backup] = 0]]
  BY DEF startReHashing, number, HashInv, HashType
<1>5. /\ g.mBucketsNumber = number
      /\ g.mBucketsMask = number - 1
      /\ g.mRehashIndex = 0
      /\ g.buckets = [h.buckets EXCEPT ![Backup] = number]
      /\ g.size = [h.size EXCEPT ![Backup] = 0]
      /\ g.at = h.at
  BY <1>4 DEF HashInv, HashType
<1> HIDE DEF g
<1>6. HashType(g)
  BY <1>2, <1>3, <1>4, <1>5 DEF HashInv, HashType, Table
<1>7. /\ g.buckets[Backup] = number
      /\ g.buckets[Active] = h.buckets[Active]
      /\ h.buckets[Active] \in BucketSizes /\ h.buckets[Active] > 0
      /\ isReHashing(g)
  <2>1. h.buckets[Active] \in BucketSizes
    BY DEF HashInv, HashType, RehashShape
  <2> QED BY <1>5, <2>1, BucketSizesType
          DEF HashInv, HashType, Table, Active, Backup, isReHashing, NotReHashing
<1>8. NodesInReach(g)
  BY <1>5, <1>7 DEF HashInv, HashType, NodesInReach, OneTable, Place
<1>9. CountsFit(g)
  <2>1. Linked(g, Backup) = {} /\ Linked(g, Active) = DOMAIN h.at
    BY <1>5 DEF Linked, HashInv, OneTable, Active, Backup
  <2>2. g.size[Backup] = 0 /\ g.size[Active] = h.size[Active]
    BY <1>5 DEF HashInv, HashType, Table, Active, Backup
  <2>3. h.size[Active] = Cardinality(DOMAIN h.at) /\ h.size[Active] \in Nat
    BY <1>1 DEF HashInv, CountsFit
  <2> QED BY <1>7, <2>1, <2>2, <2>3, FS_EmptySet DEF CountsFit
<1>10. Rehashing(g)
  <2>1. g.mRehashIndex <= g.buckets[Active]
    <3>1. h.buckets[Active] \in Nat
      BY <1>7, BucketSizesType
    <3>2. g.mRehashIndex = 0
      BY <1>5
    <3> QED BY <1>7, <3>1, <3>2
  <2>2. g.mBucketsMask = g.mBucketsNumber - 1
    BY <1>5
  <2> QED BY <1>5, <1>6, <1>7, <1>8, <1>9, <2>1, <2>2 DEF Rehashing
<1> QED
  BY <1>2, <1>5, <1>7, <1>10 DEF g

\* Migrating the buckets up to end empties them and loses no node.
LEMMA MoveBucketsInv ==
  ASSUME NEW h, Rehashing(h),
         NEW end \in h.mRehashIndex .. h.buckets[Active]
  PROVE  LET g == moveBuckets(h, end)
         IN  /\ Rehashing(g)
             /\ g.mRehashIndex = end
             /\ DOMAIN g.at = DOMAIN h.at
             /\ g.buckets = h.buckets /\ g.mBucketsNumber = h.mBucketsNumber
<1> DEFINE g == moveBuckets(h, end)
           moved == Moved(h, end)
<1>0. /\ h.mRehashIndex \in Nat /\ end \in Nat
      /\ h.buckets[Active] \in Nat /\ h.mBucketsMask \in Nat
      /\ h.mBucketsNumber \in Nat /\ h.mBucketsMask < h.buckets[Backup]
      /\ h.buckets[Backup] \in Nat
  BY BucketSizesType DEF Rehashing, HashType, isReHashing
<1>1. \A S \in SUBSET DOMAIN h.at : IsFiniteSet(S) /\ Cardinality(S) \in Nat
  BY NodesFinite, FS_Subset, FS_CardinalityType DEF Rehashing
<1>2. /\ g.mBucketsNumber = h.mBucketsNumber
      /\ g.mBucketsMask = h.mBucketsMask
      /\ g.mRehashIndex = end
      /\ g.buckets = h.buckets
      /\ g.size = [h.size EXCEPT ![Backup] = @ + Cardinality(moved)]
      /\ DOMAIN g.at = DOMAIN h.at
  BY DEF moveBuckets, Rehashing, HashType
<1>3. moved \in SUBSET DOMAIN h.at
  BY DEF Moved
<1>4. ASSUME NEW n \in moved
      PROVE  /\ g.at[n] \in Place
             /\ g.at[n].table = Backup
             /\ g.at[n].bucket < h.buckets[Backup]
  <2>1. n[1] \in Key
    BY <1>3 DEF Rehashing, HashType, Entry
  <2>2. Bucket(n[1], h.mBucketsMask) \in 0 .. h.mBucketsMask
    BY <1>0, <2>1, BucketInRange
  <2>3. /\ g.at[n].table = Backup
        /\ g.at[n].bucket = Bucket(n[1], h.mBucketsMask)
    BY <1>3 DEF moveBuckets, Rehashing, HashType
  <2>4. PICK S \in SUBSET DOMAIN h.at :
          g.at[n] = [table |-> Backup, bucket |-> Bucket(n[1], h.mBucketsMask),
                     pos |-> Cardinality(S)]
    BY <1>3 DEF moveBuckets, Rehashing, HashType
  <2> HIDE DEF g
  <2>5. Cardinality(S) \in Nat
    BY <1>1
  <2>6. g.at[n] \in Place
    BY <1>0, <2>2, <2>4, <2>5 DEF Place, Table
  <2>7. g.at[n].bucket < h.buckets[Backup]
    BY <1>0, <2>2, <2>3
  <2> QED BY <2>3, <2>6, <2>7
<1>5. ASSUME NEW n \in DOMAIN h.at \ moved
      PROVE  /\ g.at[n] \in Place
             /\ g.at[n].table = h.at[n].table
             /\ g.at[n].bucket = h.at[n].bucket
  <2>1. h.at[n] \in Place
    BY DEF Rehashing, HashType
  <2>2. \/ g.at[n] = h.at[n]
        \/ \E S \in SUBSET DOMAIN h.at :
             g.at[n] = [h.at[n] EXCEPT !.pos = @ + Cardinality(S)]
    BY <1>3 DEF moveBuckets, Rehashing, HashType
  <2> HIDE DEF g
  <2>3. CASE g.at[n] = h.at[n]
    BY <2>1, <2>3
  <2>4. ASSUME NEW S \in SUBSET DOMAIN h.at,
               g.at[n] = [h.at[n] EXCEPT !.pos = @ + Cardinality(S)]
        PROVE  /\ g.at[n] \in Place
               /\ g.at[n].table = h.at[n].table
               /\ g.at[n].bucket = h.at[n].bucket
    BY <1>1, <2>1, <2>4 DEF Place
  <2> QED BY <2>2, <2>3, <2>4
<1>6. HashType(g)
  <2>1. g.at \in [DOMAIN g.at -> Place]
    <3>1. g.at = [n \in DOMAIN g.at |-> g.at[n]]
      BY DEF moveBuckets, Rehashing, HashType
    <3> HIDE DEF g
    <3> QED BY <1>2, <1>4, <1>5, <3>1
  <2>2. g.size \in [Table -> Nat]
    <3>1. Cardinality(moved) \in Nat
      BY <1>1, <1>3
    <3>2. h.size \in [Table -> Nat]
      BY DEF Rehashing, HashType
    <3> HIDE DEF g, moved
    <3>3. h.size[Backup] + Cardinality(moved) \in Nat
      BY <3>1, <3>2 DEF Table
    <3> QED BY <1>2, <3>2, <3>3
  <2>3. g = [h EXCEPT !.mRehashIndex = end, !.size = g.size, !.at = g.at]
    BY DEF moveBuckets, Rehashing, HashType
  <2> HIDE DEF g
  <2> QED BY <1>0, <1>2, <2>1, <2>2, <2>3 DEF Rehashing, HashType
<1> HIDE DEF g
<1>7. isReHashing(g)
  BY <1>0, <1>2 DEF isReHashing, NotReHashing
<1>8. NodesInReach(g)
  <2>1. ASSUME NEW n \in DOMAIN g.at
        PROVE  /\ g.at[n].bucket < g.buckets[g.at[n].table]
               /\ g.at[n].table = Active => g.at[n].bucket >= end
    <3>1. CASE n \in moved
      BY <1>2, <1>4, <3>1 DEF Active, Backup
    <3>2. CASE n \notin moved
      <4>1. /\ h.at[n] \in Place
            /\ h.at[n].bucket < h.buckets[h.at[n].table]
            /\ h.at[n].table = Active => h.at[n].bucket >= h.mRehashIndex
        BY <1>2 DEF Rehashing, HashType, NodesInReach
      <4>2. h.at[n].table = Active => h.at[n].bucket >= end
        BY <1>0, <1>2, <3>2, <4>1 DEF Moved, Place
      <4> QED BY <1>2, <1>5, <3>2, <4>1, <4>2
    <3> QED BY <3>1, <3>2
  <2> QED BY <1>2, <2>1 DEF NodesInReach
<1>9. CountsFit(g)
  <2>1. /\ Linked(g, Backup) = Linked(h, Backup) \union moved
        /\ Linked(h, Backup) \intersect moved = {}
        /\ Linked(g, Active) \in SUBSET Linked(h, Active)
    BY <1>2, <1>3, <1>4, <1>5 DEF Linked, Moved, Active, Backup
  <2>2. IsFiniteSet(Linked(h, Backup)) /\ IsFiniteSet(Linked(h, Active))
    BY NodesFinite DEF Rehashing
  <2>3. Cardinality(Linked(g, Backup)) = Cardinality(Linked(h, Backup)) + Cardinality(moved)
    <3>1. Cardinality(Linked(h, Backup) \intersect moved) = 0
      BY <2>1, FS_EmptySet
    <3>2. Cardinality(Linked(h, Backup)) \in Nat /\ Cardinality(moved) \in Nat
      BY <1>1, <1>3, <2>2, FS_CardinalityType
    <3>3. IsFiniteSet(moved)
      BY <1>1, <1>3
    <3>4. Cardinality(Linked(h, Backup) \union moved) =
            Cardinality(Linked(h, Backup)) + Cardinality(moved)
              - Cardinality(Linked(h, Backup) \intersect moved)
      BY <2>2, <3>3, FS_Union
    <3> HIDE DEF moved
    <3> QED BY <2>1, <3>1, <3>2, <3>4
  <2>4. Cardinality(Linked(g, Active)) <= Cardinality(Linked(h, Active))
    BY <2>1, <2>2, FS_Subset
  <2>5. /\ Cardinality(Linked(g, Active)) \in Nat
        /\ Cardinality(Linked(h, Active)) \in Nat
    BY <1>6, NodesFinite DEF Rehashing
  <2>6. /\ h.size[Backup] = Cardinality(Linked(h, Backup))
        /\ h.size[Active] >= Cardinality(Linked(h, Active))
        /\ h.size[Active] \in Nat
    BY DEF Rehashing, CountsFit, HashType, Table
  <2>7. /\ g.size[Backup] = h.size[Backup] + Cardinality(moved)
        /\ g.size[Active] = h.size[Active]
    BY <1>2 DEF Rehashing, HashType, Table, Active, Backup
  <2> HIDE DEF moved
  <2> QED BY <1>7, <2>3, <2>4, <2>5, <2>6, <2>7 DEF CountsFit
<1>10. Rehashing(g)
  BY <1>0, <1>2, <1>6, <1>7, <1>8, <1>9 DEF Rehashing
<1> QED BY <1>2, <1>10 DEF g

\* Once every bucket was migrated, dropping the old table drops no node.
LEMMA CompeleteInv ==
  ASSUME NEW h, Rehashing(h), h.mRehashIndex = h.buckets[Active]
  PROVE  LET g == compeleteReHashing(h)
         IN  /\ HashInv(g)
             /\ ~ isReHashing(g)
             /\ DOMAIN g.at = DOMAIN h.at
             /\ g.mBucketsNumber = h.mBucketsNumber
<1> DEFINE g == compeleteReHashing(h)
<1>1. \A n \in DOMAIN h.at : h.at[n] \in Place /\ h.at[n].table = Backup
  <2>1. ASSUME NEW n \in DOMAIN h.at, h.at[n].table = Active
        PROVE  FALSE
    <3>1. /\ h.at[n].bucket < h.buckets[Active]
          /\ h.at[n].bucket >= h.mRehashIndex
          /\ h.at[n] \in Place
      BY <2>1 DEF Rehashing, NodesInReach, HashType
    <3>2. h.buckets[Active] \in Nat
      BY BucketSizesType DEF Rehashing
    <3> QED BY <3>1, <3>2 DEF Place
  <2> QED BY <2>1 DEF Rehashing, HashType, Place, Table
<1>2. /\ g.mBucketsNumber = h.mBucketsNumber
      /\ g.mBucketsMask = h.mBucketsMask
      /\ g.mRehashIndex = NotReHashing
      /\ g.buckets = [t \in Table |-> IF t = Active THEN h.buckets[Backup] ELSE 0]
      /\ g.size = [t \in Table |-> IF t = Active THEN h.size[Backup] ELSE 0]
      /\ g.at = [n \in DOMAIN h.at |-> [h.at[n] EXCEPT !.table = Active]]
  BY <1>1 DEF compeleteReHashing, Rehashing, HashType
<1>3. g = [h EXCEPT !.mRehashIndex = NotReHashing, !.buckets = g.buckets,
                    !.size = g.size, !.at = g.at]
  BY DEF compeleteReHashing, Rehashing, HashType
<1> HIDE DEF g
<1>4. ASSUME NEW n \in DOMAIN h.at
      PROVE  /\ g.at[n] \in Place
             /\ g.at[n].table = Active
             /\ g.at[n].bucket = h.at[n].bucket
  BY <1>1, <1>2 DEF Place, Table
<1>5. HashType(g)
  <2>1. g.at \in [DOMAIN g.at -> Place]
    BY <1>2, <1>4
  <2>2. g.size \in [Table -> Nat] /\ g.buckets \in [Table -> BucketSizes \union {0}]
    BY <1>2 DEF Rehashing, HashType, Table
  <2> QED BY <1>2, <1>3, <2>1, <2>2 DEF Rehashing, HashType
<1>6. ~ isReHashing(g)
  BY <1>2 DEF isReHashing
<1>7. g.buckets[Active] = h.buckets[Backup] /\ g.buckets[Backup] = 0
  BY <1>2 DEF Table, Active, Backup
<1>8. RehashShape(g)
  BY <1>2, <1>6, <1>7 DEF RehashShape, Rehashing
<1>9. NodesInReach(g)
  BY <1>1, <1>2, <1>4, <1>6, <1>7 DEF NodesInReach, Rehashing
<1>10. OneTable(g)
  BY <1>2, <1>4 DEF OneTable
<1>11. CountsFit(g)
  <2>1. Linked(h, Backup) = DOMAIN h.at
    BY <1>1 DEF Linked
  <2>2. g.size[Active] = h.size[Backup]
    BY <1>2 DEF Table, Active
  <2> QED BY <1>2, <1>6, <2>1, <2>2 DEF CountsFit, Rehashing
<1> QED BY <1>2, <1>5, <1>6, <1>8, <1>9, <1>10, <1>11 DEF HashInv, g

\* Between two calls, a running rehash has buckets left to migrate.
LEMMA BetweenCalls ==
  ASSUME NEW h
  PROVE  HashInv(h) /\ isReHashing(h)
           <=> Rehashing(h) /\ h.mRehashIndex < h.buckets[Active]
<1>1. ASSUME HashInv(h), isReHashing(h)
      PROVE  Rehashing(h) /\ h.mRehashIndex < h.buckets[Active]
  <2>1. h.mRehashIndex \in Nat
    BY <1>1 DEF HashInv, HashType, isReHashing
  <2>2. h.buckets[Active] \in BucketSizes /\ h.mRehashIndex < h.buckets[Active]
    BY <1>1 DEF HashInv, RehashShape
  <2>3. h.mRehashIndex <= h.buckets[Active]
    BY <2>1, <2>2, BucketSizesType
  <2> QED BY <1>1, <2>2, <2>3 DEF HashInv, RehashShape, Rehashing
<1>2. ASSUME Rehashing(h), h.mRehashIndex < h.buckets[Active]
      PROVE  HashInv(h) /\ isReHashing(h)
  BY <1>2 DEF HashInv, RehashShape, Rehashing, OneTable
<1> QED BY <1>1, <1>2

\* Migrating any number of buckets, to the end or not, keeps every node.
LEMMA MigrateInv ==
  ASSUME NEW h, HashInv(h), isReHashing(h), NEW step \in Nat
  PROVE  LET g == migrate(h, step)
         IN  /\ HashInv(g)
             /\ DOMAIN g.at = DOMAIN h.at
             /\ g.mBucketsNumber = h.mBucketsNumber
<1> DEFINE last == h.buckets[Active]
           end == IF h.mRehashIndex + step < last THEN h.mRehashIndex + step ELSE last
           m == moveBuckets(h, end)
<1>1. Rehashing(h) /\ h.mRehashIndex < last
  BY BetweenCalls
<1>2. h.mRehashIndex \in Nat /\ last \in Nat
  BY <1>1, BucketSizesType DEF Rehashing, HashType, isReHashing
<1>3. end \in h.mRehashIndex .. last
  BY <1>1, <1>2
<1> HIDE DEF end
<1>4. /\ Rehashing(m)
      /\ m.mRehashIndex = end
      /\ DOMAIN m.at = DOMAIN h.at
      /\ m.buckets = h.buckets /\ m.mBucketsNumber = h.mBucketsNumber
  BY <1>1, <1>3, MoveBucketsInv
<1> HIDE DEF m
<1>5. migrate(h, step) = IF end = last THEN compeleteReHashing(m) ELSE m
  BY DEF migrate, end, m
<1>6. CASE end = last
  BY <1>4, <1>5, <1>6, CompeleteInv
<1>7. CASE end # last
  <2>1. m.mRehashIndex < m.buckets[Active]
    BY <1>2, <1>3, <1>4, <1>7
  <2> QED BY <1>4, <1>5, <1>7, <2>1, BetweenCalls
<1> QED BY <1>6, <1>7

\* A call of rehash migrates at least one bucket.
LEMMA StepType ==
  ASSUME NEW h, HashInv(h), isReHashing(h)
  PROVE  calculateReHashStep(h) \in Nat
<1>1. /\ h.buckets[Active] \in Nat /\ h.buckets[Active] > 0
      /\ h.buckets[Backup] \in Nat /\ h.buckets[Backup] > 0
  BY BucketSizesType DEF HashInv, RehashShape, HashType
<1>2. \A a, b \in Nat : b > 0 => a \div b \in Nat
  OBVIOUS
<1> QED BY <1>1, <1>2 DEF calculateReHashStep

\* One call of rehash keeps every node; a new table holds all of them.
LEMMA RehashInv ==
  ASSUME NEW h, HashInv(h)
  PROVE  LET g == rehash(h)
         IN  /\ HashInv(g)
             /\ DOMAIN g.at = DOMAIN h.at
             /\ isReHashing(h) => g.mBucketsNumber = h.mBucketsNumber
             /\ ~ isReHashing(h) => h.size[Active] <= g.mBucketsNumber
<1> DEFINE s == IF isReHashing(h) THEN h ELSE startReHashing(h)
<1>1. /\ HashInv(s) /\ isReHashing(s)
      /\ DOMAIN s.at = DOMAIN h.at
      /\ isReHashing(h) => s.mBucketsNumber = h.mBucketsNumber
      /\ ~ isReHashing(h) => h.size[Active] <= s.mBucketsNumber
  BY StartReHashingInv, BetweenCalls
<1> HIDE DEF s
<1>2. rehash(h) = migrate(s, calculateReHashStep(s))
  BY DEF rehash, s
<1> QED BY <1>1, <1>2, StepType, MigrateInv

\* A rehash that begin, end or next force to its end loses no node.
LEMMA CompletedInv ==
  ASSUME NEW h, HashInv(h)
  PROVE  HashInv(completed(h)) /\ DOMAIN completed(h).at = DOMAIN h.at
<1>1. CASE isReHashing(h)
  <2>1. h.buckets[Active] \in Nat
    BY <1>1, BucketSizesType DEF HashInv, RehashShape
  <2> QED BY <1>1, <2>1, MigrateInv DEF completed
<1>2. CASE ~ isReHashing(h)
  BY <1>2 DEF completed
<1> QED BY <1>1, <1>2

\* The table a call works in once it has done its share of the rehash.
Newest(h) == IF isReHashing(h) THEN Backup ELSE Active

\* The index computed before the rehash is a bucket of the table after it.
LEMMA PreparedInv ==
  ASSUME NEW h, HashInv(h)
  PROVE  LET r == prepared(h)
         IN  /\ HashInv(r)
             /\ DOMAIN r.at = DOMAIN h.at
             /\ h.mBucketsNumber <= r.mBucketsNumber
             /\ \A k \in Key : Bucket(k, h.mBucketsMask) \in Nat
                            /\ Bucket(k, h.mBucketsMask) < r.buckets[Newest(r)]
<1> DEFINE r == prepared(h)
<1>1. HashInv(r) /\ DOMAIN r.at = DOMAIN h.at
  BY RehashInv DEF prepared
<1>2. h.mBucketsNumber \in Nat /\ h.mBucketsMask = h.mBucketsNumber - 1 /\ h.mBucketsMask \in Nat
  BY BucketSizesType DEF HashInv, HashType, RehashShape
<1>3. r.mBucketsNumber \in Nat
  BY <1>1, BucketSizesType DEF HashInv, HashType
<1>4. h.mBucketsNumber <= r.mBucketsNumber
  <2>1. CASE isReHashing(h)
    BY <1>2, <2>1, RehashInv DEF prepared
  <2>2. CASE ~ isReHashing(h) /\ isNeedReHash(h)
    <3>1. h.mBucketsNumber = h.buckets[Active]
      BY <2>2 DEF HashInv, RehashShape
    <3>2. h.buckets[Active] * mLoadFactor >= h.buckets[Active]
      <4>1. \A a, b \in Nat : b # 0 => a * b >= a
        OBVIOUS
      <4> QED BY <1>2, <3>1, <4>1, HashAssumption
    <3>3. h.buckets[Active] * mLoadFactor \in Nat
      BY <1>2, <3>1, HashAssumption
    <3>4. h.size[Active] \in Nat
      BY DEF HashInv, HashType, Table
    <3>5. h.size[Active] <= r.mBucketsNumber
      BY <2>2, RehashInv DEF prepared
    <3> HIDE DEF r
    <3> QED BY <1>2, <1>3, <2>2, <3>1, <3>2, <3>3, <3>4, <3>5 DEF isNeedReHash
  <2>3. CASE ~ isReHashing(h) /\ ~ isNeedReHash(h)
    BY <1>2, <2>3 DEF prepared
  <2> QED BY <2>1, <2>2, <2>3
<1> HIDE DEF r
<1>5. r.buckets[Newest(r)] = r.mBucketsNumber
  BY <1>1 DEF HashInv, RehashShape, Newest
<1>6. ASSUME NEW k \in Key
      PROVE  Bucket(k, h.mBucketsMask) \in Nat /\ Bucket(k, h.mBucketsMask) < r.mBucketsNumber
  <2>1. Bucket(k, h.mBucketsMask) \in 0 .. h.mBucketsMask
    BY <1>2, BucketInRange
  <2> QED BY <1>2, <1>3, <1>4, <2>1
<1> QED BY <1>1, <1>4, <1>5, <1>6 DEF r

-----------------------------------------------------------------------------
(* The calls.                                                              *)

\* A lookup finds only live nodes with the key it looks for.
LEMMA FoundNodes ==
  ASSUME NEW h, HashInv(h), NEW k \in Key
  PROVE  /\ Found(h, k) \in SUBSET {n \in DOMAIN h.at : n[1] = k}
         /\ Found(h, k) # {} => First(prepared(h), Found(h, k)) \in Found(h, k)
<1>1. HashInv(prepared(h)) /\ DOMAIN prepared(h).at = DOMAIN h.at
  BY PreparedInv
<1>2. Found(h, k) \in SUBSET {n \in DOMAIN h.at : n[1] = k}
  BY <1>1 DEF Found, Candidates, Matches, Chain
<1>3. Found(h, k) # {} => First(prepared(h), Found(h, k)) \in Found(h, k)
  BY <1>1, <1>2, FirstInSet DEF HashInv
<1> QED BY <1>2, <1>3

\* insert adds the node it is given and keeps all others.
LEMMA InsertedInv ==
  ASSUME NEW h, HashInv(h), NEW n \in Entry, n \notin DOMAIN h.at
  PROVE  HashInv(inserted(h, n)) /\ DOMAIN inserted(h, n).at = DOMAIN h.at \union {n}
<1> DEFINE r == prepared(h)
           index == Bucket(n[1], h.mBucketsMask)
<1>1. n[1] \in Key
  BY DEF Entry
<1>2. /\ HashInv(r) /\ DOMAIN r.at = DOMAIN h.at
      /\ index \in Nat /\ index < r.buckets[Newest(r)]
  BY <1>1, PreparedInv
<1>3. inserted(h, n) = insertNode(r, Newest(r), index, n)
  BY DEF inserted, Newest
<1> HIDE DEF r, index
<1> QED BY <1>2, <1>3, InsertNodeInv DEF Newest

\* erase removes the first node it finds, if any, and keeps all others; the
\* rehash that a shrink starts loses none.
LEMMA ErasedInv ==
  ASSUME NEW h, HashInv(h), NEW k \in Key
  PROVE  /\ HashInv(erased(h, k))
         /\ DOMAIN erased(h, k).at =
              IF Found(h, k) = {} THEN DOMAIN h.at
              ELSE DOMAIN h.at \ {First(prepared(h), Found(h, k))}
<1> DEFINE r == prepared(h)
           n == First(r, Found(h, k))
           e == eraseNode(r, r.at[n].table, n)
<1>1. HashInv(r) /\ DOMAIN r.at = DOMAIN h.at
  BY PreparedInv
<1>2. CASE Found(h, k) = {}
  BY <1>1, <1>2 DEF erased
<1>3. CASE Found(h, k) # {}
  <2>1. n \in DOMAIN r.at
    BY <1>1, <1>3, FoundNodes
  <2> HIDE DEF r, n
  <2>2. HashInv(e) /\ DOMAIN e.at = DOMAIN h.at \ {n}
    BY <1>1, <2>1, EraseNodeInv
  <2> HIDE DEF e
  <2>3. erased(h, k) = IF isNeedShrink(e) THEN rehash(e) ELSE e
    BY <1>3 DEF erased, r, n, e
  <2>4. HashInv(rehash(e)) /\ DOMAIN rehash(e).at = DOMAIN e.at
    BY <2>2, RehashInv
  <2> QED BY <1>3, <2>2, <2>3, <2>4 DEF n, r
<1> QED BY <1>2, <1>3

-----------------------------------------------------------------------------
(* Theorems.                                                               *)

\* A new object is empty and satisfies the invariant.
LEMMA InitInv == ASSUME Init PROVE HashInv(hash) /\ DOMAIN hash.at = {}
<1>1. /\ hash.mBucketsNumber = MIN_BUCKETS_SIZE
      /\ hash.mBucketsMask = MIN_BUCKETS_SIZE - 1
      /\ hash.mRehashIndex = NotReHashing
      /\ hash.buckets = [t \in Table |-> IF t = Active THEN MIN_BUCKETS_SIZE ELSE 0]
      /\ hash.size = [t \in Table |-> 0]
      /\ DOMAIN hash.at = {}
  BY DEF Init
<1>2. HashType(hash)
  <2>1. hash.at \in [DOMAIN hash.at -> Place]
    BY DEF Init
  <2>2. MIN_BUCKETS_SIZE - 1 \in Nat /\ MIN_BUCKETS_SIZE \in BucketSizes
    BY HashAssumption, BucketSizesAssumption
  <2> QED BY <1>1, <2>1, <2>2 DEF Init, HashType
<1>3. ~ isReHashing(hash)
  BY <1>1 DEF isReHashing
<1>4. CountsFit(hash)
  BY <1>1, <1>3, FS_EmptySet DEF CountsFit, Table, Active
<1>5. RehashShape(hash)
  BY <1>1, <1>3 DEF RehashShape, Table, Active, Backup
<1> QED BY <1>1, <1>2, <1>4, <1>5 DEF HashInv, NodesInReach, OneTable

\* Every call keeps HashInv.
LEMMA CallInv == ASSUME HashInv(hash), [Next]_vars PROVE HashInv(hash')
<1>1. ASSUME NEW k \in Key, NEW v \in Value, Insert(k, v) PROVE HashInv(hash')
  BY <1>1, InsertedInv DEF Insert, Entry
<1>2. ASSUME NEW k \in Key, Get(k) \/ IsExist(k) PROVE HashInv(hash')
  BY <1>2, PreparedInv DEF Get, IsExist
<1>3. ASSUME NEW k \in Key, Erase(k) PROVE HashInv(hash')
  BY <1>3, ErasedInv DEF Erase
<1>4. CASE Iterate
  BY <1>4, CompletedInv DEF Iterate
<1>5. CASE UNCHANGED vars
  BY <1>5 DEF vars
<1> QED BY <1>1, <1>2, <1>3, <1>4, <1>5 DEF Next

\* HashInv is inductive: the shape of a rehash, the reach and the count of the
\* nodes, and the sizes of the tables hold after every call, whatever calls came
\* before it and whatever the hash function.
THEOREM Invariant == Spec => []HashInv(hash)
<1>1. Init => HashInv(hash)
  BY InitInv
<1>2. HashInv(hash) /\ [Next]_vars => HashInv(hash)'
  BY CallInv
<1> QED BY <1>1, <1>2, PTL DEF Spec

\* The tables, the mask and the frontier of the rehash always agree, and no
\* node is ever where a walk or the end of the rehash would lose it.
THEOREM StructureHolds == Spec => []Structure
<1>1. HashInv(hash) => Structure
  BY DEF HashInv, Structure
<1> QED BY <1>1, Invariant, PTL

\* mSize counts the nodes between rehashes and never undercounts during one.
THEOREM SizesHold == Spec => []SizesCount
<1>1. HashInv(hash) => SizesCount
  BY DEF HashInv, SizesCount
<1> QED BY <1>1, Invariant, PTL

\* HashTable::get, which has no bounds check, never reads out of bounds.
THEOREM IndexHolds == Spec => []IndexInBounds
<1>1. HashInv(hash) => IndexInBounds
  <2> SUFFICES ASSUME HashInv(hash), NEW k \in Key
               PROVE  LET r == prepared(hash) IN
                      /\ Bucket(k, hash.mBucketsMask) < r.buckets[Newest(r)]
                      /\ isReHashing(r) =>
                           Bucket(k, r.buckets[Active] - 1) < r.buckets[Active]
    BY DEF IndexInBounds, Newest
  <2> DEFINE r == prepared(hash)
  <2>1. HashInv(r) /\ Bucket(k, hash.mBucketsMask) < r.buckets[Newest(r)]
    BY PreparedInv
  <2> HIDE DEF r
  <2>2. ASSUME isReHashing(r)
        PROVE  Bucket(k, r.buckets[Active] - 1) < r.buckets[Active]
    <3>1. r.buckets[Active] \in Nat /\ r.buckets[Active] > 0
      BY <2>1, <2>2, BucketSizesType DEF HashInv, RehashShape
    <3>2. Bucket(k, r.buckets[Active] - 1) \in 0 .. (r.buckets[Active] - 1)
      BY <3>1, BucketInRange
    <3> QED BY <3>1, <3>2
  <2> QED BY <2>1, <2>2 DEF r
<1> QED BY <1>1, Invariant, PTL

\* The replies are replies.
THEOREM TypeCorrect == Spec => []TypeOK
<1> DEFINE RetType == ret \in [op : {"none", "insert", "get", "isExist", "erase", "iterate"},
                               key : Key \union {NoValue},
                               found : BOOLEAN,
                               value : Value \union {NoValue}]
<1>1. Init => RetType
  BY DEF Init, Reply
<1>2. HashInv(hash) /\ RetType /\ [Next]_vars => RetType'
  <2> SUFFICES ASSUME HashInv(hash), RetType, [Next]_vars PROVE RetType'
    OBVIOUS
  <2>1. ASSUME NEW k \in Key, NEW v \in Value, Insert(k, v) PROVE RetType'
    BY <2>1 DEF Insert, Reply
  <2>2. ASSUME NEW k \in Key, Get(k) PROVE RetType'
    <3>1. CASE Found(hash, k) = {}
      BY <2>2, <3>1 DEF Get, Reply
    <3>2. CASE Found(hash, k) # {}
      <4>1. First(hash', Found(hash, k))[2] \in Value
        BY <2>2, <3>2, FoundNodes DEF Get, HashInv, HashType, Entry
      <4> QED BY <2>2, <3>2, <4>1 DEF Get, Reply
    <3> QED BY <3>1, <3>2
  <2>3. ASSUME NEW k \in Key, IsExist(k) PROVE RetType'
    BY <2>3 DEF IsExist, Reply
  <2>4. ASSUME NEW k \in Key, Erase(k) PROVE RetType'
    BY <2>4 DEF Erase, Reply
  <2>5. CASE Iterate
    BY <2>5 DEF Iterate, Reply
  <2>6. CASE UNCHANGED vars
    BY <2>6 DEF vars
  <2> QED BY <2>1, <2>2, <2>3, <2>4, <2>5, <2>6 DEF Next
<1>3. HashInv(hash) /\ RetType => TypeOK
  BY DEF HashInv, TypeOK
<1> QED BY <1>1, <1>2, <1>3, Invariant, PTL DEF Spec

\* Whatever the state of the rehash, insert and erase add and remove exactly
\* the entry they report, get returns the value of a live entry of its key, and
\* nothing else changes the entries: Hash implements MultiMap.
THEOREM Refinement == Spec => ImplementsMultiMap
<1>1. Init => M!Init
  BY InitInv DEF Init, M!Init, Reply, M!Reply
<1>2. HashInv(hash) /\ [Next]_vars => [M!Next]_(M!mapVars)
  <2> SUFFICES ASSUME HashInv(hash), [Next]_vars
               PROVE  M!Next \/ UNCHANGED <<DOMAIN hash.at, ret>>
    BY DEF M!mapVars
  <2>1. ASSUME NEW k \in Key, NEW v \in Value, Insert(k, v) PROVE M!Insert(k, v)
    BY <2>1, InsertedInv DEF Insert, M!Insert, Entry, Reply, M!Reply
  <2>2. ASSUME NEW k \in Key, Get(k) PROVE M!Get(k)
    <3>1. DOMAIN hash'.at = DOMAIN hash.at
      BY <2>2, PreparedInv DEF Get
    <3>2. CASE Found(hash, k) = {}
      BY <2>2, <3>1, <3>2 DEF Get, M!Get, Reply, M!Reply
    <3>3. CASE Found(hash, k) # {}
      <4>1. First(hash', Found(hash, k)) \in M!EntriesOf(k)
        BY <2>2, <3>3, FoundNodes DEF Get, M!EntriesOf
      <4> QED BY <2>2, <3>1, <3>3, <4>1 DEF Get, M!Get, Reply, M!Reply
    <3> QED BY <3>2, <3>3
  <2>3. ASSUME NEW k \in Key, IsExist(k) PROVE M!IsExist(k)
    <3>1. DOMAIN hash'.at = DOMAIN hash.at
      BY <2>3, PreparedInv DEF IsExist
    <3>2. Found(hash, k) # {} => M!EntriesOf(k) # {}
      BY FoundNodes DEF M!EntriesOf
    <3>3. (Found(hash, k) # {}) \in BOOLEAN
      OBVIOUS
    <3> QED BY <2>3, <3>1, <3>2, <3>3 DEF IsExist, M!IsExist, Reply, M!Reply
  <2>4. ASSUME NEW k \in Key, Erase(k) PROVE M!Erase(k)
    <3>1. CASE Found(hash, k) = {}
      BY <2>4, <3>1, ErasedInv DEF Erase, M!Erase, Reply, M!Reply
    <3>2. CASE Found(hash, k) # {}
      <4> DEFINE n == First(prepared(hash), Found(hash, k))
      <4>1. n \in M!EntriesOf(k)
        BY <3>2, FoundNodes DEF M!EntriesOf
      <4>2. DOMAIN hash'.at = DOMAIN hash.at \ {n}
        BY <2>4, <3>2, ErasedInv DEF Erase
      <4> HIDE DEF n
      <4> QED BY <2>4, <3>2, <4>1, <4>2 DEF Erase, M!Erase, Reply, M!Reply
    <3> QED BY <3>1, <3>2
  <2>5. ASSUME Iterate PROVE M!Iterate
    BY <2>5, CompletedInv DEF Iterate, M!Iterate, Reply, M!Reply
  <2>6. Next => M!Next
    BY <2>1, <2>2, <2>3, <2>4, <2>5 DEF Next, M!Next
  <2>7. UNCHANGED vars => UNCHANGED <<DOMAIN hash.at, ret>>
    BY DEF vars
  <2> QED BY <2>6, <2>7
<1> QED BY <1>1, <1>2, Invariant, PTL DEF Spec, ImplementsMultiMap, M!Spec

-----------------------------------------------------------------------------
(* Misplaced nodes.  A rehash puts every node it moves where its key hashes *)
(* to, so it makes no node misplaced; an insert can, but only into a table  *)
(* that the same call has created and that holds no misplaced node yet.     *)

MisplacedIn(h, t) == {n \in Misplaced(h) : h.at[n].table = t}

\* The nodes a rehash moves are where their keys hash to; the others stay.
LEMMA MoveMisplaced ==
  ASSUME NEW h, Rehashing(h), NEW end
  PROVE  LET g == moveBuckets(h, end)
         IN  \A n \in Misplaced(g) : n \in Misplaced(h) /\ g.at[n].table = h.at[n].table
<1> DEFINE g == moveBuckets(h, end)
           moved == Moved(h, end)
<1>1. DOMAIN g.at = DOMAIN h.at /\ g.buckets = h.buckets
  BY DEF moveBuckets, Rehashing, HashType
<1>2. ASSUME NEW n \in moved
      PROVE  g.at[n].table = Backup /\ g.at[n].bucket = Bucket(n[1], h.mBucketsMask)
  BY DEF moveBuckets, Moved, Rehashing, HashType
<1>3. ASSUME NEW n \in DOMAIN h.at \ moved
      PROVE  g.at[n].table = h.at[n].table /\ g.at[n].bucket = h.at[n].bucket
  <2>1. h.at[n] \in Place
    BY DEF Rehashing, HashType
  <2>2. \/ g.at[n] = h.at[n]
        \/ \E S \in SUBSET DOMAIN h.at :
             g.at[n] = [h.at[n] EXCEPT !.pos = @ + Cardinality(S)]
    BY DEF moveBuckets, Moved, Rehashing, HashType
  <2> HIDE DEF g
  <2> QED BY <2>1, <2>2 DEF Place
<1> HIDE DEF g
<1>4. \A n \in moved : n \notin Misplaced(g)
  BY <1>1, <1>2 DEF Misplaced, Rehashing
<1>5. \A n \in DOMAIN h.at \ moved : n \in Misplaced(g) => n \in Misplaced(h)
  BY <1>1, <1>3 DEF Misplaced
<1> QED BY <1>1, <1>3, <1>4, <1>5 DEF Misplaced, g

\* The swap of the tables moves no node to another bucket.
LEMMA CompeleteMisplaced ==
  ASSUME NEW h, Rehashing(h)
  PROVE  LET g == compeleteReHashing(h)
         IN  \A n \in Misplaced(g) : n \in MisplacedIn(h, Backup)
<1> DEFINE g == compeleteReHashing(h)
<1>1. /\ g.buckets[Active] = h.buckets[Backup]
      /\ DOMAIN g.at = {n \in DOMAIN h.at : h.at[n].table = Backup}
      /\ \A n \in DOMAIN g.at : g.at[n] = [h.at[n] EXCEPT !.table = Active]
  BY DEF compeleteReHashing, Rehashing, HashType, Table, Active, Backup
<1> HIDE DEF g
<1>2. \A n \in DOMAIN g.at : g.at[n].table = Active /\ g.at[n].bucket = h.at[n].bucket
  <2>1. \A n \in DOMAIN g.at : h.at[n] \in Place
    BY <1>1 DEF Rehashing, HashType
  <2> QED BY <1>1, <2>1 DEF Place
<1> QED BY <1>1, <1>2 DEF Misplaced, MisplacedIn, g

\* Migration makes no node misplaced; what a finished rehash leaves misplaced
\* was so in mBackup.
LEMMA MigrateMisplaced ==
  ASSUME NEW h, HashInv(h), isReHashing(h), NEW step \in Nat
  PROVE  LET g == migrate(h, step)
         IN  /\ OneMisplaced(h) => OneMisplaced(g)
             /\ MisplacedIn(h, Backup) = {} => MisplacedIn(g, Newest(g)) = {}
<1> DEFINE last == h.buckets[Active]
           end == IF h.mRehashIndex + step < last THEN h.mRehashIndex + step ELSE last
           m == moveBuckets(h, end)
           g == migrate(h, step)
<1>1. Rehashing(h) /\ h.mRehashIndex < last
  BY BetweenCalls
<1>2. h.mRehashIndex \in Nat /\ last \in Nat
  BY <1>1, BucketSizesType DEF Rehashing, HashType, isReHashing
<1>3. end \in h.mRehashIndex .. last
  BY <1>1, <1>2
<1> HIDE DEF end
<1>4. Rehashing(m) /\ m.mRehashIndex = end /\ m.buckets = h.buckets
  BY <1>1, <1>3, MoveBucketsInv
<1>5. \A n \in Misplaced(m) : n \in Misplaced(h) /\ m.at[n].table = h.at[n].table
  BY <1>1, MoveMisplaced
<1> HIDE DEF m
<1>6. g = IF end = last THEN compeleteReHashing(m) ELSE m
  BY DEF migrate, end, m
<1> HIDE DEF g
<1>7. CASE end = last
  <2>1. \A n \in Misplaced(g) : n \in MisplacedIn(m, Backup)
    BY <1>4, <1>6, <1>7, CompeleteMisplaced
  <2>2. \A n \in Misplaced(g) : n \in MisplacedIn(h, Backup)
    BY <1>5, <2>1 DEF MisplacedIn
  <2> QED BY <2>2 DEF OneMisplaced, MisplacedIn, g
<1>8. CASE end # last
  <2>1. g = m /\ isReHashing(g)
    BY <1>4, <1>6, <1>8 DEF Rehashing
  <2> QED BY <1>5, <2>1 DEF OneMisplaced, MisplacedIn, Newest, g
<1> QED BY <1>7, <1>8

\* A call of rehash keeps the property, and leaves none misplaced in a table
\* that it has just created.
LEMMA RehashMisplaced ==
  ASSUME NEW h, HashInv(h), OneMisplaced(h)
  PROVE  LET g == rehash(h)
         IN  /\ OneMisplaced(g)
             /\ ~ isReHashing(h) => MisplacedIn(g, Newest(g)) = {}
<1> DEFINE s == IF isReHashing(h) THEN h ELSE startReHashing(h)
<1>1. HashInv(s) /\ isReHashing(s)
  BY StartReHashingInv, BetweenCalls
<1>2. OneMisplaced(s) /\ (~ isReHashing(h) => MisplacedIn(s, Backup) = {})
  <2>1. CASE isReHashing(h)
    BY <2>1
  <2>2. CASE ~ isReHashing(h)
    <3>1. s.at = h.at /\ s.buckets[Active] = h.buckets[Active]
      BY <2>2, StartReHashingInv
    <3>2. \A n \in DOMAIN h.at : h.at[n].table = Active
      BY <2>2 DEF HashInv, OneTable
    <3> HIDE DEF s
    <3> QED BY <3>1, <3>2 DEF OneMisplaced, Misplaced, MisplacedIn, Active, Backup
  <2> QED BY <2>1, <2>2
<1> HIDE DEF s
<1>3. rehash(h) = migrate(s, calculateReHashStep(s))
  BY DEF rehash, s
<1> QED BY <1>1, <1>2, <1>3, StepType, MigrateMisplaced

\* Unlinking a node makes no other one misplaced.
LEMMA EraseMisplaced ==
  ASSUME NEW h, HashInv(h), OneMisplaced(h), NEW n \in DOMAIN h.at
  PROVE  OneMisplaced(eraseNode(h, h.at[n].table, n))
<1> DEFINE g == eraseNode(h, h.at[n].table, n)
<1>1. DOMAIN g.at = DOMAIN h.at \ {n} /\ g.buckets = h.buckets
  BY DEF eraseNode, HashInv, HashType
<1>2. \A m \in DOMAIN h.at \ {n} :
        g.at[m].table = h.at[m].table /\ g.at[m].bucket = h.at[m].bucket
  BY DEF eraseNode, HashInv, HashType, Place
<1>3. OneMisplaced(g)
  <2> HIDE DEF g
  <2>1. \A m \in Misplaced(g) : m \in Misplaced(h) /\ g.at[m].table = h.at[m].table
    BY <1>1, <1>2 DEF Misplaced
  <2> QED BY <2>1 DEF OneMisplaced
<1> QED BY <1>3

\* A node linked in its proper bucket, or in a table without misplaced nodes.
LEMMA InsertMisplaced ==
  ASSUME NEW h, HashInv(h), OneMisplaced(h), NEW b \in Nat, NEW t,
         NEW n \in Entry, n \notin DOMAIN h.at,
         b = Bucket(n[1], h.buckets[t] - 1) \/ MisplacedIn(h, t) = {}
  PROVE  OneMisplaced(insertNode(h, t, b, n))
<1> DEFINE g == insertNode(h, t, b, n)
<1>1. CASE b >= h.buckets[t]
  BY <1>1 DEF insertNode
<1>2. CASE ~ (b >= h.buckets[t])
  <2>1. /\ DOMAIN g.at = DOMAIN h.at \union {n} /\ g.buckets = h.buckets
        /\ g.at[n].table = t /\ g.at[n].bucket = b
    BY <1>2 DEF insertNode, HashInv, HashType
  <2>2. \A m \in DOMAIN h.at :
          g.at[m].table = h.at[m].table /\ g.at[m].bucket = h.at[m].bucket
    BY <1>2 DEF insertNode, HashInv, HashType, Place
  <2> HIDE DEF g
  <2>3. \A m \in Misplaced(g) : m = n \/ (m \in Misplaced(h) /\ g.at[m].table = h.at[m].table)
    BY <2>1, <2>2 DEF Misplaced
  <2>4. n \in Misplaced(g) => MisplacedIn(h, t) = {}
    BY <2>1 DEF Misplaced
  <2> QED BY <2>1, <2>3, <2>4 DEF OneMisplaced, MisplacedIn, g
<1> QED BY <1>1, <1>2

\* However inserts, lookups, erases, growths and shrinks follow each other, a
\* table never holds two nodes outside the bucket their key hashes to.
THEOREM OneMisplacedHolds == Spec => []AtMostOneMisplaced
<1>1. Init => OneMisplaced(hash)
  <2> SUFFICES ASSUME Init PROVE OneMisplaced(hash)
    OBVIOUS
  <2>1. Misplaced(hash) = {}
    BY InitInv DEF Misplaced
  <2> QED BY <2>1 DEF OneMisplaced
<1>2. ASSUME NEW h, HashInv(h), OneMisplaced(h)
      PROVE  /\ OneMisplaced(prepared(h))
             /\ ~ isReHashing(h) /\ isNeedReHash(h)
                  => MisplacedIn(prepared(h), Newest(prepared(h))) = {}
  BY <1>2, RehashMisplaced DEF prepared
<1>3. HashInv(hash) /\ OneMisplaced(hash) /\ [Next]_vars => OneMisplaced(hash)'
  <2> SUFFICES ASSUME HashInv(hash), OneMisplaced(hash), [Next]_vars
               PROVE  OneMisplaced(hash')
    OBVIOUS
  <2> DEFINE r == prepared(hash)
  <2>0. HashInv(r) /\ OneMisplaced(r) /\ DOMAIN r.at = DOMAIN hash.at
    BY <1>2, PreparedInv
  <2>1. ASSUME NEW k \in Key, NEW v \in Value, Insert(k, v) PROVE OneMisplaced(hash')
    <3> DEFINE n == <<k, v>>
               index == Bucket(k, hash.mBucketsMask)
    <3>1. /\ index \in Nat /\ n \in Entry /\ n \notin DOMAIN r.at
      BY <2>0, <2>1, PreparedInv DEF Insert, Entry
    <3>2. hash' = insertNode(r, Newest(r), index, n)
      BY <2>1 DEF Insert, inserted, Newest
    <3>3. CASE ~ isReHashing(hash) /\ isNeedReHash(hash)
      <4>1. MisplacedIn(r, Newest(r)) = {}
        BY <1>2, <3>3
      <4> HIDE DEF r, index, n
      <4> QED BY <2>0, <3>1, <3>2, <4>1, InsertMisplaced
    <3>4. CASE isReHashing(hash) \/ ~ isNeedReHash(hash)
      <4>1. r.mBucketsNumber = hash.mBucketsNumber
        BY <3>4, RehashInv DEF prepared
      <4>2. r.buckets[Newest(r)] = r.mBucketsNumber
        BY <2>0 DEF HashInv, RehashShape, Newest
      <4>3. hash.mBucketsMask = hash.mBucketsNumber - 1
        BY DEF HashInv, RehashShape
      <4>4. index = Bucket(n[1], r.buckets[Newest(r)] - 1)
        BY <4>1, <4>2, <4>3
      <4> HIDE DEF r, index, n
      <4> QED BY <2>0, <3>1, <3>2, <4>4, InsertMisplaced
    <3> QED BY <3>3, <3>4
  <2>2. ASSUME NEW k \in Key, Get(k) \/ IsExist(k) PROVE OneMisplaced(hash')
    BY <2>0, <2>2 DEF Get, IsExist
  <2>3. ASSUME NEW k \in Key, Erase(k) PROVE OneMisplaced(hash')
    <3>1. CASE Found(hash, k) = {}
      BY <2>0, <2>3, <3>1 DEF Erase, erased
    <3>2. CASE Found(hash, k) # {}
      <4> DEFINE n == First(r, Found(hash, k))
                 e == eraseNode(r, r.at[n].table, n)
      <4>1. n \in DOMAIN r.at
        BY <2>0, <3>2, FoundNodes
      <4>2. HashInv(e) /\ OneMisplaced(e)
        <5> HIDE DEF r, n
        <5> QED BY <2>0, <4>1, EraseNodeInv, EraseMisplaced
      <4>3. hash' = IF isNeedShrink(e) THEN rehash(e) ELSE e
        BY <2>3, <3>2 DEF Erase, erased
      <4> HIDE DEF e
      <4> QED BY <4>2, <4>3, RehashMisplaced
    <3> QED BY <3>1, <3>2
  <2>4. CASE Iterate
    <3>1. CASE isReHashing(hash)
      <4>1. hash.buckets[Active] \in Nat
        BY <3>1, BucketSizesType DEF HashInv, RehashShape
      <4> QED BY <2>4, <3>1, <4>1, MigrateMisplaced DEF Iterate, completed
    <3>2. CASE ~ isReHashing(hash)
      BY <2>4, <3>2 DEF Iterate, completed
    <3> QED BY <3>1, <3>2
  <2>5. CASE UNCHANGED vars
    BY <2>5 DEF vars
  <2> QED BY <2>1, <2>2, <2>3, <2>4, <2>5 DEF Next
<1>4. OneMisplaced(hash) => AtMostOneMisplaced
  BY DEF AtMostOneMisplaced
<1> QED BY <1>1, <1>3, <1>4, Invariant, PTL DEF Spec

-----------------------------------------------------------------------------
(* Lookups.  A rehash leaves a node in its proper bucket in the bucket that *)
(* the two-table search looks into.                                         *)

\* Migration makes no node misplaced, whichever table it ends in.
LEMMA MigrateKeepsProper ==
  ASSUME NEW h, HashInv(h), isReHashing(h), NEW step \in Nat
  PROVE  Misplaced(migrate(h, step)) \subseteq Misplaced(h)
<1> DEFINE last == h.buckets[Active]
           end == IF h.mRehashIndex + step < last THEN h.mRehashIndex + step ELSE last
           m == moveBuckets(h, end)
<1>1. Rehashing(h) /\ h.mRehashIndex < last
  BY BetweenCalls
<1>2. h.mRehashIndex \in Nat /\ last \in Nat
  BY <1>1, BucketSizesType DEF Rehashing, HashType, isReHashing
<1>3. end \in h.mRehashIndex .. last
  BY <1>1, <1>2
<1> HIDE DEF end
<1>4. Rehashing(m)
  BY <1>1, <1>3, MoveBucketsInv
<1>5. Misplaced(m) \subseteq Misplaced(h)
  BY <1>1, MoveMisplaced
<1> HIDE DEF m
<1>6. Misplaced(compeleteReHashing(m)) \subseteq Misplaced(m)
  BY <1>4, CompeleteMisplaced DEF MisplacedIn
<1> QED BY <1>5, <1>6 DEF migrate, end, m

\* A node in its proper bucket is found, unless the call starts a rehash.
LEMMA ProperIsFound ==
  ASSUME NEW h, HashInv(h), isReHashing(h) \/ ~ isNeedReHash(h),
         NEW n \in DOMAIN h.at, n \notin Misplaced(h)
  PROVE  Found(h, n[1]) # {}
<1> DEFINE r == prepared(h)
           index == Bucket(n[1], h.mBucketsMask)
<1>1. HashInv(r) /\ n \in DOMAIN r.at /\ r.mBucketsNumber = h.mBucketsNumber
  BY PreparedInv, RehashInv DEF prepared
<1>2. n \notin Misplaced(r)
  <2>1. CASE isReHashing(h)
    <3>1. prepared(h) = migrate(h, calculateReHashStep(h))
      BY <2>1 DEF prepared, rehash
    <3> QED BY <2>1, <3>1, StepType, MigrateKeepsProper
  <2>2. CASE ~ isReHashing(h)
    BY <2>2 DEF prepared
  <2> QED BY <2>1, <2>2
<1>3. index = Bucket(n[1], r.mBucketsNumber - 1)
  BY <1>1 DEF HashInv, RehashShape
<1> HIDE DEF r, index
<1>4. r.at[n].table \in Table /\ r.at[n].bucket = Bucket(n[1], r.buckets[r.at[n].table] - 1)
  BY <1>1, <1>2 DEF Misplaced, HashInv, HashType, Place
<1>5. n \in Matches(r, r.at[n].table, r.at[n].bucket, n[1])
  BY <1>1 DEF Matches, Chain
<1>6. CASE isReHashing(r)
  <2>1. r.buckets[Backup] = r.mBucketsNumber
    BY <1>1, <1>6 DEF HashInv, RehashShape
  <2>2. CASE r.at[n].table = Backup
    <3>1. Matches(r, Backup, index, n[1]) # {}
      BY <1>3, <1>4, <1>5, <2>1, <2>2
    <3> QED BY <1>6, <3>1 DEF Found, Candidates, r, index
  <2>3. CASE r.at[n].table = Active
    <3>1. Matches(r, Active, Bucket(n[1], r.buckets[Active] - 1), n[1]) # {}
      BY <1>4, <1>5, <2>3
    <3> QED BY <1>6, <3>1 DEF Found, Candidates, r, index
  <2> QED BY <1>4, <2>2, <2>3 DEF Table
<1>7. CASE ~ isReHashing(r)
  <2>1. r.at[n].table = Active /\ r.buckets[Active] = r.mBucketsNumber
    BY <1>1, <1>7 DEF HashInv, RehashShape, OneTable
  <2>2. Matches(r, Active, index, n[1]) # {}
    BY <1>3, <1>4, <1>5, <2>1
  <2> QED BY <1>7, <2>2 DEF Found, Candidates, r, index
<1> QED BY <1>6, <1>7

\* A lookup misses a node in its proper bucket only in the call that starts a
\* rehash, whatever the hash function and the history of the table.
THEOREM MissOnlyWhenStaleHolds == Spec => MissOnlyWhenStale
<1>1. ASSUME HashInv(hash), [Next]_vars, ret'.op \in {"get", "isExist", "erase"}, ~ ret'.found,
             \E n \in DOMAIN hash.at \ Misplaced(hash) : n[1] = ret'.key
      PROVE  (~ isReHashing(hash) /\ isNeedReHash(hash)) \/ UNCHANGED vars
  <2> SUFFICES ASSUME isReHashing(hash) \/ ~ isNeedReHash(hash), Next PROVE FALSE
    BY <1>1
  <2>1. PICK n \in DOMAIN hash.at \ Misplaced(hash) : n[1] = ret'.key
    BY <1>1
  <2>2. Found(hash, ret'.key) # {}
    BY <1>1, <2>1, ProperIsFound
  <2>3. ASSUME NEW k \in Key, Get(k) PROVE FALSE
    BY <1>1, <2>2, <2>3 DEF Get, Reply
  <2>4. ASSUME NEW k \in Key, IsExist(k) PROVE FALSE
    BY <1>1, <2>2, <2>4 DEF IsExist, Reply
  <2>5. ASSUME NEW k \in Key, Erase(k) PROVE FALSE
    BY <1>1, <2>2, <2>5 DEF Erase, Reply
  <2>6. ASSUME NEW k \in Key, NEW v \in Value, Insert(k, v) PROVE FALSE
    BY <1>1, <2>6 DEF Insert, Reply
  <2>7. ASSUME Iterate PROVE FALSE
    BY <1>1, <2>7 DEF Iterate, Reply
  <2> QED BY <2>3, <2>4, <2>5, <2>6, <2>7 DEF Next
<1> QED BY <1>1, Invariant, PTL DEF Spec, MissOnlyWhenStale

-----------------------------------------------------------------------------
(* The load.  While a rehash lasts, each call that may insert an entry also *)
(* migrates calculateReHashStep buckets, so the entries in excess of the    *)
(* new table are as many as the steps made, at most.                        *)

Load(h) ==
  IF isReHashing(h)
  THEN (Cardinality(DOMAIN h.at) - h.buckets[Backup]) * calculateReHashStep(h)
         <= h.mRehashIndex
  ELSE Cardinality(DOMAIN h.at) <= 2 * h.mBucketsNumber * mLoadFactor

\* Load, with room for one entry more.
Roomy(h) ==
  IF isReHashing(h)
  THEN (Cardinality(DOMAIN h.at) + 1 - h.buckets[Backup]) * calculateReHashStep(h)
         <= h.mRehashIndex
  ELSE Cardinality(DOMAIN h.at) + 1 <= 2 * h.mBucketsNumber * mLoadFactor

\* Multiplication keeps the order of the naturals.
LEMMA TimesGrows ==
  ASSUME NEW x \in Nat, NEW y \in Nat, NEW q \in Nat, x <= y
  PROVE  x * q \in Nat /\ y * q \in Nat /\ x * q <= y * q
  OBVIOUS

\* Division has one remainder.
LEMMA UniqueRemainder ==
  ASSUME NEW a \in Nat, NEW x \in Nat, NEW y \in Nat,
         NEW r \in 0 .. (a - 1), NEW s \in 0 .. (a - 1), a * x + r = a * y + s
  PROVE  r <= s
<1> SUFFICES ASSUME s < r PROVE FALSE
  OBVIOUS
<1>1. a * x \in Nat /\ a * y \in Nat /\ a * x < a * y
  OBVIOUS
<1>2. a * y - a * x = r - s /\ r - s < a
  BY <1>1
<1>3. x < y
  <2> SUFFICES ASSUME y <= x PROVE FALSE
    OBVIOUS
  <2>1. y * a <= x * a
    BY TimesGrows
  <2>2. y * a = a * y /\ x * a = a * x
    OBVIOUS
  <2> QED BY <1>1, <2>1, <2>2
<1>4. (x + 1) * a <= y * a
  BY <1>3, TimesGrows
<1>5. (x + 1) * a = a * x + a /\ y * a = a * y
  OBVIOUS
<1> QED BY <1>1, <1>2, <1>4, <1>5

\* Quotient and remainder make up a number.
LEMMA DivisionMakes ==
  ASSUME NEW n \in Nat, NEW d \in Nat, d > 0
  PROVE  \E q \in Nat : n = d * q + (n % d)
<1>1. n \div d \in Nat
  BY SMTT(30)
<1>2. n = d * (n \div d) + (n % d)
  BY SMTT(30)
<1> QED BY <1>1, <1>2

\* MIN_BUCKETS_SIZE is the least bucket number.
LEMMA MinimumIsLeast ==
  ASSUME NEW b \in BucketSizes
  PROVE  MIN_BUCKETS_SIZE <= b
<1>1. PICK x \in BucketSizes : \A y \in BucketSizes : x <= y
  BY BucketSizesType, LeastNat
<1>2. x = MIN_BUCKETS_SIZE
  <2> SUFFICES ASSUME x # MIN_BUCKETS_SIZE PROVE FALSE
    OBVIOUS
  <2>1. PICK half \in BucketSizes : x = 2 * half
    BY BucketSizesAssumption
  <2>2. half \in Nat /\ half > 0 /\ x <= half
    BY <1>1, BucketSizesType
  <2> QED BY <2>1, <2>2
<1> QED BY <1>1, <1>2

\* Of two bucket numbers, the smaller divides the larger.
LEMMA SmallerDivides ==
  \A a, b \in BucketSizes : b <= a => \E q \in Nat : a = q * b
<1> DEFINE Fails(a) == \E b \in BucketSizes : b <= a /\ ~ \E q \in Nat : a = q * b
           T == {a \in BucketSizes : Fails(a)}
<1> SUFFICES ASSUME T # {} PROVE FALSE
  OBVIOUS
<1>1. PICK a \in T : \A c \in T : a <= c
  BY BucketSizesType, LeastNat
<1>2. PICK b \in BucketSizes : b <= a /\ ~ \E q \in Nat : a = q * b
  BY <1>1
<1>3. /\ a \in BucketSizes /\ a \in Nat /\ a > 0 /\ b \in Nat /\ b > 0
      /\ MIN_BUCKETS_SIZE \in Nat
  BY <1>1, BucketSizesType, HashAssumption
<1>4. \A c \in BucketSizes : c < a => ~ Fails(c)
  <2> TAKE c \in BucketSizes
  <2>1. c \in Nat
    BY BucketSizesType
  <2> QED BY <1>1, <1>3, <2>1
<1>5. a # b
  <2>1. a = 1 * a
    BY <1>3
  <2> QED BY <1>2, <2>1
<1>6. a # MIN_BUCKETS_SIZE
  <2>1. MIN_BUCKETS_SIZE <= b
    BY MinimumIsLeast
  <2> QED BY <1>2, <1>3, <1>5, <2>1
<1>7. PICK half \in BucketSizes : a = 2 * half
  BY <1>3, <1>6, BucketSizesAssumption
<1>8. half \in Nat /\ half > 0 /\ half < a
  BY <1>3, <1>7, BucketSizesType
<1>9. CASE b <= half
  <2>1. PICK q \in Nat : half = q * b
    BY <1>4, <1>8, <1>9
  <2>2. a = (2 * q) * b /\ 2 * q \in Nat
    BY <1>3, <1>7, <2>1
  <2> QED BY <1>2, <2>2
<1>10. CASE half < b
  <2>1. b # MIN_BUCKETS_SIZE
    BY <1>3, <1>8, <1>10, MinimumIsLeast
  <2>2. PICK hb \in BucketSizes : b = 2 * hb
    BY <2>1, BucketSizesAssumption
  <2>3. hb \in Nat /\ hb > 0 /\ hb < half
    <3>1. hb \in Nat /\ hb > 0
      BY BucketSizesType
    <3> QED BY <1>2, <1>3, <1>5, <1>7, <1>8, <2>2, <3>1
  <2>4. PICK q \in Nat : half = q * hb
    BY <1>4, <1>8, <2>3
  <2>5. q # 0 /\ q # 1
    BY <1>8, <2>3, <2>4
  <2>6. 2 * hb <= q * hb
    BY <2>3, <2>5, TimesGrows
  <2> QED BY <1>3, <1>8, <1>10, <2>2, <2>4, <2>6
<1> QED BY <1>3, <1>8, <1>9, <1>10

\* The step of a rehash from a buckets to b buckets.
LEMMA StepArithmetic ==
  ASSUME NEW a \in BucketSizes, NEW b \in BucketSizes, NEW step,
         step = (IF a > b THEN a \div b ELSE b \div a)
  PROVE  step \in Nat /\ step > 0 /\ (a > b => a = step * b)
<1>1. a \in Nat /\ a > 0 /\ b \in Nat /\ b > 0
  BY BucketSizesType
<1>2. CASE a > b
  <2>1. PICK q \in Nat : a = q * b
    BY <1>1, <1>2, SmallerDivides
  <2>2. q > 0
    BY <1>1, <2>1
  <2>3. (q * b) \div b = q
    BY <1>1
  <2> QED BY <1>2, <2>1, <2>2, <2>3
<1>3. CASE ~ (a > b)
  <2>1. b >= a
    BY <1>1, <1>3
  <2>2. PICK q \in Nat : b = q * a
    BY <1>1, <2>1, SmallerDivides
  <2>3. q > 0
    BY <1>1, <2>2
  <2>4. (q * a) \div a = q
    BY <1>1
  <2> QED BY <1>3, <2>2, <2>3, <2>4
<1> QED BY <1>2, <1>3

\* As long as the old table has a bucket left, the new one has room for one
\* entry more in twice its buckets.
LEMMA LoadArithmetic ==
  ASSUME NEW a \in BucketSizes, NEW b \in BucketSizes, NEW step,
         step = (IF a > b THEN a \div b ELSE b \div a),
         NEW c \in Nat, NEW i \in Nat, i < a, (c - b) * step <= i
  PROVE  c + 1 <= 2 * b
<1>1. a \in Nat /\ a > 0 /\ b \in Nat /\ b > 0
  BY BucketSizesType
<1>2. step \in Nat /\ step > 0 /\ (a > b => a = step * b)
  BY StepArithmetic
<1> SUFFICES ASSUME c - b >= b PROVE FALSE
  BY <1>1
<1>3. c - b \in Nat
  BY <1>1
<1>4. b * step <= (c - b) * step /\ b * step \in Nat /\ (c - b) * step \in Nat
  BY <1>1, <1>2, <1>3, TimesGrows
<1>5. CASE a > b
  <2>1. b * step = step * b
    BY <1>1, <1>2
  <2> QED BY <1>1, <1>2, <1>4, <1>5, <2>1
<1>6. CASE ~ (a > b)
  <2>1. b <= b * step
    <3>1. 1 <= step
      BY <1>2
    <3>2. 1 * b <= step * b
      BY <1>1, <1>2, <3>1, TimesGrows
    <3> QED BY <1>1, <1>2, <3>2
  <2> QED BY <1>1, <1>4, <1>6, <2>1
<1> QED BY <1>5, <1>6

\* What one more or one less entry does to the excess over b.
LEMMA ExcessArithmetic ==
  ASSUME NEW c \in Nat, NEW b \in Nat, NEW step \in Nat
  PROVE  /\ (c + 1 - b) * step = (c - b) * step + step
         /\ (c - 1 - b) * step = (c - b) * step - step
         /\ (c - b) * step \in Int
         /\ c <= b => (c - b) * step <= 0
<1>1. \A x \in Int : (x + 1) * step = x * step + step /\ (x - 1) * step = x * step - step
                     /\ x * step \in Int
  OBVIOUS
<1>2. c - b \in Int /\ c + 1 - b = (c - b) + 1 /\ c - 1 - b = (c - b) - 1
  OBVIOUS
<1>3. ASSUME c <= b PROVE (c - b) * step <= 0
  <2>1. b - c \in Nat /\ c - b = - (b - c)
    BY <1>3
  <2>2. (b - c) * step \in Nat
    BY <2>1
  <2>3. \A x \in Int : (- x) * step = - (x * step)
    OBVIOUS
  <2> QED BY <2>1, <2>2, <2>3
<1> QED BY <1>1, <1>2, <1>3

\* The load factor allows at least one entry per bucket.
LEMMA FactorArithmetic ==
  ASSUME NEW b \in Nat
  PROVE  /\ 2 * b * mLoadFactor \in Nat /\ b * mLoadFactor \in Nat
         /\ 2 * b <= 2 * b * mLoadFactor
         /\ 2 * b * mLoadFactor = b * mLoadFactor + b * mLoadFactor
         /\ b <= b * mLoadFactor
<1>1. mLoadFactor \in Nat /\ 1 <= mLoadFactor
  BY HashAssumption
<1>2. 1 * (2 * b) <= mLoadFactor * (2 * b) /\ 1 * b <= mLoadFactor * b
  BY <1>1, TimesGrows
<1>3. (2 * b) * mLoadFactor = mLoadFactor * (2 * b) /\ b * mLoadFactor = mLoadFactor * b
  BY <1>1
<1>4. \A x, y \in Nat : 2 * x * y = x * y + x * y
  OBVIOUS
<1> QED BY <1>1, <1>2, <1>3, <1>4

\* The numbers of a rehash.
LEMMA RehashNumbers ==
  ASSUME NEW h, HashType(h), h.buckets[Active] \in BucketSizes, h.buckets[Backup] \in BucketSizes
  PROVE  /\ Cardinality(DOMAIN h.at) \in Nat
         /\ h.buckets[Active] \in Nat /\ h.buckets[Backup] \in Nat
         /\ calculateReHashStep(h) \in Nat /\ calculateReHashStep(h) > 0
<1>1. calculateReHashStep(h) \in Nat /\ calculateReHashStep(h) > 0
  BY StepArithmetic DEF calculateReHashStep
<1> QED BY <1>1, NodesFinite, BucketSizesType

\* A share of a rehash makes room for an entry, and so does its end.
LEMMA MigrateLoad ==
  ASSUME NEW h, HashInv(h), isReHashing(h), Load(h), NEW step \in Nat,
         step = calculateReHashStep(h) \/ step = h.buckets[Active]
  PROVE  Roomy(migrate(h, step))
<1> DEFINE a == h.buckets[Active]
           b == h.buckets[Backup]
           c == Cardinality(DOMAIN h.at)
           i == h.mRehashIndex
           end == IF i + step < a THEN i + step ELSE a
           m == moveBuckets(h, end)
           pace == calculateReHashStep(h)
<1>1. /\ Rehashing(h) /\ i < a
      /\ a \in BucketSizes /\ b \in BucketSizes /\ b = h.mBucketsNumber
  BY BetweenCalls DEF HashInv, RehashShape, HashType
<1>2. a \in Nat /\ b \in Nat /\ c \in Nat /\ i \in Nat /\ pace \in Nat
  BY <1>1, RehashNumbers DEF Rehashing, HashType, isReHashing
<1>3. (c - b) * pace <= i /\ pace = (IF a > b THEN a \div b ELSE b \div a)
  BY DEF Load, calculateReHashStep
<1>4. end \in i .. a
  BY <1>1, <1>2
<1>5. /\ Rehashing(m) /\ m.mRehashIndex = end
      /\ DOMAIN m.at = DOMAIN h.at
      /\ m.buckets = h.buckets /\ m.mBucketsNumber = h.mBucketsNumber
  BY <1>1, <1>4, MoveBucketsInv
<1>6. migrate(h, step) = IF end = a THEN compeleteReHashing(m) ELSE m
  BY DEF migrate
<1>7. calculateReHashStep(m) = pace
  BY <1>5 DEF calculateReHashStep
<1>8. CASE end = a
  <2> DEFINE g == compeleteReHashing(m)
  <2> HIDE DEF m, end
  <2>1. ~ isReHashing(g) /\ DOMAIN g.at = DOMAIN h.at /\ g.mBucketsNumber = b
    BY <1>1, <1>5, <1>8, CompeleteInv
  <2> HIDE DEF a, b, c, i, pace
  <2>2. c + 1 <= 2 * b
    BY <1>1, <1>2, <1>3, LoadArithmetic
  <2>3. 2 * b <= 2 * b * mLoadFactor /\ 2 * b * mLoadFactor \in Nat
    BY <1>2, FactorArithmetic
  <2>4. c + 1 <= 2 * b * mLoadFactor
    BY <1>2, <2>2, <2>3
  <2> HIDE DEF g
  <2>5. Roomy(g)
    BY <2>1, <2>4 DEF Roomy, c
  <2> QED BY <1>6, <1>8, <2>5 DEF g
<1>9. CASE end # a
  <2>1. step = pace /\ end = i + pace
    BY <1>2, <1>9
  <2>2. (c + 1 - b) * pace <= end
    <3> HIDE DEF c, b, pace, i, end
    <3> DEFINE excess == (c - b) * pace
    <3>1. (c + 1 - b) * pace = excess + pace /\ excess \in Int
      BY <1>2, ExcessArithmetic
    <3>2. excess <= i
      BY <1>3
    <3> HIDE DEF excess
    <3> QED BY <1>2, <2>1, <3>1, <3>2
  <2> HIDE DEF m, end, pace
  <2>3. isReHashing(m)
    BY <1>5 DEF Rehashing
  <2> QED BY <1>5, <1>6, <1>7, <1>9, <2>2, <2>3 DEF Roomy
<1> QED BY <1>8, <1>9

\* Room for one more is more than is asked between calls.
LEMMA RoomyLoad ==
  ASSUME NEW h, HashInv(h), Roomy(h)
  PROVE  Load(h)
<1>1. Cardinality(DOMAIN h.at) \in Nat /\ h.mBucketsNumber \in Nat
  BY NodesFinite, BucketSizesType DEF HashInv, HashType
<1>2. CASE isReHashing(h)
  <2>1. h.buckets[Active] \in BucketSizes /\ h.buckets[Backup] \in BucketSizes /\ HashType(h)
        /\ h.mRehashIndex \in Nat
    BY <1>2 DEF HashInv, RehashShape, HashType, isReHashing
  <2>2. h.buckets[Backup] \in Nat /\ calculateReHashStep(h) \in Nat
    BY <2>1, RehashNumbers
  <2> QED BY <1>1, <1>2, <2>1, <2>2, ExcessArithmetic DEF Roomy, Load
<1>3. CASE ~ isReHashing(h)
  <2>1. 2 * h.mBucketsNumber * mLoadFactor \in Nat
    BY <1>1, FactorArithmetic
  <2> QED BY <1>1, <1>3, <2>1 DEF Roomy, Load
<1> QED BY <1>2, <1>3

\* A rehash starts with a table that holds all entries.
LEMMA RehashLoad ==
  ASSUME NEW h, HashInv(h), isReHashing(h) => Load(h)
  PROVE  Roomy(rehash(h))
<1> DEFINE s == IF isReHashing(h) THEN h ELSE startReHashing(h)
<1>1. HashInv(s) /\ isReHashing(s)
  BY StartReHashingInv, BetweenCalls
<1>2. Load(s)
  <2>1. CASE isReHashing(h)
    BY <2>1
  <2>2. CASE ~ isReHashing(h)
    <3>1. /\ h.size[Active] <= s.mBucketsNumber /\ s.at = h.at
          /\ h.size[Active] = Cardinality(DOMAIN h.at)
      BY <2>2, StartReHashingInv DEF HashInv, CountsFit
    <3>2. s.mRehashIndex \in Nat
      BY <1>1 DEF HashInv, HashType, isReHashing
    <3> HIDE DEF s
    <3>3. /\ s.buckets[Active] \in BucketSizes /\ s.buckets[Backup] \in BucketSizes
          /\ HashType(s) /\ s.buckets[Backup] = s.mBucketsNumber
      BY <1>1 DEF HashInv, RehashShape, HashType
    <3>4. /\ Cardinality(DOMAIN s.at) \in Nat /\ s.buckets[Backup] \in Nat
          /\ calculateReHashStep(s) \in Nat
      BY <3>3, RehashNumbers
    <3>5. (Cardinality(DOMAIN s.at) - s.buckets[Backup]) * calculateReHashStep(s) <= 0
      BY <3>1, <3>3, <3>4, ExcessArithmetic
    <3>6. (Cardinality(DOMAIN s.at) - s.buckets[Backup]) * calculateReHashStep(s) \in Int
      BY <3>4, ExcessArithmetic
    <3> QED BY <1>1, <3>2, <3>5, <3>6 DEF Load
  <2> QED BY <2>1, <2>2
<1> HIDE DEF s
<1>3. rehash(h) = migrate(s, calculateReHashStep(s))
  BY DEF rehash, s
<1> QED BY <1>1, <1>2, <1>3, StepType, MigrateLoad

\* The prologue of a call leaves room for the entry it may insert.
LEMMA PreparedLoad ==
  ASSUME NEW h, HashInv(h), Load(h)
  PROVE  Roomy(prepared(h))
<1>1. CASE isReHashing(h) \/ isNeedReHash(h)
  BY <1>1, RehashLoad DEF prepared
<1>2. CASE ~ isReHashing(h) /\ ~ isNeedReHash(h)
  <2>1. /\ Cardinality(DOMAIN h.at) \in Nat /\ h.mBucketsNumber \in Nat /\ h.mBucketsNumber > 0
    BY NodesFinite, BucketSizesType DEF HashInv, HashType
  <2>2. Cardinality(DOMAIN h.at) <= h.mBucketsNumber * mLoadFactor
    <3>1. h.mBucketsNumber * mLoadFactor \in Nat
      BY <2>1, FactorArithmetic
    <3>2. /\ h.size[Active] = Cardinality(DOMAIN h.at) /\ h.buckets[Active] = h.mBucketsNumber
      BY <1>2 DEF HashInv, RehashShape, CountsFit
    <3> QED BY <1>2, <2>1, <3>1, <3>2 DEF isNeedReHash
  <2>3. Cardinality(DOMAIN h.at) + 1 <= 2 * h.mBucketsNumber * mLoadFactor
    <3> DEFINE full == h.mBucketsNumber * mLoadFactor
    <3>1. /\ full \in Nat /\ h.mBucketsNumber <= full
          /\ 2 * h.mBucketsNumber * mLoadFactor = full + full
      BY <2>1, FactorArithmetic
    <3>2. Cardinality(DOMAIN h.at) <= full
      BY <2>2
    <3> HIDE DEF full
    <3> QED BY <2>1, <3>1, <3>2
  <2> QED BY <1>2, <2>3 DEF prepared, Roomy
<1> QED BY <1>1, <1>2

\* An insert takes the room that its prologue has made.
LEMMA InsertLoad ==
  ASSUME NEW h, HashInv(h), Roomy(h), NEW b \in Nat, NEW t \in Table,
         NEW n \in Entry, n \notin DOMAIN h.at, b < h.buckets[t]
  PROVE  Load(insertNode(h, t, b, n))
<1> DEFINE g == insertNode(h, t, b, n)
<1>1. /\ DOMAIN g.at = DOMAIN h.at \union {n} /\ g.buckets = h.buckets
      /\ g.mBucketsNumber = h.mBucketsNumber /\ g.mRehashIndex = h.mRehashIndex
  <2>1. ~ (b >= h.buckets[t])
    BY BucketSizesType DEF HashInv, HashType
  <2> QED BY <2>1 DEF insertNode, HashInv, HashType
<1> HIDE DEF g
<1>2. Cardinality(DOMAIN g.at) = Cardinality(DOMAIN h.at) + 1
  BY <1>1, NodesFinite, FS_AddElement DEF HashInv
<1>3. calculateReHashStep(g) = calculateReHashStep(h) /\ isReHashing(g) = isReHashing(h)
  BY <1>1 DEF calculateReHashStep, isReHashing
<1>4. CASE isReHashing(h)
  <2>1. (Cardinality(DOMAIN h.at) + 1 - h.buckets[Backup]) * calculateReHashStep(h)
          <= h.mRehashIndex
    BY <1>4 DEF Roomy
  <2>2. (Cardinality(DOMAIN g.at) - g.buckets[Backup]) * calculateReHashStep(g)
          <= g.mRehashIndex
    <3>1. /\ calculateReHashStep(g) = calculateReHashStep(h)
          /\ Cardinality(DOMAIN g.at) = Cardinality(DOMAIN h.at) + 1
          /\ g.buckets[Backup] = h.buckets[Backup] /\ g.mRehashIndex = h.mRehashIndex
      BY <1>1, <1>2, <1>3
    <3>2. h.buckets[Active] \in BucketSizes /\ h.buckets[Backup] \in BucketSizes /\ HashType(h)
          /\ h.mRehashIndex \in Nat
      BY <1>4 DEF HashInv, RehashShape, HashType, isReHashing
    <3>3. /\ Cardinality(DOMAIN h.at) \in Nat /\ h.buckets[Backup] \in Nat
          /\ calculateReHashStep(h) \in Nat
      BY <3>2, RehashNumbers
    <3> QED BY ONLY <2>1, <3>1, <3>2, <3>3
  <2> QED BY <1>3, <1>4, <2>2 DEF Load, g
<1>5. CASE ~ isReHashing(h)
  BY <1>1, <1>2, <1>3, <1>5 DEF Roomy, Load, g
<1> QED BY <1>4, <1>5

\* An erase makes room.
LEMMA EraseLoad ==
  ASSUME NEW h, HashInv(h), Load(h), NEW n \in DOMAIN h.at
  PROVE  Load(eraseNode(h, h.at[n].table, n))
<1> DEFINE g == eraseNode(h, h.at[n].table, n)
           c == Cardinality(DOMAIN h.at)
<1>1. /\ DOMAIN g.at = DOMAIN h.at \ {n} /\ g.buckets = h.buckets
      /\ g.mBucketsNumber = h.mBucketsNumber /\ g.mRehashIndex = h.mRehashIndex
  BY DEF eraseNode, HashInv, HashType
<1> HIDE DEF g
<1>2. Cardinality(DOMAIN g.at) = c - 1 /\ c \in Nat
  BY <1>1, NodesFinite, FS_RemoveElement DEF HashInv
<1>3. calculateReHashStep(g) = calculateReHashStep(h) /\ isReHashing(g) = isReHashing(h)
  BY <1>1 DEF calculateReHashStep, isReHashing
<1>4. CASE isReHashing(h)
  <2>1. h.buckets[Active] \in BucketSizes /\ h.buckets[Backup] \in BucketSizes /\ HashType(h)
        /\ h.mRehashIndex \in Nat
    BY <1>4 DEF HashInv, RehashShape, HashType, isReHashing
  <2>2. h.buckets[Backup] \in Nat /\ calculateReHashStep(h) \in Nat
    BY <2>1, RehashNumbers
  <2> HIDE DEF c
  <2>3. (c - 1 - h.buckets[Backup]) * calculateReHashStep(h) <= h.mRehashIndex
    BY <1>2, <1>4, <2>1, <2>2, ExcessArithmetic DEF Load, c
  <2> QED BY <1>1, <1>2, <1>3, <1>4, <2>3 DEF Load, g
<1>5. CASE ~ isReHashing(h)
  <2>1. h.mBucketsNumber \in Nat
    BY BucketSizesType DEF HashInv, HashType
  <2>2. 2 * h.mBucketsNumber * mLoadFactor \in Nat
    BY <2>1, FactorArithmetic
  <2> QED BY <1>1, <1>2, <1>3, <1>5, <2>2 DEF Load, g
<1> QED BY <1>4, <1>5

\* Erase, with the rehash that a shrink starts.
LEMMA ErasedLoad ==
  ASSUME NEW h, HashInv(h), Load(h), NEW k \in Key
  PROVE  Load(erased(h, k))
<1> DEFINE r == prepared(h)
           n == First(r, Found(h, k))
           e == eraseNode(r, r.at[n].table, n)
<1>1. HashInv(r) /\ DOMAIN r.at = DOMAIN h.at /\ Load(r)
  BY PreparedInv, PreparedLoad, RoomyLoad
<1>2. CASE Found(h, k) = {}
  BY <1>1, <1>2 DEF erased
<1>3. CASE Found(h, k) # {}
  <2>1. n \in DOMAIN r.at
    BY <1>1, <1>3, FoundNodes
  <2> HIDE DEF r, n
  <2>2. HashInv(e) /\ Load(e)
    BY <1>1, <2>1, EraseNodeInv, EraseLoad
  <2> HIDE DEF e
  <2>3. erased(h, k) = IF isNeedShrink(e) THEN rehash(e) ELSE e
    BY <1>3 DEF erased, r, n, e
  <2>4. Load(rehash(e))
    BY <2>2, RehashInv, RehashLoad, RoomyLoad
  <2> QED BY <2>2, <2>3, <2>4
<1> QED BY <1>2, <1>3

\* The table never holds more than twice the entries its buckets are meant for:
\* the inserts during a rehash cannot outrun it, even when it shrinks.
THEOREM LoadHolds == Spec => []LoadBounded
<1>1. Init => Load(hash)
  <2> SUFFICES ASSUME Init PROVE Load(hash)
    OBVIOUS
  <2>1. Cardinality(DOMAIN hash.at) = 0 /\ ~ isReHashing(hash)
    BY InitInv, FS_EmptySet DEF Init, isReHashing
  <2>2. hash.mBucketsNumber \in Nat
    BY HashAssumption DEF Init
  <2>3. 2 * hash.mBucketsNumber * mLoadFactor \in Nat
    BY <2>2, FactorArithmetic
  <2> QED BY <2>1, <2>3 DEF Load
<1>2. HashInv(hash) /\ Load(hash) /\ [Next]_vars => Load(hash)'
  <2> SUFFICES ASSUME HashInv(hash), Load(hash), [Next]_vars PROVE Load(hash')
    OBVIOUS
  <2> DEFINE r == prepared(hash)
  <2>0. HashInv(r) /\ Roomy(r) /\ DOMAIN r.at = DOMAIN hash.at
    BY PreparedLoad, PreparedInv
  <2>1. ASSUME NEW k \in Key, NEW v \in Value, Insert(k, v) PROVE Load(hash')
    <3> DEFINE n == <<k, v>>
               index == Bucket(k, hash.mBucketsMask)
    <3>1. /\ index \in Nat /\ n \in Entry /\ n \notin DOMAIN r.at /\ index < r.buckets[Newest(r)]
          /\ Newest(r) \in Table
      BY <2>0, <2>1, PreparedInv DEF Insert, Entry, Newest, Table
    <3>2. hash' = insertNode(r, Newest(r), index, n)
      BY <2>1 DEF Insert, inserted, Newest
    <3> HIDE DEF r, index, n
    <3> QED BY <2>0, <3>1, <3>2, InsertLoad
  <2>2. ASSUME NEW k \in Key, Get(k) \/ IsExist(k) PROVE Load(hash')
    BY <2>0, <2>2, RoomyLoad DEF Get, IsExist
  <2>3. ASSUME NEW k \in Key, Erase(k) PROVE Load(hash')
    BY <2>3, ErasedLoad DEF Erase
  <2>4. CASE Iterate
    <3>1. CASE isReHashing(hash)
      <4>1. hash.buckets[Active] \in Nat
        BY <3>1, BucketSizesType DEF HashInv, RehashShape
      <4>2. HashInv(completed(hash)) /\ Roomy(completed(hash))
        BY <3>1, <4>1, MigrateLoad, CompletedInv DEF completed
      <4> QED BY <2>4, <4>2, RoomyLoad DEF Iterate
    <3>2. CASE ~ isReHashing(hash)
      BY <2>4, <3>2 DEF Iterate, completed
    <3> QED BY <3>1, <3>2
  <2>5. CASE UNCHANGED vars
    BY <2>5 DEF vars
  <2> QED BY <2>1, <2>2, <2>3, <2>4, <2>5 DEF Next
<1>3. HashInv(hash) /\ Load(hash) => LoadBounded
  <2> SUFFICES ASSUME HashInv(hash), Load(hash) PROVE LoadBounded
    OBVIOUS
  <2>1. CASE isReHashing(hash)
    <3> DEFINE b == hash.buckets[Backup]
               c == Cardinality(DOMAIN hash.at)
    <3>1. /\ hash.buckets[Active] \in BucketSizes /\ b \in BucketSizes /\ HashType(hash)
          /\ hash.mRehashIndex \in Nat /\ hash.mRehashIndex < hash.buckets[Active]
          /\ b = hash.mBucketsNumber
      BY <2>1 DEF HashInv, RehashShape, HashType, isReHashing
    <3>2. c \in Nat /\ b \in Nat
      BY <3>1, RehashNumbers
    <3> HIDE DEF b, c
    <3>3. (c - b) * calculateReHashStep(hash) <= hash.mRehashIndex
      BY <2>1 DEF Load, b, c
    <3>4. c + 1 <= 2 * b
      BY <3>1, <3>2, <3>3, LoadArithmetic DEF calculateReHashStep, b
    <3>5. 2 * b <= 2 * b * mLoadFactor /\ 2 * b * mLoadFactor \in Nat
      BY <3>2, FactorArithmetic
    <3> QED BY <3>1, <3>2, <3>4, <3>5 DEF LoadBounded, c
  <2>2. CASE ~ isReHashing(hash)
    BY <2>2 DEF Load, LoadBounded
  <2> QED BY <2>1, <2>2
<1> QED BY <1>1, <1>2, <1>3, Invariant, PTL DEF Spec

-----------------------------------------------------------------------------
(* Chains.  That the positions of a chain are those of a list is kept as    *)
(* two facts that steps preserve: they are below the length, and distinct.  *)

IsList(h, t, b) ==
  \A n \in Chain(h, t, b) :
    /\ h.at[n].pos < Cardinality(Chain(h, t, b))
    /\ \A m \in Chain(h, t, b) : h.at[m].pos = h.at[n].pos => m = n

AllLists(h) == \A t \in Table, b \in Nat : IsList(h, t, b)

\* Chains are finite.
LEMMA ChainFinite ==
  ASSUME NEW h, HashType(h), NEW t, NEW b
  PROVE  /\ IsFiniteSet(Chain(h, t, b)) /\ Cardinality(Chain(h, t, b)) \in Nat
         /\ \A n \in Chain(h, t, b) : n \in DOMAIN h.at /\ h.at[n] \in Place
<1>1. Chain(h, t, b) \in SUBSET DOMAIN h.at
  BY DEF Chain
<1>2. IsFiniteSet(Chain(h, t, b))
  BY <1>1, NodesFinite, FS_Subset
<1> QED BY <1>1, <1>2, FS_CardinalityType DEF HashType

\* Distinct positions below the length are all the positions there are.
LEMMA ListPositions ==
  ASSUME NEW h, HashType(h), NEW t, NEW b, IsList(h, t, b)
  PROVE  {h.at[m].pos : m \in Chain(h, t, b)} = 0 .. (Cardinality(Chain(h, t, b)) - 1)
<1> DEFINE C == Chain(h, t, b)
           P == 0 .. (Cardinality(C) - 1)
           f == [n \in C |-> h.at[n].pos]
<1>1. Cardinality(C) \in Nat /\ \A n \in C : h.at[n].pos \in Nat
  BY ChainFinite DEF Place
<1>2. f \in Injection(C, P)
  <2>1. f \in [C -> P]
    BY <1>1 DEF IsList
  <2>2. \A n, m \in C : f[n] = f[m] => n = m
    BY DEF IsList
  <2> QED BY <2>1, <2>2 DEF Injection, IsInjective
<1>3. IsFiniteSet(P) /\ Cardinality(P) = Cardinality(C)
  BY <1>1, FS_Interval
<1>4. f \in Surjection(C, P)
  BY <1>2, <1>3, FS_Injection
<1>5. \A p \in P : \E n \in C : f[n] = p
  BY <1>4 DEF Surjection
<1> QED BY <1>1, <1>5 DEF IsList

\* The new head comes before the nodes of its chain.
LEMMA InsertLists ==
  ASSUME NEW h, HashInv(h), AllLists(h), NEW b \in Nat, NEW t \in Table,
         NEW n \in Entry, n \notin DOMAIN h.at, b < h.buckets[t]
  PROVE  AllLists(insertNode(h, t, b, n))
<1> DEFINE g == insertNode(h, t, b, n)
<1>1. /\ DOMAIN g.at = DOMAIN h.at \union {n}
      /\ g.at[n].table = t /\ g.at[n].bucket = b /\ g.at[n].pos = 0
      /\ \A m \in DOMAIN h.at :
           /\ g.at[m].table = h.at[m].table /\ g.at[m].bucket = h.at[m].bucket
           /\ g.at[m].pos = IF m \in Chain(h, t, b) THEN h.at[m].pos + 1 ELSE h.at[m].pos
  <2>1. ~ (b >= h.buckets[t])
    BY BucketSizesType DEF HashInv, HashType
  <2> QED BY <2>1 DEF insertNode, HashInv, HashType, Place
<1> HIDE DEF g
<1> SUFFICES ASSUME NEW u \in Table, NEW c \in Nat PROVE IsList(g, u, c)
  BY DEF AllLists, g
<1>2. IsList(h, u, c)
  BY DEF AllLists
<1>3. CASE u = t /\ c = b
  <2>1. Chain(g, t, b) = Chain(h, t, b) \union {n} /\ n \notin Chain(h, t, b)
    BY <1>1 DEF Chain
  <2>2. Cardinality(Chain(g, t, b)) = Cardinality(Chain(h, t, b)) + 1
    BY <2>1, ChainFinite, FS_AddElement DEF HashInv
  <2>3. \A m \in Chain(h, t, b) :
          m \in DOMAIN h.at /\ h.at[m].pos \in Nat /\ g.at[m].pos = h.at[m].pos + 1
    BY <1>1, ChainFinite DEF HashInv, Place
  <2>4. Cardinality(Chain(h, t, b)) \in Nat
    BY ChainFinite DEF HashInv
  <2> QED BY <1>1, <1>2, <1>3, <2>1, <2>2, <2>3, <2>4 DEF IsList
<1>4. CASE ~ (u = t /\ c = b)
  <2>1. Chain(g, u, c) = Chain(h, u, c)
    BY <1>1, <1>4 DEF Chain
  <2>2. \A m \in Chain(h, u, c) : g.at[m].pos = h.at[m].pos
    BY <1>1, <1>4 DEF Chain
  <2> QED BY <1>2, <2>1, <2>2 DEF IsList
<1> QED BY <1>3, <1>4

\* The nodes behind an unlinked one move up.
LEMMA EraseLists ==
  ASSUME NEW h, HashInv(h), AllLists(h), NEW n \in DOMAIN h.at
  PROVE  AllLists(eraseNode(h, h.at[n].table, n))
<1> DEFINE t == h.at[n].table
           b == h.at[n].bucket
           g == eraseNode(h, t, n)
<1>1. t \in Table /\ b \in Nat /\ h.at[n].pos \in Nat /\ n \in Chain(h, t, b)
  BY DEF HashInv, HashType, Place, Chain
<1>2. /\ DOMAIN g.at = DOMAIN h.at \ {n}
      /\ \A m \in DOMAIN h.at \ {n} :
           /\ g.at[m].table = h.at[m].table /\ g.at[m].bucket = h.at[m].bucket
           /\ g.at[m].pos = IF m \in Chain(h, t, b) /\ h.at[m].pos > h.at[n].pos
                            THEN h.at[m].pos - 1 ELSE h.at[m].pos
  BY DEF eraseNode, HashInv, HashType, Place
<1> HIDE DEF g, t, b
<1> SUFFICES ASSUME NEW u \in Table, NEW c \in Nat PROVE IsList(g, u, c)
  BY DEF AllLists, g, t
<1>3. IsList(h, u, c)
  BY DEF AllLists
<1>4. CASE u = t /\ c = b
  <2>1. Chain(g, t, b) = Chain(h, t, b) \ {n}
    BY <1>2 DEF Chain
  <2>2. /\ Cardinality(Chain(g, t, b)) = Cardinality(Chain(h, t, b)) - 1
        /\ Cardinality(Chain(h, t, b)) \in Nat
    <3>1. IsFiniteSet(Chain(h, t, b)) /\ Cardinality(Chain(h, t, b)) \in Nat
      BY ChainFinite DEF HashInv
    <3> QED BY <1>1, <2>1, <3>1, FS_RemoveElement
  <2>3. \A m \in Chain(h, t, b) \ {n} :
          /\ h.at[m].pos \in Nat /\ h.at[m].pos # h.at[n].pos
          /\ h.at[m].pos < Cardinality(Chain(h, t, b))
          /\ g.at[m].pos = IF h.at[m].pos > h.at[n].pos
                           THEN h.at[m].pos - 1 ELSE h.at[m].pos
    BY <1>1, <1>2, <1>3, <1>4, ChainFinite DEF HashInv, Place, IsList
  <2>4. h.at[n].pos < Cardinality(Chain(h, t, b))
    BY <1>1, <1>3, <1>4 DEF IsList
  <2>5. ASSUME NEW m \in Chain(g, t, b)
        PROVE  g.at[m].pos < Cardinality(Chain(g, t, b))
    BY <1>1, <2>1, <2>2, <2>3, <2>4
  <2>6. ASSUME NEW m \in Chain(g, t, b), NEW o \in Chain(g, t, b), g.at[m].pos = g.at[o].pos
        PROVE  m = o
    <3>1. h.at[m].pos = h.at[o].pos
      BY <1>1, <2>1, <2>3, <2>6
    <3> QED BY <1>3, <1>4, <2>1, <3>1 DEF IsList
  <2> QED BY <1>4, <2>5, <2>6 DEF IsList
<1>5. CASE ~ (u = t /\ c = b)
  <2>1. Chain(g, u, c) = Chain(h, u, c)
    BY <1>1, <1>2, <1>5 DEF Chain
  <2>2. \A m \in Chain(h, u, c) : g.at[m].pos = h.at[m].pos
    BY <1>2, <1>5, <2>1 DEF Chain
  <2> QED BY <1>3, <2>1, <2>2 DEF IsList
<1> QED BY <1>4, <1>5

-----------------------------------------------------------------------------
(* What moveBuckets does to a chain of mBackup: its new nodes are ordered by *)
(* how many were pushed after them, and come before all it had.             *)

PushedOn(h, end, b) == {n \in Moved(h, end) : Bucket(n[1], h.mBucketsMask) = b}

PushedLater(h, n, m) ==
  \/ h.at[m].bucket > h.at[n].bucket
  \/ h.at[m].bucket = h.at[n].bucket /\ h.at[m].pos > h.at[n].pos

PushedAfter(h, end, b, n) == {m \in PushedOn(h, end, b) : PushedLater(h, n, m)}

\* Where moveBuckets puts each node.
LEMMA MovedPlaces ==
  ASSUME NEW h, Rehashing(h), NEW end, NEW n \in DOMAIN h.at
  PROVE  LET g == moveBuckets(h, end)
             b == Bucket(n[1], h.mBucketsMask)
         IN  /\ DOMAIN g.at = DOMAIN h.at
             /\ n \in Moved(h, end) =>
                  /\ g.at[n].table = Backup /\ g.at[n].bucket = b
                  /\ g.at[n].pos = Cardinality(PushedAfter(h, end, b, n))
             /\ n \notin Moved(h, end) =>
                  /\ g.at[n].table = h.at[n].table /\ g.at[n].bucket = h.at[n].bucket
                  /\ g.at[n].pos = IF h.at[n].table = Backup
                                   THEN h.at[n].pos + Cardinality(PushedOn(h, end, h.at[n].bucket))
                                   ELSE h.at[n].pos
<1> DEFINE g == moveBuckets(h, end)
           b == Bucket(n[1], h.mBucketsMask)
<1>1. h.at[n] \in Place
  BY DEF Rehashing, HashType
<1>2. DOMAIN g.at = DOMAIN h.at
  BY DEF moveBuckets, Rehashing, HashType
<1>3. ASSUME n \in Moved(h, end)
      PROVE  /\ g.at[n].table = Backup /\ g.at[n].bucket = b
             /\ g.at[n].pos = Cardinality(PushedAfter(h, end, b, n))
  <2>1. g.at[n] =
          [table |-> Backup, bucket |-> b,
           pos |-> Cardinality({m \in Moved(h, end) :
                                  /\ Bucket(m[1], h.mBucketsMask) = b
                                  /\ \/ h.at[m].bucket > h.at[n].bucket
                                     \/ /\ h.at[m].bucket = h.at[n].bucket
                                        /\ h.at[m].pos > h.at[n].pos})]
    BY <1>3 DEF moveBuckets, Rehashing, HashType
  <2>2. PushedAfter(h, end, b, n) =
          {m \in Moved(h, end) : /\ Bucket(m[1], h.mBucketsMask) = b
                                 /\ \/ h.at[m].bucket > h.at[n].bucket
                                    \/ /\ h.at[m].bucket = h.at[n].bucket
                                       /\ h.at[m].pos > h.at[n].pos}
    BY DEF PushedAfter, PushedOn, PushedLater
  <2> HIDE DEF g, b
  <2> QED BY <2>1, <2>2
<1>4. ASSUME n \notin Moved(h, end)
      PROVE  /\ g.at[n].table = h.at[n].table /\ g.at[n].bucket = h.at[n].bucket
             /\ g.at[n].pos = IF h.at[n].table = Backup
                              THEN h.at[n].pos + Cardinality(PushedOn(h, end, h.at[n].bucket))
                              ELSE h.at[n].pos
  <2>1. g.at[n] = IF h.at[n].table = Backup
                  THEN [h.at[n] EXCEPT
                          !.pos = @ + Cardinality({m \in Moved(h, end) :
                                    Bucket(m[1], h.mBucketsMask) = h.at[n].bucket})]
                  ELSE h.at[n]
    BY <1>4 DEF moveBuckets, Rehashing, HashType
  <2>2. PushedOn(h, end, h.at[n].bucket) =
          {m \in Moved(h, end) : Bucket(m[1], h.mBucketsMask) = h.at[n].bucket}
    BY DEF PushedOn
  <2> HIDE DEF g
  <2> QED BY <1>1, <2>1, <2>2 DEF Place
<1> QED BY <1>2, <1>3, <1>4

\* The nodes pushed on one bucket are strictly ordered by PushedAfter.
LEMMA PushedRanks ==
  ASSUME NEW h, Rehashing(h), AllLists(h), NEW end, NEW b
  PROVE  LET S == PushedOn(h, end, b)
         IN  /\ IsFiniteSet(S) /\ Cardinality(S) \in Nat
             /\ \A n \in S : /\ Cardinality(PushedAfter(h, end, b, n)) \in Nat
                             /\ Cardinality(PushedAfter(h, end, b, n)) < Cardinality(S)
             /\ \A n, m \in S :
                  Cardinality(PushedAfter(h, end, b, n)) = Cardinality(PushedAfter(h, end, b, m))
                    => n = m
<1> DEFINE S == PushedOn(h, end, b)
           R(n) == PushedAfter(h, end, b, n)
<1>1. \A n \in S : n \in DOMAIN h.at /\ h.at[n] \in Place /\ h.at[n].table = Active
                   /\ h.at[n].bucket \in Nat /\ h.at[n].pos \in Nat
  BY DEF PushedOn, Moved, Rehashing, HashType, Place
<1>2. IsFiniteSet(S) /\ Cardinality(S) \in Nat
  <2>1. S \in SUBSET DOMAIN h.at
    BY <1>1
  <2>2. IsFiniteSet(S)
    BY <2>1, NodesFinite, FS_Subset DEF Rehashing
  <2> QED BY <2>2, FS_CardinalityType
<1>3. \A n \in S : R(n) \in SUBSET S /\ n \notin R(n)
  BY <1>1 DEF PushedAfter, PushedLater
<1>4. \A n \in S : IsFiniteSet(R(n)) /\ Cardinality(R(n)) \in Nat /\ Cardinality(R(n)) < Cardinality(S)
  <2> TAKE n \in S
  <2>1. R(n) \in SUBSET S /\ S # R(n)
    BY <1>3
  <2> HIDE DEF R, S
  <2>2. IsFiniteSet(R(n)) /\ Cardinality(R(n)) <= Cardinality(S) /\ Cardinality(R(n)) # Cardinality(S)
    BY <1>2, <2>1, FS_Subset
  <2>3. Cardinality(R(n)) \in Nat
    BY <2>2, FS_CardinalityType
  <2> QED BY <1>2, <2>2, <2>3
<1>5. ASSUME NEW n \in S, NEW m \in S, PushedLater(h, n, m)
      PROVE  Cardinality(R(m)) < Cardinality(R(n))
  <2>1. m \in R(n) /\ m \notin R(m)
    BY <1>3, <1>5 DEF PushedAfter
  <2>2. R(m) \in SUBSET R(n)
    <3> SUFFICES ASSUME NEW o \in S, PushedLater(h, m, o) PROVE PushedLater(h, n, o)
      BY DEF PushedAfter
    <3> HIDE DEF S
    <3> QED BY <1>1, <1>5 DEF PushedLater
  <2> HIDE DEF R, S
  <2>3. Cardinality(R(m)) <= Cardinality(R(n)) /\ Cardinality(R(m)) # Cardinality(R(n))
    BY <1>4, <2>1, <2>2, FS_Subset
  <2> QED BY <1>4, <2>3
<1>6. ASSUME NEW n \in S, NEW m \in S, n # m
      PROVE  PushedLater(h, n, m) \/ PushedLater(h, m, n)
  <2>1. CASE h.at[n].bucket = h.at[m].bucket
    <3>1. /\ n \in Chain(h, Active, h.at[n].bucket)
          /\ m \in Chain(h, Active, h.at[n].bucket)
          /\ IsList(h, Active, h.at[n].bucket)
      BY <1>1, <2>1 DEF Chain, AllLists, Table
    <3>2. h.at[n].pos # h.at[m].pos
      BY <1>6, <3>1 DEF IsList
    <3> QED BY <1>1, <2>1, <3>2 DEF PushedLater
  <2>2. CASE h.at[n].bucket # h.at[m].bucket
    BY <1>1, <2>2 DEF PushedLater
  <2> QED BY <2>1, <2>2
<1> HIDE DEF S, R
<1>7. \A n, m \in S : Cardinality(R(n)) = Cardinality(R(m)) => n = m
  BY <1>4, <1>5, <1>6
<1> QED BY <1>2, <1>4, <1>7 DEF S, R

\* Migration leaves lists.
LEMMA MoveLists ==
  ASSUME NEW h, Rehashing(h), AllLists(h), NEW end \in h.mRehashIndex .. h.buckets[Active]
  PROVE  AllLists(moveBuckets(h, end))
<1> DEFINE g == moveBuckets(h, end)
<1>1. /\ DOMAIN g.at = DOMAIN h.at
      /\ \A n \in Moved(h, end) :
           /\ n \in DOMAIN h.at /\ h.at[n].table = Active /\ g.at[n].table = Backup
           /\ g.at[n].bucket = Bucket(n[1], h.mBucketsMask)
           /\ g.at[n].pos = Cardinality(PushedAfter(h, end, Bucket(n[1], h.mBucketsMask), n))
      /\ \A n \in DOMAIN h.at \ Moved(h, end) :
           /\ g.at[n].table = h.at[n].table /\ g.at[n].bucket = h.at[n].bucket
           /\ g.at[n].pos = IF h.at[n].table = Backup
                            THEN h.at[n].pos + Cardinality(PushedOn(h, end, h.at[n].bucket))
                            ELSE h.at[n].pos
  <2>1. DOMAIN g.at = DOMAIN h.at
    BY DEF moveBuckets, Rehashing, HashType
  <2>2. \A n \in Moved(h, end) : n \in DOMAIN h.at /\ h.at[n].table = Active
    BY DEF Moved
  <2> HIDE DEF g
  <2> QED BY <2>1, <2>2, MovedPlaces DEF g
<1> HIDE DEF g
<1> SUFFICES ASSUME NEW u \in Table, NEW b \in Nat PROVE IsList(g, u, b)
  BY DEF AllLists, g
<1>2. IsList(h, u, b)
  BY DEF AllLists
<1>3. CASE u = Backup
  <2> DEFINE old == Chain(h, Backup, b)
             new == PushedOn(h, end, b)
  <2>1. Chain(g, Backup, b) = old \union new /\ old \intersect new = {}
    BY <1>1 DEF Chain, PushedOn, Active, Backup
  <2>2. /\ IsFiniteSet(old) /\ Cardinality(old) \in Nat
        /\ \A n \in old : h.at[n].pos \in Nat /\ h.at[n].pos < Cardinality(old)
        /\ \A n, m \in old : h.at[n].pos = h.at[m].pos => n = m
    BY <1>2, <1>3, ChainFinite DEF Rehashing, IsList, Place
  <2>3. /\ IsFiniteSet(new) /\ Cardinality(new) \in Nat
        /\ \A n \in new : g.at[n].pos \in Nat /\ g.at[n].pos < Cardinality(new)
        /\ \A n, m \in new : g.at[n].pos = g.at[m].pos => n = m
    <3>1. \A n \in new : g.at[n].pos = Cardinality(PushedAfter(h, end, b, n))
      BY <1>1 DEF PushedOn
    <3> HIDE DEF new
    <3> QED BY <3>1, PushedRanks DEF new
  <2>4. \A n \in old : g.at[n].pos = h.at[n].pos + Cardinality(new)
    BY <1>1 DEF Chain, Active, Backup
  <2>5. Cardinality(Chain(g, Backup, b)) = Cardinality(old) + Cardinality(new)
    <3> HIDE DEF old, new
    <3>1. Cardinality(old \intersect new) = 0
      BY <2>1, FS_EmptySet
    <3>2. Cardinality(old \union new) =
            Cardinality(old) + Cardinality(new) - Cardinality(old \intersect new)
      BY <2>2, <2>3, FS_Union
    <3> QED BY <2>1, <2>2, <2>3, <3>1, <3>2
  <2> HIDE DEF old, new
  <2>6. \A n \in Chain(g, Backup, b) :
          g.at[n].pos < Cardinality(Chain(g, Backup, b))
    BY <2>1, <2>2, <2>3, <2>4, <2>5
  <2>7. \A n, m \in Chain(g, Backup, b) : g.at[m].pos = g.at[n].pos => m = n
    BY <2>1, <2>2, <2>3, <2>4
  <2> QED BY <1>3, <2>6, <2>7 DEF IsList
<1>4. CASE u = Active
  <2>1. CASE b \in h.mRehashIndex .. (end - 1)
    <3>1. Chain(g, Active, b) = {}
      BY <1>1, <2>1 DEF Chain, Moved, Active, Backup
    <3> QED BY <1>4, <3>1 DEF IsList
  <2>2. CASE b \notin h.mRehashIndex .. (end - 1)
    <3>1. \A n \in Chain(h, Active, b) : n \in DOMAIN h.at \ Moved(h, end)
      BY <2>2 DEF Chain, Moved
    <3>2. Chain(g, Active, b) = Chain(h, Active, b)
      BY <1>1, <3>1 DEF Chain, Active, Backup
    <3>3. \A n \in Chain(h, Active, b) : g.at[n].pos = h.at[n].pos
      BY <1>1, <3>1 DEF Chain, Active, Backup
    <3> QED BY <1>2, <1>4, <3>2, <3>3 DEF IsList
  <2> QED BY <2>1, <2>2
<1> QED BY <1>3, <1>4 DEF Table

\* The swap of the tables moves no node within its chain.
LEMMA CompeleteLists ==
  ASSUME NEW h, Rehashing(h), AllLists(h)
  PROVE  AllLists(compeleteReHashing(h))
<1> DEFINE g == compeleteReHashing(h)
<1>1. /\ DOMAIN g.at = {n \in DOMAIN h.at : h.at[n].table = Backup}
      /\ \A n \in DOMAIN g.at :
           g.at[n].table = Active /\ g.at[n].bucket = h.at[n].bucket /\ g.at[n].pos = h.at[n].pos
  <2>1. /\ DOMAIN g.at = {n \in DOMAIN h.at : h.at[n].table = Backup}
        /\ \A n \in DOMAIN g.at : g.at[n] = [h.at[n] EXCEPT !.table = Active]
    BY DEF compeleteReHashing, Rehashing, HashType
  <2>2. \A n \in DOMAIN h.at : h.at[n] \in Place
    BY DEF Rehashing, HashType
  <2> HIDE DEF g
  <2> QED BY <2>1, <2>2 DEF Place
<1> HIDE DEF g
<1>2. \A b \in Nat : Chain(g, Backup, b) = {}
  BY <1>1 DEF Chain, Active, Backup
<1>3. \A b \in Nat : Chain(g, Active, b) = Chain(h, Backup, b)
  BY <1>1 DEF Chain
<1>4. ASSUME NEW b \in Nat PROVE IsList(g, Active, b)
  <2>1. IsList(h, Backup, b)
    BY DEF AllLists, Table
  <2>2. \A n \in Chain(h, Backup, b) : g.at[n].pos = h.at[n].pos
    BY <1>1 DEF Chain
  <2> QED BY <1>3, <2>1, <2>2 DEF IsList
<1>5. ASSUME NEW b \in Nat PROVE IsList(g, Backup, b)
  BY <1>2 DEF IsList
<1> QED BY <1>4, <1>5 DEF AllLists, Table, g

\* Migrating any number of buckets, to the end or not, leaves lists.
LEMMA MigrateLists ==
  ASSUME NEW h, HashInv(h), isReHashing(h), AllLists(h), NEW step \in Nat
  PROVE  AllLists(migrate(h, step))
<1> DEFINE last == h.buckets[Active]
           end == IF h.mRehashIndex + step < last THEN h.mRehashIndex + step ELSE last
           m == moveBuckets(h, end)
<1>1. Rehashing(h) /\ h.mRehashIndex < last
  BY BetweenCalls
<1>2. h.mRehashIndex \in Nat /\ last \in Nat
  BY <1>1, BucketSizesType DEF Rehashing, HashType, isReHashing
<1>3. end \in h.mRehashIndex .. last
  BY <1>1, <1>2
<1> HIDE DEF end
<1>4. Rehashing(m) /\ AllLists(m)
  BY <1>1, <1>3, MoveBucketsInv, MoveLists
<1> HIDE DEF m
<1> QED BY <1>4, CompeleteLists DEF migrate, end, m

\* So does a call of rehash.
LEMMA RehashLists ==
  ASSUME NEW h, HashInv(h), AllLists(h)
  PROVE  AllLists(rehash(h))
<1> DEFINE s == IF isReHashing(h) THEN h ELSE startReHashing(h)
<1>1. HashInv(s) /\ isReHashing(s)
  BY StartReHashingInv, BetweenCalls
<1>2. AllLists(s)
  <2>1. s.at = h.at
    BY StartReHashingInv
  <2> HIDE DEF s
  <2>2. ASSUME NEW t \in Table, NEW b \in Nat PROVE IsList(s, t, b)
    <3>1. Chain(s, t, b) = Chain(h, t, b)
      BY <2>1 DEF Chain
    <3>2. IsList(h, t, b)
      BY DEF AllLists
    <3> QED BY <2>1, <3>1, <3>2 DEF IsList
  <2> QED BY <2>2 DEF AllLists
<1> HIDE DEF s
<1>3. rehash(h) = migrate(s, calculateReHashStep(s))
  BY DEF rehash, s
<1> QED BY <1>1, <1>2, <1>3, StepType, MigrateLists

\* Erase, with the rehash that a shrink starts.
LEMMA ErasedLists ==
  ASSUME NEW h, HashInv(h), AllLists(h), NEW k \in Key
  PROVE  AllLists(erased(h, k))
<1> DEFINE r == prepared(h)
           n == First(r, Found(h, k))
           e == eraseNode(r, r.at[n].table, n)
<1>1. HashInv(r) /\ DOMAIN r.at = DOMAIN h.at /\ AllLists(r)
  BY PreparedInv, RehashLists DEF prepared
<1>2. CASE Found(h, k) = {}
  BY <1>1, <1>2 DEF erased
<1>3. CASE Found(h, k) # {}
  <2>1. n \in DOMAIN r.at
    BY <1>1, <1>3, FoundNodes
  <2> HIDE DEF r, n
  <2>2. HashInv(e) /\ AllLists(e)
    BY <1>1, <2>1, EraseNodeInv, EraseLists
  <2> HIDE DEF e
  <2>3. erased(h, k) = IF isNeedShrink(e) THEN rehash(e) ELSE e
    BY <1>3 DEF erased, r, n, e
  <2> QED BY <2>2, <2>3, RehashLists
<1> QED BY <1>2, <1>3

\* Every call keeps the chains lists.
LEMMA CallLists ==
  ASSUME HashInv(hash), AllLists(hash), [Next]_vars
  PROVE  AllLists(hash')
<1> DEFINE r == prepared(hash)
<1>0. HashInv(r) /\ AllLists(r) /\ DOMAIN r.at = DOMAIN hash.at
  BY RehashLists, PreparedInv DEF prepared
<1>1. ASSUME NEW k \in Key, NEW v \in Value, Insert(k, v) PROVE AllLists(hash')
  <2> DEFINE n == <<k, v>>
             index == Bucket(k, hash.mBucketsMask)
  <2>1. /\ index \in Nat /\ n \in Entry /\ n \notin DOMAIN r.at /\ index < r.buckets[Newest(r)]
        /\ Newest(r) \in Table
    BY <1>0, <1>1, PreparedInv DEF Insert, Entry, Newest, Table
  <2>2. hash' = insertNode(r, Newest(r), index, n)
    BY <1>1 DEF Insert, inserted, Newest
  <2> HIDE DEF r, index, n
  <2> QED BY <1>0, <2>1, <2>2, InsertLists
<1>2. ASSUME NEW k \in Key, Get(k) \/ IsExist(k) PROVE AllLists(hash')
  BY <1>0, <1>2 DEF Get, IsExist
<1>3. ASSUME NEW k \in Key, Erase(k) PROVE AllLists(hash')
  BY <1>3, ErasedLists DEF Erase
<1>4. CASE Iterate
  <2>1. CASE isReHashing(hash)
    <3>1. hash.buckets[Active] \in Nat
      BY <2>1, BucketSizesType DEF HashInv, RehashShape
    <3> QED BY <1>4, <2>1, <3>1, MigrateLists DEF Iterate, completed
  <2>2. CASE ~ isReHashing(hash)
    BY <1>4, <2>2 DEF Iterate, completed
  <2> QED BY <2>1, <2>2
<1>5. CASE UNCHANGED vars
  BY <1>5 DEF vars
<1> QED BY <1>1, <1>2, <1>3, <1>4, <1>5 DEF Next

\* The chains of both tables are lists after every call: each position up to
\* the last is taken by one node, whatever was linked, moved and unlinked.
THEOREM ChainsHold == Spec => []ChainsAreLists
<1>1. Init => AllLists(hash)
  BY InitInv DEF AllLists, IsList, Chain
<1>2. HashInv(hash) /\ AllLists(hash) /\ [Next]_vars => AllLists(hash)'
  BY CallLists
<1>3. HashInv(hash) /\ AllLists(hash) => ChainsAreLists
  <2> SUFFICES ASSUME HashInv(hash), AllLists(hash), NEW n \in DOMAIN hash.at
               PROVE  {hash.at[m].pos : m \in Chain(hash, hash.at[n].table, hash.at[n].bucket)} =
                        0 .. (Cardinality(Chain(hash, hash.at[n].table, hash.at[n].bucket)) - 1)
    BY DEF ChainsAreLists
  <2>1. hash.at[n].table \in Table /\ hash.at[n].bucket \in Nat
    BY DEF HashInv, HashType, Place
  <2> QED BY <2>1, ListPositions DEF AllLists, HashInv
<1> QED BY <1>1, <1>2, <1>3, Invariant, PTL DEF Spec
=============================================================================
