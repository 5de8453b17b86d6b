------------------------- MODULE HashIteratorProofs -------------------------
(***************************************************************************)
(* Proofs about HashIterator, for any keys, values and hash function.      *)
(*                                                                         *)
(* A loop that no rehash disturbs walks one table that stands still.  Two  *)
(* facts about that table carry the proofs: no node is linked after the    *)
(* bucket its key hashes to (LinkedEarly), so that next() only goes        *)
(* forward; and chains are lists (AllLists), so that of two nodes one is   *)
(* before the other.                                                       *)
(***************************************************************************)
EXTENDS HashIterator, HashProofs

\* A misplaced node is linked before the bucket its key hashes to: its index
\* was computed for a smaller table.
LinkedEarly(h) ==
  \A n \in DOMAIN h.at : h.at[n].bucket <= Bucket(n[1], h.buckets[h.at[n].table] - 1)

\* In the order of the walk, m comes after n.
After(h, n, m) ==
  \/ h.at[m].bucket > h.at[n].bucket
  \/ h.at[m].bucket = h.at[n].bucket /\ h.at[m].pos > h.at[n].pos

\* Node n makes the walk jump over the bucket of m.
Hides(h, n, m) ==
  /\ n \in Misplaced(h)
  /\ h.at[n].bucket < h.at[m].bucket
  /\ h.at[m].bucket <= Bucket(n[1], h.mBucketsMask)

\* The watched node is where the loop has not come yet, or where it has been
\* just once, or was jumped over.
Walked ==
  /\ ~ isReHashing(hash)
  /\ watched \in DOMAIN hash.at
  /\ \/ /\ seen = 0
        /\ \/ phase = "looping" /\ After(hash, it, watched)
           \/ \E n \in DOMAIN hash.at : Hides(hash, n, watched)
     \/ /\ seen = 1
        /\ phase = "looping" => watched = it \/ After(hash, watched, it)

LoopState ==
  /\ phase \in {"idle", "looping", "done", "hung"}
  /\ phase = "looping" => it \in DOMAIN hash.at
  /\ phase \in {"looping", "done"} /\ undisturbed => Walked

IterInv == HashInv(hash) /\ AllLists(hash) /\ LinkedEarly(hash) /\ LoopState

-----------------------------------------------------------------------------
(* A larger table never hashes a key to an earlier bucket.                 *)

\* With a smaller mask a key hashes to the same bucket or an earlier one.
LEMMA MaskGrows ==
  ASSUME NEW a \in BucketSizes, NEW b \in BucketSizes, a <= b, NEW k \in Key
  PROVE  Bucket(k, a - 1) <= Bucket(k, b - 1)
<1> DEFINE hash_ == Hasher[k]
           r == hash_ % a
           s == hash_ % b
<1>1. a \in Nat /\ a > 0 /\ b \in Nat /\ b > 0 /\ hash_ \in Nat
  BY BucketSizesType, HashAssumption
<1>2. Bucket(k, a - 1) = r /\ Bucket(k, b - 1) = s
  BY <1>1 DEF Bucket
<1>3. PICK q \in Nat : b = q * a
  BY SmallerDivides
<1>4. PICK x \in Nat : hash_ = a * x + r
  <2> HIDE DEF hash_
  <2> QED BY <1>1, DivisionMakes
<1>5. PICK y \in Nat : hash_ = b * y + s
  <2> HIDE DEF hash_
  <2> QED BY <1>1, DivisionMakes
<1>6. r \in 0 .. (a - 1) /\ s \in 0 .. (b - 1)
  BY <1>1
<1> HIDE DEF r, s, hash_
<1>7. CASE s >= a
  BY <1>1, <1>2, <1>6, <1>7
<1>8. CASE s < a
  <2>1. s \in 0 .. (a - 1)
    BY <1>1, <1>6, <1>8
  <2>2. b * y = a * (q * y) /\ q * y \in Nat
    BY <1>1, <1>3
  <2>3. a * x + r = a * (q * y) + s
    BY <1>4, <1>5, <2>2
  <2> QED BY <1>1, <1>2, <1>6, <2>1, <2>2, <2>3, UniqueRemainder
<1> QED BY <1>1, <1>6, <1>7, <1>8

-----------------------------------------------------------------------------
(* No call links a node after the bucket its key hashes to.                *)

\* Migrated nodes come where their keys hash to.
LEMMA MoveEarly ==
  ASSUME NEW h, Rehashing(h), LinkedEarly(h), NEW end
  PROVE  LinkedEarly(moveBuckets(h, end))
<1> DEFINE g == moveBuckets(h, end)
<1>1. DOMAIN g.at = DOMAIN h.at /\ g.buckets = h.buckets
  BY DEF moveBuckets, Rehashing, HashType
<1> HIDE DEF g
<1> SUFFICES ASSUME NEW n \in DOMAIN h.at
             PROVE  g.at[n].bucket <= Bucket(n[1], g.buckets[g.at[n].table] - 1)
  BY <1>1 DEF LinkedEarly, g
<1>2. CASE n \in Moved(h, end)
  <2>1. g.at[n].table = Backup /\ g.at[n].bucket = Bucket(n[1], h.mBucketsMask)
    BY <1>2, MovedPlaces DEF g
  <2>2. h.mBucketsMask = h.buckets[Backup] - 1 /\ h.mBucketsMask \in Nat
    BY DEF Rehashing, HashType
  <2>3. n[1] \in Key
    BY DEF Rehashing, HashType, Entry
  <2>4. Bucket(n[1], h.mBucketsMask) \in Nat
    BY <2>2, <2>3, BucketInRange
  <2> QED BY <1>1, <2>1, <2>2, <2>4
<1>3. CASE n \notin Moved(h, end)
  BY <1>1, <1>3, MovedPlaces DEF LinkedEarly, g
<1> QED BY <1>2, <1>3

\* The swap of the tables moves no node to another bucket.
LEMMA CompeleteEarly ==
  ASSUME NEW h, Rehashing(h), LinkedEarly(h)
  PROVE  LinkedEarly(compeleteReHashing(h))
<1> DEFINE g == compeleteReHashing(h)
<1>1. /\ g.buckets[Active] = h.buckets[Backup]
      /\ DOMAIN g.at = {n \in DOMAIN h.at : h.at[n].table = Backup}
      /\ \A n \in DOMAIN g.at : g.at[n] = [h.at[n] EXCEPT !.table = Active]
  BY DEF compeleteReHashing, Rehashing, HashType, Table, Active, Backup
<1>2. \A n \in DOMAIN h.at : h.at[n] \in Place
  BY DEF Rehashing, HashType
<1> HIDE DEF g
<1>3. \A n \in DOMAIN g.at : g.at[n].table = Active /\ g.at[n].bucket = h.at[n].bucket
  BY <1>1, <1>2 DEF Place
<1> QED BY <1>1, <1>3 DEF LinkedEarly, g

\* Migrating any number of buckets, to the end or not.
LEMMA MigrateEarly ==
  ASSUME NEW h, HashInv(h), isReHashing(h), LinkedEarly(h), NEW step \in Nat
  PROVE  LinkedEarly(migrate(h, step))
<1> DEFINE last == h.buckets[Active]
           end == IF h.mRehashIndex + step < last THEN h.mRehashIndex + step ELSE last
           m == moveBuckets(h, end)
<1>1. Rehashing(h) /\ h.mRehashIndex < last
  BY BetweenCalls
<1>2. h.mRehashIndex \in Nat /\ last \in Nat
  BY <1>1, BucketSizesType DEF Rehashing, HashType, isReHashing
<1>3. end \in h.mRehashIndex .. last
  BY <1>1, <1>2
<1> HIDE DEF end
<1>4. Rehashing(m) /\ LinkedEarly(m)
  BY <1>1, <1>3, MoveBucketsInv, MoveEarly
<1> HIDE DEF m
<1> QED BY <1>4, CompeleteEarly DEF migrate, end, m

\* A call of rehash; at its start, the nodes stay in mActive.
LEMMA RehashEarly ==
  ASSUME NEW h, HashInv(h), LinkedEarly(h)
  PROVE  LinkedEarly(rehash(h))
<1> DEFINE s == IF isReHashing(h) THEN h ELSE startReHashing(h)
<1>1. HashInv(s) /\ isReHashing(s)
  BY StartReHashingInv, BetweenCalls
<1>2. LinkedEarly(s)
  <2>1. CASE isReHashing(h)
    BY <2>1
  <2>2. CASE ~ isReHashing(h)
    <3>1. s.at = h.at /\ s.buckets[Active] = h.buckets[Active]
      BY <2>2, StartReHashingInv
    <3>2. \A n \in DOMAIN h.at : h.at[n].table = Active
      BY <2>2 DEF HashInv, OneTable
    <3> HIDE DEF s
    <3> QED BY <3>1, <3>2 DEF LinkedEarly
  <2> QED BY <2>1, <2>2
<1> HIDE DEF s
<1>3. rehash(h) = migrate(s, calculateReHashStep(s))
  BY DEF rehash, s
<1> QED BY <1>1, <1>2, <1>3, StepType, MigrateEarly

\* Unlinking a node moves no other to another bucket.
LEMMA EraseEarly ==
  ASSUME NEW h, HashInv(h), LinkedEarly(h), NEW n \in DOMAIN h.at
  PROVE  LinkedEarly(eraseNode(h, h.at[n].table, n))
<1> DEFINE g == eraseNode(h, h.at[n].table, n)
<1>1. DOMAIN g.at = DOMAIN h.at \ {n} /\ g.buckets = h.buckets
  BY DEF eraseNode, HashInv, HashType
<1>2. \A m \in DOMAIN h.at \ {n} :
        g.at[m].table = h.at[m].table /\ g.at[m].bucket = h.at[m].bucket
  BY DEF eraseNode, HashInv, HashType, Place
<1> HIDE DEF g
<1> QED BY <1>1, <1>2 DEF LinkedEarly, g

\* insert links with the mask from before its rehash, which is no larger.
LEMMA InsertedEarly ==
  ASSUME NEW h, HashInv(h), LinkedEarly(h), NEW n \in Entry, n \notin DOMAIN h.at
  PROVE  LinkedEarly(inserted(h, n))
<1> DEFINE r == prepared(h)
           t == Newest(r)
           b == Bucket(n[1], h.mBucketsMask)
           g == insertNode(r, t, b, n)
<1>1. n[1] \in Key
  BY DEF Entry
<1>2. /\ HashInv(r) /\ LinkedEarly(r) /\ DOMAIN r.at = DOMAIN h.at
      /\ h.mBucketsNumber <= r.mBucketsNumber
      /\ b \in Nat /\ b < r.buckets[t]
  BY <1>1, PreparedInv, RehashEarly DEF prepared
<1>3. inserted(h, n) = g
  BY DEF inserted, Newest
<1>4. b <= Bucket(n[1], r.buckets[t] - 1)
  <2>1. h.mBucketsNumber \in BucketSizes /\ h.mBucketsMask = h.mBucketsNumber - 1
    BY DEF HashInv, HashType, RehashShape
  <2>2. r.mBucketsNumber \in BucketSizes /\ r.buckets[t] = r.mBucketsNumber
    BY <1>2 DEF HashInv, HashType, RehashShape, Newest
  <2> HIDE DEF r, t
  <2> QED BY <1>1, <1>2, <2>1, <2>2, MaskGrows
<1> HIDE DEF r, t, b
<1>5. /\ DOMAIN g.at = DOMAIN r.at \union {n} /\ g.buckets = r.buckets
      /\ g.at[n].table = t /\ g.at[n].bucket = b
      /\ \A m \in DOMAIN r.at :
           g.at[m].table = r.at[m].table /\ g.at[m].bucket = r.at[m].bucket
  <2>1. t \in Table
    BY DEF t, Newest, Table
  <2>2. ~ (b >= r.buckets[t])
    BY <1>2, <2>1, BucketSizesType DEF HashInv, HashType
  <2>3. n \notin DOMAIN r.at
    BY <1>2
  <2> QED BY <1>2, <2>2, <2>3 DEF insertNode, HashInv, HashType, Place
<1> HIDE DEF g
<1> QED BY <1>2, <1>3, <1>4, <1>5 DEF LinkedEarly

\* Every call keeps the nodes early.
LEMMA CallEarly ==
  ASSUME HashInv(hash), LinkedEarly(hash), [Next]_vars
  PROVE  LinkedEarly(hash')
<1> DEFINE r == prepared(hash)
<1>1. HashInv(r) /\ LinkedEarly(r) /\ DOMAIN r.at = DOMAIN hash.at
  BY RehashEarly, PreparedInv DEF prepared
<1>2. ASSUME NEW k \in Key, NEW v \in Value, Insert(k, v) PROVE LinkedEarly(hash')
  BY <1>2, InsertedEarly DEF Insert, Entry
<1>3. ASSUME NEW k \in Key, Get(k) \/ IsExist(k) PROVE LinkedEarly(hash')
  BY <1>1, <1>3 DEF Get, IsExist
<1>4. ASSUME NEW k \in Key, Erase(k) PROVE LinkedEarly(hash')
  <2>1. CASE Found(hash, k) = {}
    BY <1>1, <1>4, <2>1 DEF Erase, erased
  <2>2. CASE Found(hash, k) # {}
    <3> DEFINE n == First(r, Found(hash, k))
               e == eraseNode(r, r.at[n].table, n)
    <3>1. n \in DOMAIN r.at
      BY <1>1, <2>2, FoundNodes
    <3>2. HashInv(e) /\ LinkedEarly(e)
      <4> HIDE DEF r, n
      <4> QED BY <1>1, <3>1, EraseNodeInv, EraseEarly
    <3>3. hash' = IF isNeedShrink(e) THEN rehash(e) ELSE e
      BY <1>4, <2>2 DEF Erase, erased
    <3> HIDE DEF e
    <3> QED BY <3>2, <3>3, RehashEarly
  <2> QED BY <2>1, <2>2
<1>5. CASE Iterate
  <2>1. CASE isReHashing(hash)
    <3>1. hash.buckets[Active] \in Nat
      BY <2>1, BucketSizesType DEF HashInv, RehashShape
    <3> QED BY <1>5, <2>1, <3>1, MigrateEarly DEF Iterate, completed
  <2>2. CASE ~ isReHashing(hash)
    BY <1>5, <2>2 DEF Iterate, completed
  <2> QED BY <2>1, <2>2
<1>6. CASE UNCHANGED vars
  BY <1>6 DEF vars
<1> QED BY <1>2, <1>3, <1>4, <1>5, <1>6 DEF Next

-----------------------------------------------------------------------------
(* The walk over a table that stands still.                                *)

\* After is a strict order of the nodes.
LEMMA AfterOrder ==
  ASSUME NEW h, HashInv(h), NEW n \in DOMAIN h.at
  PROVE  /\ ~ After(h, n, n)
         /\ \A m, o \in DOMAIN h.at : After(h, n, m) /\ After(h, m, o) => After(h, n, o)
<1>1. \A m \in DOMAIN h.at : h.at[m].bucket \in Nat /\ h.at[m].pos \in Nat
  BY DEF HashInv, HashType, Place
<1> QED BY <1>1 DEF After

\* First is the node of a chain that all its other nodes come after.
LEMMA FirstOfChain ==
  ASSUME NEW h, HashInv(h), AllLists(h), NEW b \in Nat,
         NEW S \in SUBSET Chain(h, Active, b), S # {}
  PROVE  /\ First(h, S) \in S
         /\ \A m \in S : m = First(h, S) \/ After(h, First(h, S), m)
<1>1. \A n \in S : n \in DOMAIN h.at /\ h.at[n].bucket = b /\ h.at[n].pos \in Nat
  BY DEF Chain, HashInv, HashType, Place
<1>2. First(h, S) \in S
  BY <1>1, FirstInSet DEF HashInv
<1>3. \A m \in S : h.at[First(h, S)].pos <= h.at[m].pos
  <2> DEFINE P == {h.at[n].pos : n \in S}
  <2>1. P \in SUBSET Nat /\ P # {}
    BY <1>1
  <2>2. PICK p \in P : \A q \in P : p <= q
    BY <2>1, LeastNat
  <2>3. \E n \in S : \A m \in S : h.at[n].pos <= h.at[m].pos
    BY <2>2
  <2> QED BY <2>3 DEF First
<1>4. IsList(h, Active, b)
  BY DEF AllLists, Table
<1>5. \A m \in S : m # First(h, S) => h.at[m].pos # h.at[First(h, S)].pos
  BY <1>2, <1>4 DEF IsList
<1> QED BY <1>1, <1>2, <1>3, <1>5 DEF After

\* HeadFrom comes before all nodes from bucket `index' on, if there is one.
LEMMA HeadFromFinds ==
  ASSUME NEW h, HashInv(h), AllLists(h), ~ isReHashing(h), NEW index \in Nat
  PROVE  /\ \/ HeadFrom(h, index) = NoNode
            \/ /\ HeadFrom(h, index) \in DOMAIN h.at
               /\ h.at[HeadFrom(h, index)].bucket >= index
         /\ \A m \in DOMAIN h.at : h.at[m].bucket >= index =>
              /\ HeadFrom(h, index) \in DOMAIN h.at
              /\ m = HeadFrom(h, index) \/ After(h, HeadFrom(h, index), m)
<1> DEFINE filled == {h.at[n].bucket : n \in {m \in DOMAIN h.at : h.at[m].bucket >= index}}
           first == CHOOSE b \in filled : \A c \in filled : b <= c
           head == First(h, Chain(h, Active, first))
<1>1. \A n \in DOMAIN h.at : h.at[n].table = Active /\ h.at[n].bucket \in Nat
  BY DEF HashInv, HashType, Place, OneTable
<1>2. HeadFrom(h, index) = IF filled = {} THEN NoNode ELSE head
  BY DEF HeadFrom
<1>3. CASE filled = {}
  BY <1>2, <1>3
<1>4. CASE filled # {}
  <2>1. filled \in SUBSET Nat
    BY <1>1
  <2>2. first \in filled /\ \A c \in filled : first <= c
    <3>1. \E b \in filled : \A c \in filled : b <= c
      BY <1>4, <2>1, LeastNat
    <3> HIDE DEF filled
    <3> QED BY <3>1
  <2> HIDE DEF first
  <2>3. PICK n \in DOMAIN h.at : h.at[n].bucket = first /\ first >= index
    BY <2>2
  <2>4. first \in Nat /\ Chain(h, Active, first) # {}
    BY <1>1, <2>3 DEF Chain
  <2>5. /\ head \in Chain(h, Active, first)
        /\ \A m \in Chain(h, Active, first) : m = head \/ After(h, head, m)
    <3> HIDE DEF head
    <3> QED BY <2>4, FirstOfChain DEF head
  <2>6. head \in DOMAIN h.at /\ h.at[head].bucket = first
    BY <2>5 DEF Chain
  <2> HIDE DEF head
  <2>7. ASSUME NEW m \in DOMAIN h.at, h.at[m].bucket >= index
        PROVE  m = head \/ After(h, head, m)
    <3>1. h.at[m].bucket \in filled
      BY <2>7
    <3>2. first <= h.at[m].bucket
      BY <2>2, <3>1
    <3>3. CASE h.at[m].bucket = first
      <4>1. m \in Chain(h, Active, first)
        BY <1>1, <3>3 DEF Chain
      <4> QED BY <2>5, <4>1
    <3>4. CASE h.at[m].bucket # first
      BY <1>1, <2>4, <2>6, <3>2, <3>4 DEF After
    <3> QED BY <3>3, <3>4
  <2> HIDE DEF filled
  <2> QED BY <1>2, <1>4, <2>3, <2>6, <2>7
<1> QED BY <1>3, <1>4

\* next only goes forward, and passes over no node but those it jumps over.
LEMMA NextNodeFinds ==
  ASSUME NEW h, HashInv(h), AllLists(h), LinkedEarly(h), ~ isReHashing(h),
         NEW n \in DOMAIN h.at
  PROVE  /\ \/ nextNode(h, n) = NoNode
            \/ nextNode(h, n) \in DOMAIN h.at /\ After(h, n, nextNode(h, n))
         /\ \A m \in DOMAIN h.at : After(h, n, m) =>
              \/ Hides(h, n, m)
              \/ /\ nextNode(h, n) \in DOMAIN h.at
                 /\ m = nextNode(h, n) \/ After(h, nextNode(h, n), m)
<1> DEFINE b == h.at[n].bucket
           behind == {m \in Chain(h, Active, b) : h.at[m].pos > h.at[n].pos}
           index == Bucket(n[1], h.mBucketsMask)
           next == nextNode(h, n)
<1>1. \A m \in DOMAIN h.at :
        h.at[m].table = Active /\ h.at[m].bucket \in Nat /\ h.at[m].pos \in Nat
  BY DEF HashInv, HashType, Place, OneTable
<1>2. index \in Nat /\ b <= index /\ index = Bucket(n[1], h.buckets[Active] - 1)
  <2>1. n[1] \in Key /\ h.mBucketsMask \in Nat /\ h.mBucketsMask = h.buckets[Active] - 1
    BY DEF HashInv, HashType, RehashShape, Entry
  <2> QED BY <1>1, <2>1, BucketInRange DEF LinkedEarly
<1>3. next = IF behind # {} THEN First(h, behind) ELSE HeadFrom(h, index + 1)
  BY DEF nextNode
<1>4. \A m \in DOMAIN h.at : After(h, n, m) => m \in behind \/ h.at[m].bucket > b
  BY <1>1 DEF After, Chain
<1>5. CASE behind # {}
  <2>1. next \in behind /\ \A m \in behind : m = next \/ After(h, next, m)
    <3>1. b \in Nat /\ behind \in SUBSET Chain(h, Active, b)
      BY <1>1
    <3> HIDE DEF behind, b, next
    <3> QED BY <1>3, <1>5, <3>1, FirstOfChain
  <2>2. next \in DOMAIN h.at /\ h.at[next].bucket = b /\ After(h, n, next)
    BY <2>1 DEF After, Chain
  <2> HIDE DEF next, behind
  <2>3. \A m \in DOMAIN h.at : h.at[m].bucket > b => After(h, next, m)
    BY <2>2 DEF After
  <2> QED BY <1>4, <2>1, <2>2, <2>3 DEF next
<1>6. CASE behind = {}
  <2> HIDE DEF index
  <2>1. /\ next = NoNode \/ (next \in DOMAIN h.at /\ h.at[next].bucket >= index + 1)
        /\ \A m \in DOMAIN h.at : h.at[m].bucket >= index + 1 =>
             next \in DOMAIN h.at /\ (m = next \/ After(h, next, m))
    <3>1. index + 1 \in Nat
      BY <1>2
    <3> HIDE DEF next, behind
    <3> QED BY <1>3, <1>6, <3>1, HeadFromFinds
  <2> HIDE DEF next
  <2>2. next \in DOMAIN h.at => (h.at[next].bucket >= index + 1 => After(h, n, next))
    BY <1>1, <1>2 DEF After
  <2>3. ASSUME NEW m \in DOMAIN h.at, After(h, n, m), ~ (h.at[m].bucket >= index + 1)
        PROVE  Hides(h, n, m)
    <3>1. h.at[m].bucket > b /\ h.at[m].bucket <= index
      BY <1>1, <1>2, <1>4, <1>6, <2>3
    <3>2. b # index
      BY <1>1, <1>2, <3>1
    <3>3. n \in Misplaced(h)
      BY <1>1, <1>2, <3>2 DEF Misplaced
    <3> QED BY <1>1, <3>1, <3>3 DEF Hides, index
  <2> QED BY <1>1, <2>1, <2>2, <2>3 DEF next
<1> QED BY <1>5, <1>6

-----------------------------------------------------------------------------
(* The loop.                                                               *)

\* Every step of a loop is a call of the hash table, or leaves it alone.
LEMMA StepIsCall ==
  ASSUME HashInv(hash), LoopState, [IterNext]_<<vars, iterVars>>
  PROVE  [Next]_vars
<1>1. ASSUME Lookup PROVE [Next]_vars
  <2>1. it[1] \in Key
    BY <1>1 DEF Lookup, LoopState, HashInv, HashType, Entry
  <2> QED BY <1>1, <2>1 DEF Lookup, Next
<1>2. CASE Begin \/ Advance
  BY <1>2 DEF Begin, Advance, Next
<1>3. CASE Finish \/ Call \/ UNCHANGED <<vars, iterVars>>
  BY <1>3 DEF Finish, Call, iterVars
<1> QED BY <1>1, <1>2, <1>3 DEF IterNext

\* begin, end and next leave a table that is not in a rehash.
LEMMA CompletedRests ==
  ASSUME NEW h, HashInv(h)
  PROVE  /\ ~ isReHashing(completed(h))
         /\ DOMAIN completed(h).at = DOMAIN h.at
         /\ ~ isReHashing(h) => completed(h) = h
<1> DEFINE last == h.buckets[Active]
           m == moveBuckets(h, last)
<1>1. CASE isReHashing(h)
  <2>1. Rehashing(h) /\ h.mRehashIndex \in Nat /\ last \in Nat /\ h.mRehashIndex < last
    BY <1>1, BetweenCalls, BucketSizesType DEF Rehashing, HashType, isReHashing
  <2>2. completed(h) = compeleteReHashing(m)
    BY <1>1, <2>1 DEF completed, migrate
  <2>3. Rehashing(m) /\ m.mRehashIndex = m.buckets[Active]
    BY <2>1, MoveBucketsInv
  <2> HIDE DEF m
  <2> QED BY <1>1, <2>2, <2>3, CompeleteInv, CompletedInv
<1>2. CASE ~ isReHashing(h)
  BY <1>2 DEF completed
<1> QED BY <1>1, <1>2

\* A loop starts at the first node.
LEMMA BeginKeeps ==
  ASSUME IterInv, HashInv(hash'), AllLists(hash'), Begin
  PROVE  LoopState'
<1>1. /\ HashInv(hash) /\ HashInv(hash') /\ AllLists(hash')
      /\ hash' = completed(hash) /\ it' = HeadFrom(hash', 0)
  BY DEF IterInv, Begin, Iterate
<1>2. ~ isReHashing(hash') /\ DOMAIN hash'.at = DOMAIN hash.at
  BY <1>1, CompletedRests
<1>3. CASE DOMAIN hash.at = {}
  BY <1>3 DEF Begin, LoopState
<1>4. CASE DOMAIN hash.at # {}
  <2>1. phase' = "looping" /\ watched' \in DOMAIN hash'.at
    BY <1>2, <1>4 DEF Begin
  <2>2. hash'.at[watched'].bucket >= 0
    BY <1>1, <2>1 DEF HashInv, HashType, Place
  <2>3. it' \in DOMAIN hash'.at /\ (watched' = it' \/ After(hash', it', watched'))
    BY <1>1, <1>2, <2>1, <2>2, HeadFromFinds
  <2>4. seen' = IF it' = watched' THEN 1 ELSE 0
    BY DEF Begin, Visited
  <2>5. Walked'
    BY <1>2, <2>1, <2>3, <2>4 DEF Walked
  <2> QED BY <2>1, <2>3, <2>5 DEF LoopState
<1> QED BY <1>3, <1>4

\* The loop goes on to the next node.
LEMMA AdvanceKeeps ==
  ASSUME IterInv, HashInv(hash'), AllLists(hash'), LinkedEarly(hash'), Advance
  PROVE  LoopState'
<1>1. /\ HashInv(hash) /\ phase = "looping" /\ it \in DOMAIN hash.at
      /\ hash' = completed(hash) /\ it' = nextNode(hash', it)
      /\ phase' = (IF it' = NoNode THEN "done" ELSE "looping")
  BY DEF IterInv, LoopState, Advance, Iterate
<1>2. ~ isReHashing(hash') /\ it \in DOMAIN hash'.at
  BY <1>1, CompletedRests
<1>3. /\ it' = NoNode \/ (it' \in DOMAIN hash'.at /\ After(hash', it, it'))
      /\ \A m \in DOMAIN hash'.at : After(hash', it, m) =>
           \/ Hides(hash', it, m)
           \/ it' \in DOMAIN hash'.at /\ (m = it' \/ After(hash', it', m))
  BY <1>1, <1>2, NextNodeFinds
<1>4. NoNode \notin DOMAIN hash'.at
  BY IteratorAssumption DEF HashInv, HashType
<1>5. phase' \in {"looping", "done"} /\ (phase' = "looping" <=> it' \in DOMAIN hash'.at)
  BY <1>1, <1>3, <1>4
<1>6. ASSUME undisturbed' PROVE Walked'
  <2>1. Walked /\ watched' = watched /\ seen' = Visited(it', watched, seen)
    BY <1>1, <1>6 DEF IterInv, LoopState, Advance
  <2>2. hash' = hash /\ watched \in DOMAIN hash'.at /\ watched # NoNode
    BY <1>1, <1>4, <2>1, CompletedRests DEF Walked
  <2>3. CASE it' = watched
    <3>1. seen = 0
      <4> SUFFICES ASSUME seen = 1 PROVE FALSE
        BY <2>1 DEF Walked
      <4>1. watched = it \/ After(hash', watched, it)
        BY <1>1, <2>1, <2>2 DEF Walked
      <4>2. After(hash', it, watched)
        BY <1>3, <2>2, <2>3
      <4>3. After(hash', watched, watched)
        BY <1>2, <2>2, <4>1, <4>2, AfterOrder
      <4> QED BY <2>2, <4>3, AfterOrder
    <3>2. seen' = 1
      BY <2>1, <2>3, <3>1 DEF Visited
    <3> QED BY <1>2, <2>1, <2>2, <2>3, <3>2 DEF Walked
  <2>4. CASE it' # watched
    <3>1. seen' = seen
      BY <2>1, <2>4 DEF Visited
    <3>2. CASE seen = 0 /\ After(hash, it, watched)
      <4>1. Hides(hash', it, watched) \/ (it' \in DOMAIN hash'.at /\ After(hash', it', watched))
        BY <1>3, <2>2, <2>4, <3>2
      <4> QED BY <1>2, <1>5, <2>1, <2>2, <3>1, <3>2, <4>1 DEF Walked
    <3>3. CASE seen = 0 /\ \E n \in DOMAIN hash.at : Hides(hash, n, watched)
      BY <1>2, <2>1, <2>2, <3>1, <3>3 DEF Walked
    <3>4. CASE seen = 1
      <4>1. watched = it \/ After(hash', watched, it)
        BY <1>1, <2>1, <2>2, <3>4 DEF Walked
      <4>2. phase' = "looping" => After(hash', watched, it')
        BY <1>2, <1>3, <1>4, <1>5, <2>2, <4>1, AfterOrder
      <4> QED BY <1>2, <2>1, <2>2, <3>1, <3>4, <4>2 DEF Walked
    <3> QED BY <2>1, <3>2, <3>3, <3>4 DEF Walked
  <2> QED BY <2>3, <2>4
<1> QED BY <1>5, <1>6 DEF LoopState

\* A lookup in the body of the loop ends the claim if it starts a rehash.
LEMMA LookupKeeps ==
  ASSUME IterInv, Lookup
  PROVE  LoopState'
<1>1. /\ HashInv(hash) /\ phase = "looping" /\ it \in DOMAIN hash.at
      /\ hash' = prepared(hash)
      /\ UNCHANGED <<it, phase, watched, seen>>
      /\ undisturbed' => undisturbed /\ hash' = hash
  BY DEF IterInv, LoopState, Lookup, Get
<1>2. it' \in DOMAIN hash'.at
  BY <1>1, PreparedInv
<1>3. undisturbed' => Walked'
  BY <1>1 DEF IterInv, LoopState, Walked
<1> QED BY <1>1, <1>2, <1>3 DEF LoopState

\* Between loops nothing is claimed.
LEMMA OutsideKeeps ==
  ASSUME LoopState, Finish \/ Call
  PROVE  LoopState'
  BY DEF LoopState, Finish, Call, iterVars

\* IterInv is inductive: wherever the loop has come in a table that stands
\* still, the watched node is ahead, was met once, or was jumped over.
THEOREM IterInvariant == IterSpec => []IterInv
<1>1. IterInit => IterInv
  <2> SUFFICES ASSUME IterInit PROVE IterInv
    OBVIOUS
  <2>1. HashInv(hash) /\ DOMAIN hash.at = {}
    BY InitInv DEF IterInit
  <2>2. AllLists(hash) /\ LinkedEarly(hash)
    BY <2>1 DEF AllLists, IsList, Chain, LinkedEarly
  <2>3. LoopState
    BY DEF IterInit, LoopState
  <2> QED BY <2>1, <2>2, <2>3 DEF IterInv
<1>2. IterInv /\ [IterNext]_<<vars, iterVars>> => IterInv'
  <2> SUFFICES ASSUME IterInv, [IterNext]_<<vars, iterVars>> PROVE IterInv'
    OBVIOUS
  <2>1. [Next]_vars
    BY StepIsCall DEF IterInv
  <2>2. HashInv(hash') /\ AllLists(hash') /\ LinkedEarly(hash')
    BY <2>1, CallInv, CallLists, CallEarly DEF IterInv
  <2>3. LoopState'
    <3>1. CASE UNCHANGED <<vars, iterVars>>
      BY <3>1 DEF IterInv, LoopState, Walked, vars, iterVars
    <3> QED BY <2>2, <3>1, BeginKeeps, AdvanceKeeps, LookupKeeps, OutsideKeeps
            DEF IterInv, IterNext
  <2> QED BY <2>2, <2>3 DEF IterInv
<1> QED BY <1>1, <1>2, PTL DEF IterSpec

\* What a loop does to the table are calls of the table: all that the theorems
\* of HashProofs say of Spec holds while iterators are used.
THEOREM LoopsAreCalls == IterSpec => Spec
<1>1. IterInit => Init
  BY DEF IterInit
<1>2. IterInv /\ [IterNext]_<<vars, iterVars>> => [Next]_vars
  BY StepIsCall DEF IterInv
<1> QED BY <1>1, <1>2, IterInvariant, PTL DEF IterSpec, Spec

\* A loop that no rehash disturbs meets no entry twice, whatever the hash
\* function and the misplaced nodes.
THEOREM AtMostOnceHolds == IterSpec => []AtMostOnce
<1>1. IterInv => AtMostOnce
  BY DEF IterInv, LoopState, Walked, AtMostOnce
<1> QED BY <1>1, IterInvariant, PTL

\* Such a loop misses an entry only if a misplaced node made next() jump over
\* the bucket of that entry.
THEOREM MissOnlyBehindMisplacedHolds == IterSpec => []MissOnlyBehindMisplaced
<1>1. IterInv => MissOnlyBehindMisplaced
  BY DEF IterInv, LoopState, Walked, Hides, MissOnlyBehindMisplaced
<1> QED BY <1>1, IterInvariant, PTL
=============================================================================
