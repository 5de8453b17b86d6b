-------------------------------- MODULE Hash --------------------------------
(***************************************************************************)
(* The hash table with incremental rehash of src/src/hash.h: class Hash    *)
(* and its two HashTable structures, with the operations of HashMap and    *)
(* HashSet.                                                                *)
(*                                                                         *)
(* The C++ object is one value, the record `hash'; a method is an operator *)
(* from such a record to the next one, so that a call that makes several   *)
(* steps (rehash, then link a node, then perhaps rehash again) is one      *)
(* action.  A node is identified by the <<key, value>> pair it holds and   *)
(* is described by where it is linked: the table, the bucket, and its      *)
(* position in the chain (0 is the node mNodes[bucket] points to, p + 1    *)
(* the mNext of the node at p).  HashSet is the case where the value only  *)
(* tells nodes of equal keys apart.                                        *)
(***************************************************************************)
EXTENDS Integers, FiniteSets

CONSTANTS
  Key,
  Value,
  NoValue,           (* The value part of a reply that carries none.       *)
  Hasher,            (* The hash function, [Key -> Nat].                   *)
  MIN_BUCKETS_SIZE,
  BucketSizes,       (* The bucket numbers getNextPower2 can return.       *)
  mLoadFactor,       (* 1 in the code (1.0f).                              *)
  mShrinkDivisor     (* 1 / mShrinkFactor, 10 in the code (0.1f).          *)

Entry == Key \X Value

ASSUME HashAssumption ==
  /\ IsFiniteSet(Entry)
  /\ Hasher \in [Key -> Nat]
  /\ mLoadFactor \in Nat \ {0}
  /\ mShrinkDivisor \in Nat \ {0}
  /\ MIN_BUCKETS_SIZE \in Nat \ {0}

\* BucketSizes is MIN_BUCKETS_SIZE doubled some number of times: every member
\* but the least is twice another one.  It reaches far enough for all entries.
ASSUME BucketSizesAssumption ==
  /\ MIN_BUCKETS_SIZE \in BucketSizes
  /\ BucketSizes \subseteq Nat \ {0}
  /\ \A b \in BucketSizes \ {MIN_BUCKETS_SIZE} :
       \E half \in BucketSizes : b = 2 * half
  /\ \E b \in BucketSizes : Cardinality(Entry) <= b

VARIABLES
  hash,      (* The Hash object.                                           *)
  ret        (* The reply to the last call.                                *)

vars == <<hash, ret>>

-----------------------------------------------------------------------------
(* HashTable.                                                              *)

Active == "mActive"
Backup == "mBackup"
Table == {Active, Backup}

\* Mutant: % with the wrong modulus, one bucket too many.
Bucket_TooMany(k, mask) == Hasher[k] % (mask + 2)

\* mHasher(key) & mask, where mask + 1 is a power of two.
Bucket(k, mask) == Hasher[k] % (mask + 1)

\* The nodes linked in bucket b of table t, and those of them with key k.
Chain(h, t, b) == {n \in DOMAIN h.at : h.at[n].table = t /\ h.at[n].bucket = b}
Matches(h, t, b, k) == {n \in Chain(h, t, b) : n[1] = k}

\* The node of S a walk along the chain meets first.
First(h, S) == CHOOSE n \in S : \A m \in S : h.at[n].pos <= h.at[m].pos

\* Mutant: the new head does not take over the old one as its mNext.
insertNode_NoLink(h, t, b, n) ==
  [h EXCEPT !.size[t] = @ + 1,
            !.at = [m \in DOMAIN h.at \union {n} |->
                      IF m = n THEN [table |-> t, bucket |-> b, pos |-> 0]
                      ELSE h.at[m]]]

\* Link node n at the head of bucket b; an index out of range links nothing.
insertNode(h, t, b, n) ==
  LET chain == Chain(h, t, b)
  IN  IF b >= h.buckets[t] THEN h
      ELSE [h EXCEPT
             !.size[t] = @ + 1,
             !.at = [m \in DOMAIN h.at \union {n} |->
                       IF m = n THEN [table |-> t, bucket |-> b, pos |-> 0]
                       ELSE IF m \in chain THEN [h.at[m] EXCEPT !.pos = @ + 1]
                       ELSE h.at[m]]]

\* Mutant: mSize-- on the other table.
eraseNode_OtherSize(h, t, n) ==
  [h EXCEPT !.size[CHOOSE u \in Table : u # t] = @ - 1,
            !.at = [m \in DOMAIN h.at \ {n} |-> h.at[m]]]

\* Unlink and delete node n of table t.
eraseNode(h, t, n) ==
  LET behind == {m \in Chain(h, t, h.at[n].bucket) : h.at[m].pos > h.at[n].pos}
  IN  [h EXCEPT
        !.size[t] = @ - 1,
        !.at = [m \in DOMAIN h.at \ {n} |->
                  IF m \in behind THEN [h.at[m] EXCEPT !.pos = @ - 1]
                  ELSE h.at[m]]]

-----------------------------------------------------------------------------
(* Incremental rehash.                                                     *)

NotReHashing == -1

isReHashing(h) == h.mRehashIndex # NotReHashing

isNeedReHash(h) == h.size[Active] > h.buckets[Active] * mLoadFactor

isNeedShrink(h) ==
  /\ h.size[Active] > MIN_BUCKETS_SIZE
  /\ h.size[Active] * mShrinkDivisor < h.buckets[Active]

\* The first of MIN_BUCKETS_SIZE, 2 * MIN_BUCKETS_SIZE, ... that is at least s.
getNextPower2(s) ==
  CHOOSE b \in BucketSizes :
    /\ b >= s
    /\ \A c \in BucketSizes : c >= s => b <= c

\* First half of rehash: allocate mBackup and switch to its mask.
startReHashing(h) ==
  LET number == getNextPower2(h.size[Active])
  IN  [h EXCEPT
        !.mBucketsNumber = number,
        !.mBucketsMask = number - 1,
        !.mRehashIndex = 0,
        !.buckets[Backup] = number,
        !.size[Backup] = 0]

calculateReHashStep(h) ==
  LET a == h.buckets[Active]
      b == h.buckets[Backup]
  IN  IF a > b THEN a \div b ELSE b \div a

\* The nodes of the buckets mRehashIndex .. end - 1 of mActive.
Moved(h, end) ==
  {n \in DOMAIN h.at : /\ h.at[n].table = Active
                       /\ h.at[n].bucket \in h.mRehashIndex .. (end - 1)}

\* Push those nodes, bucket by bucket and from the head of each, on the heads
\* of their new buckets: of two that meet there the one moved last comes first.
moveBuckets(h, end) ==
  LET moved == Moved(h, end)
      To(n) == Bucket(n[1], h.mBucketsMask)
      PushedAfter(n) ==
        {m \in moved : /\ To(m) = To(n)
                       /\ \/ h.at[m].bucket > h.at[n].bucket
                          \/ /\ h.at[m].bucket = h.at[n].bucket
                             /\ h.at[m].pos > h.at[n].pos}
      PushedOn(b) == {m \in moved : To(m) = b}
  IN  [h EXCEPT
        !.mRehashIndex = end,
        !.size[Backup] = @ + Cardinality(moved),
        !.at = [n \in DOMAIN h.at |->
                  IF n \in moved
                  THEN [table |-> Backup, bucket |-> To(n),
                        pos |-> Cardinality(PushedAfter(n))]
                  ELSE IF h.at[n].table = Backup
                  THEN [h.at[n] EXCEPT
                          !.pos = @ + Cardinality(PushedOn(h.at[n].bucket))]
                  ELSE h.at[n]]]

\* Swap the tables and delete the old one, with whatever is still linked in it.
compeleteReHashing(h) ==
  [h EXCEPT
    !.mRehashIndex = NotReHashing,
    !.buckets = [t \in Table |-> IF t = Active THEN h.buckets[Backup] ELSE 0],
    !.size = [t \in Table |-> IF t = Active THEN h.size[Backup] ELSE 0],
    !.at = [n \in {m \in DOMAIN h.at : h.at[m].table = Backup} |->
              [h.at[n] EXCEPT !.table = Active]]]

\* Mutant: the rehash is taken for done one bucket early.
migrate_OneShort(h, step) ==
  LET last == h.buckets[Active]
  IN  IF h.mRehashIndex + step >= last - 1
      THEN compeleteReHashing(moveBuckets(h, last - 1))
      ELSE moveBuckets(h, h.mRehashIndex + step)

\* Second half of rehash: migrate `step' more buckets, and finish if that
\* was the last of them.
migrate(h, step) ==
  LET last == h.buckets[Active]
      end == IF h.mRehashIndex + step < last THEN h.mRehashIndex + step ELSE last
  IN  IF end = last THEN compeleteReHashing(moveBuckets(h, end))
      ELSE moveBuckets(h, end)

\* rehash(): start if needed, then migrate the automatic number of buckets.
rehash(h) ==
  LET s == IF isReHashing(h) THEN h ELSE startReHashing(h)
  IN  migrate(s, calculateReHashStep(s))

\* The prologue of begin, end, cbegin, cend and next: force the rehash to
\* complete with rehash(mActive->mBucketsNumber, false).
completed(h) == IF isReHashing(h) THEN migrate(h, h.buckets[Active]) ELSE h

\* Mutant: calls do not carry on a rehash, they only start one.
prepared_NoProgress(h) == IF isNeedReHash(h) THEN rehash(h) ELSE h

\* The prologue of insert, get, isExist and erase.
prepared(h) == IF isReHashing(h) \/ isNeedReHash(h) THEN rehash(h) ELSE h

-----------------------------------------------------------------------------
(* The operations.  Each computes `index' from the mask BEFORE its rehash. *)

\* Mutant: only the new table is searched.
Candidates_NewOnly(r, index, k) ==
  Matches(r, IF isReHashing(r) THEN Backup ELSE Active, index, k)

\* Where get, isExist and erase look: `index' in the new table and, if that
\* has no match, the recomputed index in the old one.
Candidates(r, index, k) ==
  IF ~ isReHashing(r) THEN Matches(r, Active, index, k)
  ELSE IF Matches(r, Backup, index, k) # {} THEN Matches(r, Backup, index, k)
  ELSE Matches(r, Active, Bucket(k, r.buckets[Active] - 1), k)

Found(h, k) == Candidates(prepared(h), Bucket(k, h.mBucketsMask), k)

\* Mutants: insert always links into mActive; insert hashes with the mask of
\* mActive even while it links into mBackup.
inserted_InActive(h, n) ==
  insertNode(prepared(h), Active, Bucket(n[1], h.mBucketsMask), n)
inserted_OldMask(h, n) ==
  LET r == prepared(h)
  IN  insertNode(r, IF isReHashing(r) THEN Backup ELSE Active,
                 Bucket(n[1], h.buckets[Active] - 1), n)

inserted(h, n) ==
  LET index == Bucket(n[1], h.mBucketsMask)
      r == prepared(h)
  IN  insertNode(r, IF isReHashing(r) THEN Backup ELSE Active, index, n)

\* eraseNode of the table the first match is in, then the shrink check.
erased(h, k) ==
  LET r == prepared(h)
      n == First(r, Found(h, k))
      e == eraseNode(r, r.at[n].table, n)
  IN  IF Found(h, k) = {} THEN r
      ELSE IF isNeedShrink(e) THEN rehash(e)
      ELSE e

-----------------------------------------------------------------------------

Reply(op, k, found, v) == [op |-> op, key |-> k, found |-> found, value |-> v]

Init ==
  /\ hash = [mBucketsNumber |-> MIN_BUCKETS_SIZE,
             mBucketsMask |-> MIN_BUCKETS_SIZE - 1,
             mRehashIndex |-> NotReHashing,
             buckets |-> [t \in Table |->
                            IF t = Active THEN MIN_BUCKETS_SIZE ELSE 0],
             size |-> [t \in Table |-> 0],
             at |-> [n \in {} |-> 0]]
  /\ ret = Reply("none", NoValue, FALSE, NoValue)

\* The guard names the node: two live nodes never hold the same pair.
Insert(k, v) ==
  /\ <<k, v>> \notin DOMAIN hash.at
  /\ hash' = inserted(hash, <<k, v>>)
  /\ ret' = Reply("insert", k, TRUE, NoValue)

\* A miss of get is the exception std::out_of_range.
Get(k) ==
  /\ hash' = prepared(hash)
  /\ ret' = IF Found(hash, k) = {} THEN Reply("get", k, FALSE, NoValue)
            ELSE Reply("get", k, TRUE, First(hash', Found(hash, k))[2])

IsExist(k) ==
  /\ hash' = prepared(hash)
  /\ ret' = Reply("isExist", k, Found(hash, k) # {}, NoValue)

Erase(k) ==
  /\ hash' = erased(hash, k)
  /\ ret' = Reply("erase", k, Found(hash, k) # {}, NoValue)

\* begin, end, cbegin, cend and next, for what they do to the table.
Iterate ==
  /\ hash' = completed(hash)
  /\ ret' = Reply("iterate", NoValue, TRUE, NoValue)

Next ==
  \/ \E k \in Key, v \in Value : Insert(k, v)
  \/ \E k \in Key : Get(k)
  \/ \E k \in Key : IsExist(k)
  \/ \E k \in Key : Erase(k)
  \/ Iterate

Spec == Init /\ [][Next]_vars

-----------------------------------------------------------------------------
(* Correctness.                                                            *)

Place == [table : Table, bucket : Nat, pos : Nat]

HashType(h) ==
  /\ h \in [mBucketsNumber : BucketSizes,
            mBucketsMask : Nat,
            mRehashIndex : Nat \union {NotReHashing},
            buckets : [Table -> BucketSizes \union {0}],
            size : [Table -> Nat],
            at : [DOMAIN h.at -> Place]]
  /\ DOMAIN h.at \subseteq Entry

\* The type invariant.
TypeOK ==
  /\ HashType(hash)
  /\ ret \in [op : {"none", "insert", "get", "isExist", "erase", "iterate"},
              key : Key \union {NoValue},
              found : BOOLEAN,
              value : Value \union {NoValue}]

\* The two tables and the bookkeeping of the rehash agree: mBackup exists
\* exactly during a rehash, the mask every caller hashes with is that of the
\* newest table, and the frontier has not passed the end of the old table.
RehashShape(h) ==
  /\ h.mBucketsMask = h.mBucketsNumber - 1
  /\ IF isReHashing(h)
     THEN /\ h.buckets[Backup] = h.mBucketsNumber
          /\ h.buckets[Active] \in BucketSizes
          /\ h.mRehashIndex < h.buckets[Active]
     ELSE /\ h.buckets[Active] = h.mBucketsNumber
          /\ h.buckets[Backup] = 0

\* No node lives in a bucket that the rehash has already emptied, or outside
\* its table: such a node would be dropped when the old table is deleted, or
\* be out of every walk's reach.
NodesInReach(h) ==
  \A n \in DOMAIN h.at :
    /\ h.at[n].bucket < h.buckets[h.at[n].table]
    /\ isReHashing(h) /\ h.at[n].table = Active
         => h.at[n].bucket >= h.mRehashIndex

\* The structural invariant of Hash between two calls.
Structure == RehashShape(hash) /\ NodesInReach(hash)

Linked(h, t) == {n \in DOMAIN h.at : h.at[n].table = t}

\* mSize, which decides when to grow and to shrink, counts the linked nodes.
\* A rehash never subtracts the nodes it moves from the old table's count, so
\* during one that count is only an upper bound.
CountsFit(h) ==
  IF isReHashing(h)
  THEN /\ h.size[Backup] = Cardinality(Linked(h, Backup))
       /\ h.size[Active] >= Cardinality(Linked(h, Active))
  ELSE h.size[Active] = Cardinality(DOMAIN h.at)

SizesCount == CountsFit(hash)

\* The mNext chains are lists: in each, every position up to the last is
\* taken by exactly one node, whatever was linked, moved and unlinked.
ChainsAreLists ==
  \A n \in DOMAIN hash.at :
    LET chain == Chain(hash, hash.at[n].table, hash.at[n].bucket)
    IN  {hash.at[m].pos : m \in chain} = 0 .. (Cardinality(chain) - 1)

\* The nodes that are not in the bucket their key hashes to.
Misplaced(h) ==
  {n \in DOMAIN h.at :
     h.at[n].bucket # Bucket(n[1], h.buckets[h.at[n].table] - 1)}

\* insert may link a node in a bucket its key does not hash to, because it
\* computes the index before rehash() replaces the mask; but a table never
\* holds two such nodes: only the insert that starts a rehash can do it.
OneMisplaced(h) ==
  \A n, m \in Misplaced(h) : h.at[n].table = h.at[m].table => n = m

AtMostOneMisplaced == OneMisplaced(hash)

\* HashTable::get has no bounds check: the index computed with the old mask
\* must be a bucket of the table that is searched after the rehash step.
IndexInBounds ==
  LET r == prepared(hash)
  IN  \A k \in Key :
        /\ Bucket(k, hash.mBucketsMask) <
             r.buckets[IF isReHashing(r) THEN Backup ELSE Active]
        /\ isReHashing(r) => Bucket(k, r.buckets[Active] - 1) < r.buckets[Active]

\* A lookup of a key with a node in its proper bucket fails only in the very
\* call that starts a rehash; in every other call the two-table search finds
\* it, however far the rehash has come.
MissOnlyWhenStale ==
  [][/\ ret'.op \in {"get", "isExist", "erase"}
     /\ ~ ret'.found
     /\ \E n \in DOMAIN hash.at \ Misplaced(hash) : n[1] = ret'.key
     => ~ isReHashing(hash) /\ isNeedReHash(hash)]_vars

\* A rehash keeps pace with the inserts that arrive while it lasts: in every
\* history the newest table holds at most twice its buckets.  (Once is not
\* true: a shrink from 64 to 8 buckets takes 8 calls, enough to overfill 8.)
LoadBounded ==
  Cardinality(DOMAIN hash.at) <= 2 * hash.mBucketsNumber * mLoadFactor

\* The count of mActive does not come to 0 while a rehash lasts, although the
\* erases meanwhile may take the last nodes there: scan takes a count of 0 for an
\* empty table and stops (hash.h:547), whatever mBackup holds.
NeverEmpty == isReHashing(hash) => hash.size[Active] > 0

\* The client's view: whatever the rehash does, calls add and remove exactly
\* the entries they report (see module MultiMap).
M == INSTANCE MultiMap WITH entries <- DOMAIN hash.at
ImplementsMultiMap == M!Spec

-----------------------------------------------------------------------------
(* What the tests expect, and the code does not do.                        *)

\* test/hash_test.cpp:78-92 reads every inserted key back across a rehash:
\* get on a live key returns a value.
GetFindsLiveKey ==
  [][ret'.op = "get" /\ (\E n \in DOMAIN hash.at : n[1] = ret'.key)
     => ret'.found]_vars
=============================================================================
