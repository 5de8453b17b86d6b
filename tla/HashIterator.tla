---------------------------- MODULE HashIterator ----------------------------
(***************************************************************************)
(* The iterators of Hash (src/src/hash.h): begin, end, next and the loop   *)
(*   for (it = begin(); it != end(); it++) { use *it; other calls }        *)
(* of test/hash_test.cpp:108-120.  Every one of begin, end and next first  *)
(* forces a running rehash to complete, so the walk sees one table only.   *)
(* The body of the loop modelled here only looks keys up, which is enough  *)
(* to start a rehash; inserts and erases are made between loops.           *)
(*                                                                         *)
(* As in HashScan, one entry chosen at the start is watched.               *)
(***************************************************************************)
EXTENDS Hash

VARIABLES
  it,          (* The node the iterator points to, NoNode for nullptr.     *)
  phase,       (* "idle", "looping", "done", or "hung" inside begin().     *)
  undisturbed, (* No rehash has run since begin.                           *)
  watched,     (* The watched entry, NoNode once it was erased.            *)
  seen         (* How often *it was the watched entry, counted up to 2.    *)

iterVars == <<it, phase, undisturbed, watched, seen>>

NoNode == <<NoValue, NoValue>>

\* nullptr points to no node.
ASSUME IteratorAssumption == NoNode \notin Entry

-----------------------------------------------------------------------------

\* The head of the first non-empty bucket of mActive from `index' on.
HeadFrom(h, index) ==
  LET filled == {h.at[n].bucket : n \in {m \in DOMAIN h.at : h.at[m].bucket >= index}}
      first == CHOOSE b \in filled : \A c \in filled : b <= c
  IN  IF filled = {} THEN NoNode ELSE First(h, Chain(h, Active, first))

\* Mutant: `index' is not advanced past the bucket just finished.
nextNode_SameBucket(h, n) ==
  LET behind == {m \in Chain(h, Active, h.at[n].bucket) : h.at[m].pos > h.at[n].pos}
  IN  IF behind # {} THEN First(h, behind)
      ELSE HeadFrom(h, Bucket(n[1], h.mBucketsMask))

\* Mutant: the rest of the chain is not walked.
nextNode_HeadsOnly(h, n) == HeadFrom(h, Bucket(n[1], h.mBucketsMask) + 1)

\* next: mNext, or the head of the first non-empty bucket after the one that
\* the KEY of the node hashes to, which need not be the one it is linked in.
nextNode(h, n) ==
  LET behind == {m \in Chain(h, Active, h.at[n].bucket) : h.at[m].pos > h.at[n].pos}
  IN  IF behind # {} THEN First(h, behind)
      ELSE HeadFrom(h, Bucket(n[1], h.mBucketsMask) + 1)

-----------------------------------------------------------------------------

IterInit ==
  /\ Init
  /\ it = NoNode /\ phase = "idle" /\ undisturbed = TRUE
  /\ watched = NoNode /\ seen = 0

\* Reading *it counts a visit of the watched entry.
Visited(n, w, count) == IF n = w /\ count < 2 THEN count + 1 ELSE count

\* begin() on an empty table looks for a bucket head for ever (hash.h:444-446).
Begin ==
  /\ phase = "idle"
  /\ Iterate
  /\ it' = HeadFrom(hash', 0)
  /\ IF DOMAIN hash.at = {}
     THEN phase' = "hung" /\ watched' = NoNode
     ELSE phase' = "looping" /\ watched' \in DOMAIN hash.at
  /\ undisturbed' = TRUE
  /\ seen' = Visited(it', watched', 0)

\* it++, it != end() and *it.
Advance ==
  /\ phase = "looping"
  /\ Iterate
  /\ it' = nextNode(hash', it)
  /\ phase' = IF it' = NoNode THEN "done" ELSE "looping"
  /\ seen' = Visited(it', watched, seen)
  /\ UNCHANGED <<undisturbed, watched>>

Finish ==
  /\ phase = "done"
  /\ phase' = "idle" /\ watched' = NoNode /\ seen' = 0 /\ undisturbed' = TRUE
  /\ UNCHANGED <<vars, it>>

\* A lookup in the body of the loop, of the key the iterator is at.
Lookup ==
  /\ phase = "looping"
  /\ Get(it[1])
  /\ undisturbed' = (undisturbed /\ hash' = hash)
  /\ UNCHANGED <<it, phase, watched, seen>>

\* Calls outside a loop.
Call == phase = "idle" /\ Next /\ UNCHANGED iterVars

IterNext == Begin \/ Advance \/ Finish \/ Lookup \/ Call

IterSpec == IterInit /\ [][IterNext]_<<vars, iterVars>>
                     /\ WF_<<vars, iterVars>>(Advance)

-----------------------------------------------------------------------------

\* A loop during which no rehash runs meets no entry twice: misplaced nodes make
\* next() jump, but only forward.
AtMostOnce == phase \in {"looping", "done"} /\ undisturbed => seen <= 1

\* What such a loop misses is exactly behind a misplaced node: next() continues
\* from the bucket that node's key hashes to, and skips the buckets between it
\* and the one the node is linked in.
MissOnlyBehindMisplaced ==
  phase = "done" /\ undisturbed /\ seen = 0 =>
    \E n \in Misplaced(hash) :
      /\ hash.at[n].bucket < hash.at[watched].bucket
      /\ hash.at[watched].bucket <= Bucket(n[1], hash.mBucketsMask)

\* A loop ends: the lookups in its body start at most one rehash, and every
\* it++ after that moves to a later node.
LoopEnds == phase = "looping" ~> phase = "done"

-----------------------------------------------------------------------------

\* hash.h:535-537, the iterator "will forece compelete rehash", where that of
\* Redis "will break the iterator process if rehash happens": with all nodes in
\* their buckets, the loop meets every entry although a rehash ran meanwhile.
RehashDoesNotBreakLoop == phase = "done" /\ Misplaced(hash) = {} => seen = 1
=============================================================================
