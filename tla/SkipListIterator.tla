-------------------------- MODULE SkipListIterator --------------------------
(***************************************************************************)
(* The iterators of SkipList (src/src/SkipList.h, src/src/redisIterator.h):*)
(* a loop from begin() to end() or from rbegin() to rend() over a list     *)
(* that is changed meanwhile, even at the node the iterator is at: erase   *)
(* leaves an erased node in memory, with the links it had.                 *)
(*                                                                         *)
(* Queries and setMaxLevel do not touch what an iterator reads, and are    *)
(* left to module SkipList.                                                *)
(***************************************************************************)
EXTENDS SkipList

VARIABLES
  it,        (* The node the iterator points to, NullPtr outside a loop.   *)
  forward,   (* A loop of iterator (++ is next), not of reverse_iterator.  *)
  met,       (* The nodes the loop has met.                                *)
  due        (* History: the nodes in the list since before the loop that  *)
             (* it has not met yet.                                        *)

iterVars == <<it, forward, met, due>>

IterInit == Init /\ it = NullPtr /\ forward = TRUE /\ met = {} /\ due = {}

\* begin() or rbegin().
Begin ==
  /\ call = NoCall
  /\ it = NullPtr
  /\ forward' \in BOOLEAN
  /\ it' = IF forward' THEN mNexts[Head][0] ELSE mBackword[Tail]
  /\ met' = {it'}
  /\ due' = Live \ {it'}
  /\ UNCHANGED vars

\* end() or rend().
End == IF forward THEN Tail ELSE Head

\* operator++: next() or, for a reverse iterator, prev().
Advance ==
  /\ call = NoCall
  /\ it \notin {NullPtr, End}
  /\ it' = IF forward THEN mNexts[it][0] ELSE mBackword[it]
  /\ met' = met \union {it'}
  /\ due' = due \ {it'}
  /\ UNCHANGED <<vars, forward>>

\* After a loop nothing reaches the nodes erased during it.
Finish ==
  /\ call = NoCall
  /\ it = End
  /\ it' = NullPtr /\ forward' = TRUE /\ met' = {} /\ due' = {}
  /\ mKey' = [n \in Live |-> mKey[n]]
  /\ mNexts' = [n \in {Head} \union Live |-> mNexts[n]]
  /\ mSpans' = [n \in {Head} \union Live |-> mSpans[n]]
  /\ mBackword' = [n \in {Tail} \union Live |-> mBackword[n]]
  /\ UNCHANGED <<mMaxLevel, mLength, pos, linked, call, ret>>

\* A call before, in or after a loop.
Call ==
  /\ (\E k \in Key : Insert(k) \/ Erase(k)) \/ Step(it # NullPtr)
  /\ due' = due \intersect DOMAIN pos'
  /\ UNCHANGED <<it, forward, met>>

IterNext == Begin \/ Advance \/ Finish \/ Call

IterSpec == IterInit /\ [][IterNext]_<<vars, iterVars>>

-----------------------------------------------------------------------------

\* A loop meets every node that is in the list from its beginning to its end,
\* whatever is inserted and erased in between.
LoopMeetsAll == it = End => due = {}

\* A loop meets no node twice and keeps the order of keys, over erased nodes too.
LoopKeepsOrder ==
  [][Advance =>
       /\ it' \notin met
       /\ it' \in Node => IF forward THEN mKey[it] <= mKey[it'] ELSE mKey[it] >= mKey[it']
    ]_<<vars, iterVars>>
=============================================================================
