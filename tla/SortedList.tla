----------------------------- MODULE SortedList -----------------------------
(***************************************************************************)
(* What a client of RedisDataStructure::SkipList relies on: a sorted list  *)
(* of entries that allows equal keys, where                                *)
(*                                                                         *)
(*  - an inserted entry goes behind those of the same key, and erase takes *)
(*    the first of them away;                                              *)
(*  - lower_bound and upper_bound answer the first entry whose key is not  *)
(*    less, or greater, and nothing when the key lies outside the keys in  *)
(*    the list;                                                            *)
(*  - the rank of a key is the position of its last entry, from 1, and 0   *)
(*    when it has none.                                                    *)
(***************************************************************************)
EXTENDS Integers

CONSTANTS
  Key,
  Node,
  Tail,      (* The answer "past the last entry".                          *)
  NullPtr    (* The answer "outside the list".                             *)

VARIABLES
  length,
  at,        (* at[p] is the entry at position p: its node and its key.    *)
  ret        (* The reply to the last call, NoReply while one is running.  *)

listVars == <<length, at, ret>>

Reply(op, k, answer) == [op |-> op, key |-> k, answer |-> answer]
NoReply == Reply("none", 0, 0)

Position == 1 .. length

\* The first position with a key not below, or above, k; one past the last if none has.
FirstAtLeast(k) == CHOOSE p \in 1 .. length + 1 : \A q \in Position : at[q].key < k <=> q < p
FirstAbove(k) == CHOOSE p \in 1 .. length + 1 : \A q \in Position : at[q].key <= k <=> q < p

Has(k) == \E p \in Position : at[p].key = k
InRange(k) == length > 0 /\ at[1].key <= k /\ k <= at[length].key

NodeAt(p) == IF p = length + 1 THEN Tail ELSE at[p].node

-----------------------------------------------------------------------------

Init == length = 0 /\ at = [p \in {} |-> 0] /\ ret = NoReply

Begin == ret' = NoReply /\ UNCHANGED <<length, at>>

Insert(k, n) ==
  /\ ret' = Reply("insert", k, 1)
  /\ \A p \in Position : at[p].node # n
  /\ length' = length + 1
  /\ at' = [p \in 1 .. length + 1 |->
              IF p < FirstAbove(k) THEN at[p]
              ELSE IF p = FirstAbove(k) THEN [node |-> n, key |-> k]
              ELSE at[p - 1]]

Erase(k) ==
  \/ /\ ret' = Reply("erase", k, 1)
     /\ Has(k)
     /\ length' = length - 1
     /\ at' = [p \in 1 .. length - 1 |-> IF p < FirstAtLeast(k) THEN at[p] ELSE at[p + 1]]
  \/ /\ ret' = Reply("erase", k, 0)
     /\ ~Has(k)
     /\ UNCHANGED <<length, at>>

\* A query answers with a node, a position or a mark.
Query(op, k) ==
  /\ ret' \in [op : {op}, key : {k}, answer : Node \union Int]
  /\ UNCHANGED <<length, at>>

\* In an empty list the answer may be either of the two that mean "no entry".
Bound(op, k, p) ==
  /\ Query(op, k)
  /\ \/ InRange(k) /\ ret'.answer = NodeAt(p)
     \/ ~InRange(k) /\ ret'.answer = NullPtr
     \/ length = 0 /\ ret'.answer = Tail

GetRank(k) ==
  /\ Query("getRank", k)
  /\ ret'.answer = IF Has(k) THEN FirstAbove(k) - 1 ELSE 0

Next ==
  \/ Begin
  \/ \E k \in Key :
       \/ \E n \in Node : Insert(k, n)
       \/ Erase(k)
       \/ Bound("lower_bound", k, FirstAtLeast(k))
       \/ Bound("upper_bound", k, FirstAbove(k))
       \/ GetRank(k)

Spec == Init /\ [][Next]_listVars
=============================================================================
