------------------------------ MODULE MultiMap ------------------------------
(***************************************************************************)
(* What a client of RedisDataStructure::HashMap is promised, whatever the  *)
(* state of the incremental rehash: a bag of <<key, value>> entries.       *)
(*                                                                         *)
(*  - insert adds exactly the entry it is given, beside those of the same  *)
(*    key (the code never looks for the key before it links a node);       *)
(*  - an answer "found" is truthful: get returns the value of a live entry *)
(*    of that key, and erase removes exactly one live entry of that key;   *)
(*  - nothing else adds or removes an entry.                               *)
(*                                                                         *)
(* An answer "not found" promises nothing here.  The code does answer "not *)
(* found" for live keys (see MissOnlyWhenStale in module Hash for exactly  *)
(* when), so a stronger abstract map would not be implemented.             *)
(***************************************************************************)
CONSTANTS
  Key,
  Value,
  NoValue    (* The value part of a reply that carries none.               *)

VARIABLES
  entries,   (* The live entries, a set of <<key, value>> pairs.           *)
  ret        (* The reply to the last call.                                *)

mapVars == <<entries, ret>>

Reply(op, k, found, v) == [op |-> op, key |-> k, found |-> found, value |-> v]

EntriesOf(k) == {e \in entries : e[1] = k}

Init ==
  /\ entries = {}
  /\ ret = Reply("none", NoValue, FALSE, NoValue)

Insert(k, v) ==
  /\ <<k, v>> \notin entries
  /\ entries' = entries \union {<<k, v>>}
  /\ ret' = Reply("insert", k, TRUE, NoValue)

Get(k) ==
  /\ \/ \E e \in EntriesOf(k) : ret' = Reply("get", k, TRUE, e[2])
     \/ ret' = Reply("get", k, FALSE, NoValue)
  /\ UNCHANGED entries

IsExist(k) ==
  /\ \/ EntriesOf(k) # {} /\ ret' = Reply("isExist", k, TRUE, NoValue)
     \/ ret' = Reply("isExist", k, FALSE, NoValue)
  /\ UNCHANGED entries

Erase(k) ==
  \/ \E e \in EntriesOf(k) :
       /\ entries' = entries \ {e}
       /\ ret' = Reply("erase", k, TRUE, NoValue)
  \/ /\ ret' = Reply("erase", k, FALSE, NoValue)
     /\ UNCHANGED entries

Iterate ==
  /\ ret' = Reply("iterate", NoValue, TRUE, NoValue)
  /\ UNCHANGED entries

Next ==
  \/ \E k \in Key, v \in Value : Insert(k, v)
  \/ \E k \in Key : Get(k) \/ IsExist(k) \/ Erase(k)
  \/ Iterate

Spec == Init /\ [][Next]_mapVars
=============================================================================
