------------------------------- MODULE MCHash -------------------------------
(***************************************************************************)
(* Instances of module Hash for TLC.  Keys are integers below 64, hashed   *)
(* by HashFunction<int>: k ^ 0xdeadbeef.  No table here has more than 64   *)
(* buckets, and the low six bits of the constant are 101111: the operation *)
(* complements every bit of the key that picks a bucket but bit 4.         *)
(***************************************************************************)
EXTENDS Hash

MCHasher ==
  [k \in Key |-> IF (k \div 16) % 2 = 0 THEN 63 - k - 16 ELSE 63 - k + 16]

-----------------------------------------------------------------------------
(* Long runs with the constants of the code.  Keys come in ascending order *)
(* and leave in descending order, so the live keys are 0 .. n - 1; what    *)
(* remains free is how many calls of which kind happen when, which is what *)
(* grows, shrinks and moves the tables.                                    *)

Live == {n[1] : n \in DOMAIN hash.at}

OrderedNext ==
  \/ \E k \in Key, v \in Value : (\A m \in Key : m < k => m \in Live) /\ Insert(k, v)
  \/ \E k \in Live : (\A m \in Live : m <= k) /\ (Erase(k) \/ Get(k))
  \/ Iterate

OrderedSpec == Init /\ [][OrderedNext]_vars
=============================================================================
