----------------------------- MODULE MCHashScan -----------------------------
(***************************************************************************)
(* Instances of HashScan for TLC; the hash function is that of MCHash.     *)
(***************************************************************************)
EXTENDS HashScan

MCHasher ==
  [k \in Key |-> IF (k \div 16) % 2 = 0 THEN 63 - k - 16 ELSE 63 - k + 16]
=============================================================================
