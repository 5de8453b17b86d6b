------------------------------ MODULE HashScan ------------------------------
(***************************************************************************)
(* Hash::scan of src/src/hash.h: a client reads the table one bucket per   *)
(* call, guided by a cursor, while other calls insert, erase and rehash.   *)
(*                                                                         *)
(* The client starts at cursor 0 and stops when scan returns 0.  Whether   *)
(* a scan reports an entry depends on that entry alone, so the module      *)
(* watches one entry, chosen when the scan starts, and counts how often it *)
(* is reported.                                                            *)
(***************************************************************************)
EXTENDS Hash

CONSTANT Bit   (* The values of the bits of an index: 1, 2, 4, ...          *)

\* The numbers of buckets are powers of two: MIN_BUCKETS_SIZE is 4 (hash.h:649).
ASSUME ScanAssumption ==
  /\ Bit \subseteq Nat \ {0}
  /\ \A b \in Bit \ {1} : \E half \in Bit : b = 2 * half
  /\ BucketSizes \subseteq Bit

VARIABLES
  cursor,    (* The cursor the client holds.                               *)
  phase,     (* "idle", "scanning", or "done" when scan has returned 0.    *)
  watched,   (* The watched entry, NoEntry once it was erased.             *)
  seen       (* How often it was pushed on `values', counted up to 2.      *)

scanVars == <<cursor, phase, watched, seen>>

NoEntry == <<NoValue, NoValue>>

-----------------------------------------------------------------------------

\* Bit b of v is one.
IsSet(v, b) == v % (2 * b) >= b

\* Mutant: v + 1, the increment of an ordinary cursor.
RevIncrement_Plain(v, n) == (v + 1) % n

\* v |= ~mask; v = rev(v); v++; v = rev(v): a binary increment from the top bit
\* down of the bits under the mask of n buckets; the others become zero.  The
\* highest bit that is zero becomes one, and those above it become zero.
RevIncrement(v, n) ==
  LET top == CHOOSE b \in Bit :
               /\ b < n /\ ~ IsSet(v, b)
               /\ \A c \in Bit : b < c /\ c < n => IsSet(v, c)
  IN  IF \A b \in Bit : b < n => IsSet(v, b) THEN 0 ELSE (v % top) + top

\* The cursor after i rounds of the do-while loop over a table of n buckets.
Cursors(v, n) ==
  LET next == [w \in Nat |-> RevIncrement(w, n)]
      at[i \in 0 .. n] == IF i = 0 THEN v ELSE next[at[i - 1]]
  IN  at

\* The loop goes on while the bits above those of the small table of n0 buckets
\* are not zero: the buckets it visits, and the cursor it leaves.
Expansions(v, n, n0) ==
  LET at == Cursors(v, n)
      rounds == CHOOSE i \in 1 .. n :
                  /\ at[i] \div n0 = 0
                  /\ \A j \in 1 .. (i - 1) : at[j] \div n0 # 0
  IN  [visited |-> {at[i] % n : i \in 0 .. (rounds - 1)}, cursor |-> at[rounds]]

Smaller(h) ==
  IF h.buckets[Active] > h.buckets[Backup] THEN Backup ELSE Active

\* Mutant: the loop over the larger table reads only its first bucket.
ScanCall_OneBucket(h, v) ==
  LET t0 == Smaller(h)
      t1 == CHOOSE t \in Table : t # t0
  IN  IF ~ isReHashing(h)
      THEN [nodes |-> Chain(h, Active, v % h.buckets[Active]),
            cursor |-> RevIncrement(v, h.buckets[Active])]
      ELSE [nodes |-> Chain(h, t0, v % h.buckets[t0])
                        \union Chain(h, t1, v % h.buckets[t1]),
            cursor |-> RevIncrement(v, h.buckets[t0])]

\* The nodes one call reports, and the cursor it returns.
ScanCall(h, v) ==
  LET t0 == Smaller(h)
      t1 == CHOOSE t \in Table : t # t0
      n0 == h.buckets[t0]
      large == Expansions(v, h.buckets[t1], n0)
  IN  IF h.size[Active] = 0 THEN [nodes |-> {}, cursor |-> 0]
      ELSE IF ~ isReHashing(h)
      THEN [nodes |-> Chain(h, Active, v % h.buckets[Active]),
            cursor |-> RevIncrement(v, h.buckets[Active])]
      ELSE [nodes |-> Chain(h, t0, v % n0)
                        \union UNION {Chain(h, t1, b) : b \in large.visited},
            cursor |-> large.cursor]

-----------------------------------------------------------------------------

ScanInit ==
  /\ Init
  /\ cursor = 0 /\ phase = "idle" /\ watched = NoEntry /\ seen = 0

BeginScan ==
  /\ phase = "idle"
  /\ phase' = "scanning" /\ cursor' = 0 /\ seen' = 0
  /\ watched' \in DOMAIN hash.at
  /\ UNCHANGED vars

Scan ==
  /\ phase = "scanning"
  /\ LET call == ScanCall(hash, cursor)
     IN  /\ cursor' = call.cursor
         /\ phase' = IF call.cursor = 0 THEN "done" ELSE "scanning"
         /\ seen' = IF watched \in call.nodes /\ seen < 2 THEN seen + 1 ELSE seen
  /\ UNCHANGED <<vars, watched>>

EndScan ==
  /\ phase = "done"
  /\ phase' = "idle" /\ watched' = NoEntry /\ seen' = 0
  /\ UNCHANGED <<vars, cursor>>

\* Another call between two calls of scan.  Every get and isExist does the same
\* to the table, prepared(hash): one lookup stands for all.  A watched entry that
\* is erased may or may not have been reported: it is not watched any more.
Call ==
  /\ phase # "done"
  /\ \/ \E k \in Key, v \in Value : Insert(k, v)
     \/ \E k \in Key : Erase(k)
     \/ IsExist(CHOOSE k \in Key : TRUE)
     \/ Iterate
  /\ watched' = IF watched \in DOMAIN hash'.at THEN watched ELSE NoEntry
  /\ UNCHANGED <<cursor, phase, seen>>

ScanNext == BeginScan \/ Scan \/ EndScan \/ Call

\* The client that scans goes on scanning, whatever the others do.
ScanSpec == ScanInit /\ [][ScanNext]_<<vars, scanVars>>
                     /\ WF_<<vars, scanVars>>(Scan) /\ WF_<<vars, scanVars>>(EndScan)

-----------------------------------------------------------------------------

\* hash.h:534, "the scan will not miss any data while rehashing": an entry that
\* is in the table from the start of a scan to its end is reported by it, for
\* all inserts, erases, growths and shrinks in between, and although insert can
\* leave nodes in a bucket their key does not hash to.
ScanMissesNothing == phase = "done" /\ watched # NoEntry => seen >= 1

\* Every scan ends, even if the table changes and rehashes for ever.
ScanEnds == phase = "scanning" ~> phase = "idle"

-----------------------------------------------------------------------------

\* hash.h:537-539, the rehash step makes "the scan do not produce duplicate
\* result": no entry is reported twice by one scan.
ScanRepeatsNothing == phase = "done" => seen <= 1
=============================================================================
