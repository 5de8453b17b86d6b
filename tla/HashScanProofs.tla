--------------------------- MODULE HashScanProofs ---------------------------
(***************************************************************************)
(* Proofs about HashScan, for any keys, values and hash function.          *)
(*                                                                         *)
(* A cursor stands for all the hashes that come before it when bits are    *)
(* compared from the lowest up (Before).  Each call of scan reports the    *)
(* nodes of all hashes by which it advances its cursor, in one table or in *)
(* two; and wherever calls move a node, the scan has not passed it before  *)
(* it is reported.                                                         *)
(***************************************************************************)
EXTENDS HashScan, HashProofs

\* Of the bits in which x and v differ, the lowest is set in v.
Before(x, v) ==
  \E b \in Bit : x % b = v % b /\ ~ IsSet(x, b) /\ IsSet(v, b)

-----------------------------------------------------------------------------
(* Bits.                                                                   *)

\* The remainder by a divisor of the modulus is that of the whole.
LEMMA ModMultiple ==
  ASSUME NEW x \in Nat, NEW a \in Nat, a > 0, NEW n \in Nat, n > 0, \E q \in Nat : n = q * a
  PROVE  (x % n) % a = x % a
<1>0. PICK q \in Nat : n = q * a
  OBVIOUS
<1> DEFINE r == x % n
           s == r % a
           t == x % a
<1>1. r \in Nat /\ s \in 0 .. (a - 1) /\ t \in 0 .. (a - 1)
  OBVIOUS
<1>2. PICK y \in Nat : x = n * y + r
  BY DivisionMakes
<1>3. PICK z \in Nat : r = a * z + s
  <2> HIDE DEF r
  <2> QED BY <1>1, DivisionMakes
<1>4. PICK w \in Nat : x = a * w + t
  BY DivisionMakes
<1> HIDE DEF r, s, t
<1>5. q * y + z \in Nat /\ a * (q * y + z) + s = a * w + t
  <2>1. n * y = a * (q * y) /\ a * (q * y + z) = a * (q * y) + a * z
    BY <1>0
  <2> QED BY <1>1, <1>2, <1>3, <1>4, <2>1
<1>6. s <= t
  BY <1>1, <1>5, UniqueRemainder
<1>7. t <= s
  BY <1>1, <1>5, UniqueRemainder
<1> QED BY <1>1, <1>6, <1>7 DEF s, t, r

LEMMA BitType == \A b \in Bit : b \in Nat /\ b > 0
  BY ScanAssumption

\* A bit of a higher value is a multiple of twice this one.
LEMMA BitsDouble ==
  \A b \in Bit : \A a \in Bit : a < b => \E q \in Nat : b = q * (2 * a)
<1> DEFINE Good(b) == \A a \in Bit : a < b => \E q \in Nat : b = q * (2 * a)
           bad == {b \in Bit : ~ Good(b)}
<1> SUFFICES ASSUME bad # {} PROVE FALSE
  OBVIOUS
<1>1. PICK b \in bad : \A c \in bad : b <= c
  <2>1. bad \in SUBSET Nat
    BY BitType
  <2> HIDE DEF bad
  <2> QED BY <2>1, LeastNat
<1>2. b \in Bit /\ b \in Nat /\ ~ Good(b)
  BY BitType
<1>3. PICK a \in Bit : a < b /\ ~ \E q \in Nat : b = q * (2 * a)
  BY <1>2
<1>4. a \in Nat /\ a > 0
  BY BitType
<1>5. PICK half \in Bit : b = 2 * half
  BY <1>2, <1>3, <1>4, ScanAssumption
<1>6. half \in Nat /\ half > 0 /\ half < b
  BY <1>5, BitType
<1>7. Good(half) /\ Good(a)
  <2>1. half \notin bad /\ a \notin bad
    <3> HIDE DEF bad
    <3> QED BY <1>1, <1>2, <1>3, <1>4, <1>6
  <2> HIDE DEF Good
  <2> QED BY <2>1
<1>8. CASE half = a
  <2>1. b = 1 * (2 * a)
    BY <1>4, <1>5, <1>8
  <2> QED BY <1>3, <2>1
<1>9. CASE a < half
  <2>1. PICK q \in Nat : half = q * (2 * a)
    BY <1>7, <1>9
  <2>2. b = (2 * q) * (2 * a) /\ 2 * q \in Nat
    BY <1>4, <1>5, <2>1
  <2> QED BY <1>3, <2>2
<1>10. CASE half < a
  <2>1. PICK q \in Nat : a = q * b
    BY <1>5, <1>7, <1>10
  <2>2. q # 0
    BY <1>2, <1>4, <2>1
  <2>3. 1 * b <= q * b
    BY <1>2, <2>2, TimesGrows
  <2> QED BY <1>2, <1>3, <1>4, <2>1, <2>3
<1> QED BY <1>4, <1>6, <1>8, <1>9, <1>10

\* What bit b adds to the bits below it.
LEMMA BitAdds ==
  ASSUME NEW x \in Nat, NEW b \in Bit
  PROVE  /\ x % b \in Nat /\ x % b < b /\ x % (2 * b) \in Nat
         /\ x % (2 * b) = IF IsSet(x, b) THEN (x % b) + b ELSE x % b
<1>1. b \in Nat /\ b > 0 /\ 2 * b \in Nat /\ 2 * b > 0
  BY BitType
<1> DEFINE r == x % (2 * b)
<1>2. r \in 0 .. (2 * b - 1) /\ x % b \in 0 .. (b - 1)
  BY <1>1
<1>3. r % b = x % b
  <2>1. \E q \in Nat : 2 * b = q * b
    OBVIOUS
  <2> QED BY <1>1, <2>1, ModMultiple
<1>4. r % b = IF r >= b THEN r - b ELSE r
  <2> HIDE DEF r
  <2>1. PICK y \in Nat : r = b * y + (r % b)
    BY <1>1, <1>2, DivisionMakes
  <2>2. r % b \in 0 .. (b - 1)
    BY <1>1, <1>2
  <2>3. CASE r >= b
    <3>1. r = b * 1 + (r - b) /\ r - b \in 0 .. (b - 1)
      BY <1>1, <1>2, <2>3
    <3>2. (r - b) <= r % b /\ r % b <= r - b
      BY <1>1, <2>1, <2>2, <3>1, UniqueRemainder
    <3> QED BY <2>2, <2>3, <3>1, <3>2
  <2>4. CASE r < b
    <3>1. r = b * 0 + r /\ r \in 0 .. (b - 1)
      BY <1>1, <1>2, <2>4
    <3>2. r <= r % b /\ r % b <= r
      BY <1>1, <2>1, <2>2, <3>1, UniqueRemainder
    <3> QED BY <1>1, <1>2, <2>2, <2>4, <3>2
  <2> QED BY <1>1, <1>2, <2>3, <2>4
<1> QED BY <1>1, <1>2, <1>3, <1>4 DEF IsSet

\* Numbers below a bit do not have it.
LEMMA BelowBit ==
  ASSUME NEW x \in Nat, NEW b \in Bit, x < b
  PROVE  x % b = x /\ ~ IsSet(x, b)
<1>1. b \in Nat /\ b > 0 /\ 2 * b \in Nat
  BY BitType
<1>2. x % b = x /\ x % (2 * b) = x
  BY <1>1, SMTT(30)
<1> QED BY <1>1, <1>2 DEF IsSet

\* Numbers that agree modulo n have the same bits below n.
LEMMA AgreeBelow ==
  ASSUME NEW x \in Nat, NEW y \in Nat, NEW n \in Bit, NEW b \in Bit, b < n, x % n = y % n
  PROVE  x % b = y % b /\ (IsSet(x, b) <=> IsSet(y, b))
<1>1. /\ n \in Nat /\ n > 0 /\ b \in Nat /\ b > 0 /\ 2 * b \in Nat /\ 2 * b > 0
  BY BitType
<1>2. \E q \in Nat : n = q * (2 * b)
  BY BitsDouble
<1>3. \E q \in Nat : n = q * b
  <2>1. PICK q \in Nat : n = q * (2 * b)
    BY <1>2
  <2>2. 2 * q \in Nat /\ n = (2 * q) * b
    BY <1>1, <2>1
  <2> QED BY <2>2
<1>4. x % b = (x % n) % b /\ y % b = (y % n) % b
  BY <1>1, <1>3, ModMultiple
<1>5. x % (2 * b) = (x % n) % (2 * b) /\ y % (2 * b) = (y % n) % (2 * b)
  BY <1>1, <1>2, ModMultiple
<1> QED BY <1>4, <1>5 DEF IsSet

\* Numbers that do not agree differ first in one bit.
LEMMA DifferFirst ==
  ASSUME NEW x \in Nat, NEW y \in Nat, NEW n \in Bit, x % n # y % n
  PROVE  \E b \in Bit : b < n /\ x % b = y % b /\ (IsSet(x, b) <=> ~ IsSet(y, b))
<1> DEFINE D == {c \in Bit : x % c # y % c}
<1>1. PICK c \in D : \A d \in D : c <= d
  <2>1. D \in SUBSET Nat /\ D # {}
    BY BitType
  <2> HIDE DEF D
  <2> QED BY <2>1, LeastNat
<1>2. c \in Bit /\ c \in Nat /\ n \in Nat /\ c <= n /\ x % c # y % c
  BY <1>1, BitType
<1>3. c # 1
  <2>1. x % 1 = 0 /\ y % 1 = 0
    OBVIOUS
  <2> QED BY <1>2, <2>1
<1>4. PICK b \in Bit : c = 2 * b
  BY <1>2, <1>3, ScanAssumption
<1>5. b \in Nat /\ b < c
  BY <1>4, BitType
<1>6. x % b = y % b
  BY <1>1, <1>5, <1>2
<1>7. IsSet(x, b) <=> ~ IsSet(y, b)
  BY <1>2, <1>4, <1>6, BitAdds
<1> QED BY <1>2, <1>5, <1>6, <1>7

-----------------------------------------------------------------------------
(* One increment of a cursor.                                              *)

\* The top zero bit becomes one, and the bits above it zero.
LEMMA IncrementFacts ==
  ASSUME NEW v \in Nat, NEW n \in Bit
  PROVE  LET w == RevIncrement(v, n)
         IN  /\ w \in Nat /\ w < n
             /\ \/ w = 0 /\ \A b \in Bit : b < n => IsSet(v, b)
                \/ /\ w # 0
                   /\ \E top \in Bit :
                        /\ top < n /\ ~ IsSet(v, top)
                        /\ \A c \in Bit : top < c /\ c < n => IsSet(v, c)
                        /\ w = (v % top) + top
                        /\ w % top = v % top /\ IsSet(w, top)
                        /\ \A c \in Bit : top < c => ~ IsSet(w, c)
<1> DEFINE w == RevIncrement(v, n)
           IsTop(b) == /\ b < n /\ ~ IsSet(v, b)
                       /\ \A c \in Bit : b < c /\ c < n => IsSet(v, c)
           top == CHOOSE b \in Bit : IsTop(b)
<1>1. w = IF \A b \in Bit : b < n => IsSet(v, b) THEN 0 ELSE (v % top) + top
  BY DEF RevIncrement
<1>2. n \in Nat /\ n > 0
  BY BitType
<1>3. CASE \A b \in Bit : b < n => IsSet(v, b)
  BY <1>1, <1>2, <1>3
<1>4. CASE \E b \in Bit : b < n /\ ~ IsSet(v, b)
  <2> DEFINE Room == {n - b : b \in {c \in Bit : c < n /\ ~ IsSet(v, c)}}
  <2>1. Room \in SUBSET Nat /\ Room # {}
    <3>1. \A b \in Bit : b < n => n - b \in Nat
      BY <1>2, BitType
    <3> QED BY <1>4, <3>1
  <2>2. PICK room \in Room : \A r \in Room : room <= r
    <3> HIDE DEF Room
    <3> QED BY <2>1, LeastNat
  <2>3. PICK b \in Bit : b < n /\ ~ IsSet(v, b) /\ room = n - b
    BY <2>2
  <2>4. \A c \in Bit : b < c /\ c < n => IsSet(v, c)
    <3> SUFFICES ASSUME NEW c \in Bit, b < c, c < n, ~ IsSet(v, c) PROVE FALSE
      OBVIOUS
    <3>1. n - c \in Room
      OBVIOUS
    <3> HIDE DEF Room
    <3>2. room <= n - c /\ b \in Nat /\ c \in Nat
      BY <2>2, <3>1, BitType
    <3> QED BY <1>2, <2>3, <3>2
  <2>5. IsTop(b)
    BY <2>3, <2>4
  <2> HIDE DEF IsTop
  <2>6. top \in Bit /\ IsTop(top)
    BY <2>5
  <2>7. w = (v % top) + top
    BY <1>1, <1>4
  <2> HIDE DEF top
  <2>8. /\ top \in Nat /\ top > 0 /\ top < n /\ ~ IsSet(v, top)
        /\ \A c \in Bit : top < c /\ c < n => IsSet(v, c)
    BY <2>6, BitType DEF IsTop
  <2>9. v % top \in Nat /\ v % top < top
    BY <2>6, BitAdds
  <2> HIDE DEF w
  <2>10. w \in Nat /\ w # 0 /\ w >= top /\ w < 2 * top
    BY <2>7, <2>8, <2>9
  <2>11. w % top = v % top /\ IsSet(w, top)
    <3>1. w % (2 * top) = w
      BY <2>8, <2>10, SMTT(30)
    <3>2. IsSet(w, top)
      BY <2>10, <3>1 DEF IsSet
    <3>3. w % (2 * top) = (w % top) + top /\ w % top \in Nat
      BY <2>6, <2>10, <3>2, BitAdds
    <3> QED BY <2>7, <2>8, <2>9, <3>1, <3>2, <3>3
  <2>12. \A c \in Bit : top < c => w < c /\ 2 * top <= c
    <3> SUFFICES ASSUME NEW c \in Bit, top < c PROVE w < c /\ 2 * top <= c
      OBVIOUS
    <3>1. PICK q \in Nat : c = q * (2 * top)
      BY <2>6, BitsDouble
    <3>2. c \in Nat /\ q # 0
      BY <2>8, <3>1, BitType
    <3>3. 1 * (2 * top) <= q * (2 * top)
      BY <2>8, <3>2, TimesGrows
    <3> QED BY <2>8, <2>10, <3>1, <3>2, <3>3
  <2>13. \A c \in Bit : top < c => ~ IsSet(w, c)
    BY <2>10, <2>12, BelowBit
  <2>14. w < n
    BY <2>8, <2>12
  <2> QED BY <2>6, <2>7, <2>8, <2>10, <2>11, <2>13, <2>14 DEF w
<1> QED BY <1>3, <1>4

\* The hashes that a cursor passes by an increment are those of one bucket.
LEMMA IncrementPasses ==
  ASSUME NEW v \in Nat, NEW n \in Bit, NEW x \in Nat,
         RevIncrement(v, n) = 0 \/ Before(x, RevIncrement(v, n))
  PROVE  Before(x, v) \/ x % n = v % n
<1> DEFINE w == RevIncrement(v, n)
<1>1. w \in Nat
  BY IncrementFacts
<1>2. CASE \A b \in Bit : b < n => IsSet(v, b)
  <2> SUFFICES ASSUME x % n # v % n PROVE Before(x, v)
    OBVIOUS
  <2>1. PICK b \in Bit : b < n /\ x % b = v % b /\ (IsSet(x, b) <=> ~ IsSet(v, b))
    BY DifferFirst
  <2> QED BY <1>2, <2>1 DEF Before
<1>3. CASE w # 0
  <2>1. PICK top \in Bit :
          /\ top < n /\ ~ IsSet(v, top)
          /\ \A c \in Bit : top < c /\ c < n => IsSet(v, c)
          /\ w % top = v % top /\ IsSet(w, top)
          /\ \A c \in Bit : top < c => ~ IsSet(w, c)
    BY <1>3, IncrementFacts
  <2> HIDE DEF w
  <2>2. PICK b \in Bit : x % b = w % b /\ ~ IsSet(x, b) /\ IsSet(w, b)
    BY <1>3 DEF Before, w
  <2>3. b \in Nat /\ top \in Nat /\ n \in Nat /\ b <= top
    BY <2>1, <2>2, BitType
  <2>4. CASE b < top
    <3>1. w % b = v % b /\ (IsSet(w, b) <=> IsSet(v, b))
      BY <1>1, <2>1, <2>4, AgreeBelow
    <3> QED BY <2>2, <3>1 DEF Before
  <2>5. CASE b = top
    <3> SUFFICES ASSUME x % n # v % n PROVE Before(x, v)
      OBVIOUS
    <3>1. PICK c \in Bit : c < n /\ x % c = v % c /\ (IsSet(x, c) <=> ~ IsSet(v, c))
      BY DifferFirst
    <3>2. x % top = v % top /\ ~ IsSet(x, top)
      BY <2>1, <2>2, <2>5
    <3>3. c \in Nat /\ top < c
      <4>1. c # top
        BY <2>1, <3>1, <3>2
      <4>2. ~ (c < top)
        BY <2>1, <3>1, <3>2, AgreeBelow
      <4> QED BY <2>3, <4>1, <4>2, BitType
    <3>4. IsSet(v, c)
      BY <2>1, <3>1, <3>3
    <3> QED BY <3>1, <3>4 DEF Before
  <2> QED BY <2>3, <2>4, <2>5
<1>4. CASE w = 0
  BY <1>2, <1>4, IncrementFacts
<1> QED BY <1>3, <1>4

-----------------------------------------------------------------------------
(* The loop over the larger table.                                         *)

\* The recursion of Cursors is well founded.
LEMMA CursorsFacts ==
  ASSUME NEW v \in Nat, NEW n \in Bit
  PROVE  LET at == Cursors(v, n)
         IN  /\ at[0] = v
             /\ \A i \in 1 .. n : at[i] = RevIncrement(at[i - 1], n)
             /\ \A i \in 0 .. n : at[i] \in Nat
             /\ \A i \in 1 .. n : at[i] < n
<1> DEFINE next == [w \in Nat |-> RevIncrement(w, n)]
           Trace(f, k) == f = [i \in 0 .. k |-> IF i = 0 THEN v ELSE next[f[i - 1]]]
           bad == {k \in Nat : ~ \E f : Trace(f, k)}
           at == Cursors(v, n)
<1>1. bad = {}
  <2> SUFFICES ASSUME bad # {} PROVE FALSE
    OBVIOUS
  <2>1. PICK k \in bad : \A j \in bad : k <= j
    <3>1. bad \in SUBSET Nat
      OBVIOUS
    <3> HIDE DEF bad
    <3> QED BY <3>1, LeastNat
  <2>2. k \in Nat /\ ~ \E f : Trace(f, k)
    BY <2>1
  <2>3. k # 0
    <3>1. Trace([i \in 0 .. 0 |-> v], 0)
      OBVIOUS
    <3> QED BY <2>2, <3>1
  <2>4. k - 1 \in Nat /\ k - 1 \notin bad
    <3>1. k - 1 \in Nat /\ ~ (k <= k - 1)
      BY <2>2, <2>3
    <3> HIDE DEF bad
    <3> QED BY <2>1, <3>1
  <2>5. PICK f : Trace(f, k - 1)
    BY <2>4
  <2> DEFINE g == [i \in 0 .. k |-> IF i = k THEN next[f[k - 1]] ELSE f[i]]
  <2> HIDE DEF next
  <2>6. \A i \in 0 .. k : g[i] = IF i = 0 THEN v ELSE next[g[i - 1]]
    <3> SUFFICES ASSUME NEW i \in 0 .. k PROVE g[i] = IF i = 0 THEN v ELSE next[g[i - 1]]
      OBVIOUS
    <3>1. CASE i = k
      <4>1. g[i] = next[f[k - 1]] /\ g[i - 1] = f[k - 1] /\ i # 0
        BY <2>2, <2>3, <3>1
      <4> QED BY <3>1, <4>1
    <3>2. CASE i < k
      <4>1. i \in 0 .. (k - 1) /\ g[i] = f[i]
        BY <2>2, <3>2
      <4>2. f[i] = IF i = 0 THEN v ELSE next[f[i - 1]]
        BY <2>5, <4>1
      <4>3. i # 0 => g[i - 1] = f[i - 1]
        BY <2>2, <3>2
      <4> QED BY <4>1, <4>2, <4>3
    <3> QED BY <2>2, <3>1, <3>2
  <2>7. Trace(g, k)
    BY <2>6
  <2> QED BY <2>2, <2>7
<1>2. n \in Nat /\ n > 0
  BY BitType
<1>3. Trace(at, n)
  <2>1. at = CHOOSE f : Trace(f, n)
    BY DEF Cursors
  <2>2. \E f : Trace(f, n)
    <3>1. n \notin bad
      BY <1>1
    <3> QED BY <1>2, <3>1
  <2> HIDE DEF Trace, at
  <2> QED BY <2>1, <2>2
<1> HIDE DEF at, bad
<1>4. at[0] = v /\ \A i \in 1 .. n : at[i] = next[at[i - 1]]
  <2> HIDE DEF next
  <2> QED BY <1>2, <1>3
<1>5. \A i \in 0 .. n : at[i] \in Nat
  <2> DEFINE wrong == {i \in 0 .. n : at[i] \notin Nat}
  <2> SUFFICES ASSUME wrong # {} PROVE FALSE
    OBVIOUS
  <2>1. PICK i \in wrong : \A j \in wrong : i <= j
    <3>1. wrong \in SUBSET Nat
      BY <1>2
    <3> HIDE DEF wrong
    <3> QED BY <3>1, LeastNat
  <2>2. i \in 1 .. n /\ at[i - 1] \in Nat
    <3>1. i # 0
      BY <1>4, <2>1
    <3>2. i \in 1 .. n /\ i - 1 \in 0 .. n /\ ~ (i <= i - 1)
      BY <1>2, <2>1, <3>1
    <3>3. i - 1 \notin wrong
      <4> HIDE DEF wrong
      <4> QED BY <2>1, <3>2
    <3> QED BY <3>2, <3>3
  <2>3. at[i] = RevIncrement(at[i - 1], n)
    BY <1>4, <2>2
  <2> QED BY <2>1, <2>2, <2>3, IncrementFacts
<1>6. \A i \in 1 .. n : i - 1 \in 0 .. n /\ at[i] = RevIncrement(at[i - 1], n)
  <2> SUFFICES ASSUME NEW i \in 1 .. n
               PROVE  i - 1 \in 0 .. n /\ at[i] = RevIncrement(at[i - 1], n)
    OBVIOUS
  <2>1. i - 1 \in 0 .. n
    BY <1>2
  <2>2. at[i] = next[at[i - 1]] /\ at[i - 1] \in Nat
    BY <1>4, <1>5, <2>1
  <2> QED BY <2>1, <2>2
<1>7. \A i \in 1 .. n : at[i] < n
  BY <1>5, <1>6, IncrementFacts
<1> QED BY <1>4, <1>5, <1>6, <1>7 DEF at

\* An increment that does not come round passes one hash more.
LEMMA IncrementAdvances ==
  ASSUME NEW v \in Nat, NEW n \in Bit, v < n, RevIncrement(v, n) # 0
  PROVE  /\ Before(v, RevIncrement(v, n))
         /\ \A x \in 0 .. (n - 1) : Before(x, v) => Before(x, RevIncrement(v, n))
         /\ ~ Before(v, v)
<1> DEFINE w == RevIncrement(v, n)
<1>1. PICK top \in Bit : /\ top < n /\ ~ IsSet(v, top)
                         /\ w % top = v % top /\ IsSet(w, top)
  BY IncrementFacts
<1>2. w \in Nat /\ n \in Nat /\ top \in Nat
  BY BitType, IncrementFacts
<1> HIDE DEF w
<1>3. Before(v, w)
  BY <1>1 DEF Before
<1>4. ASSUME NEW x \in 0 .. (n - 1), Before(x, v)
      PROVE  Before(x, w)
  <2>1. PICK b \in Bit : x % b = v % b /\ ~ IsSet(x, b) /\ IsSet(v, b)
    BY <1>4 DEF Before
  <2>2. x \in Nat /\ b \in Nat /\ b # top
    BY <1>1, <1>2, <2>1, BitType
  <2>3. CASE b < top
    <3>1. w % b = v % b /\ (IsSet(w, b) <=> IsSet(v, b))
      BY <1>1, <1>2, <2>3, AgreeBelow
    <3> QED BY <2>1, <3>1 DEF Before
  <2>4. CASE top < b
    <3>1. x % top = v % top /\ (IsSet(x, top) <=> IsSet(v, top))
      BY <2>1, <2>2, <2>4, AgreeBelow
    <3> QED BY <1>1, <3>1 DEF Before
  <2> QED BY <1>2, <2>2, <2>3, <2>4
<1> QED BY <1>3, <1>4 DEF Before, w

\* The loop ends: each round passes one bucket of the larger table more.
LEMMA LoopEnds ==
  ASSUME NEW v \in Nat, NEW n \in Bit, NEW n0 \in Bit
  PROVE  LET at == Cursors(v, n)
         IN  \E i \in 1 .. n : /\ at[i] \div n0 = 0
                               /\ \A j \in 1 .. (i - 1) : at[j] \div n0 # 0
<1> DEFINE at == Cursors(v, n)
           ends == {i \in 1 .. n : at[i] \div n0 = 0}
           Passed(i) == {x \in 0 .. (n - 1) : Before(x, at[i])}
<1>1. n \in Nat /\ n > 0 /\ n0 \in Nat /\ n0 > 0
  BY BitType
<1>2. /\ \A i \in 1 .. n : at[i] = RevIncrement(at[i - 1], n)
      /\ \A i \in 0 .. n : at[i] \in Nat
      /\ \A i \in 1 .. n : at[i] < n
  BY CursorsFacts
<1> HIDE DEF at
<1>3. \A i \in 0 .. n : IsFiniteSet(Passed(i)) /\ Cardinality(Passed(i)) \in Nat
  <2>1. IsFiniteSet(0 .. (n - 1))
    BY <1>1, FS_Interval
  <2> QED BY <2>1, FS_Subset, FS_CardinalityType
<1>4. ends # {}
  <2> SUFFICES ASSUME ends = {} PROVE FALSE
    OBVIOUS
  <2>1. \A i \in 1 .. n : at[i] # 0
    <3>1. 0 \div n0 = 0
      BY <1>1
    <3> QED BY <3>1
  <2>2. \A i \in 1 .. n : Cardinality(Passed(i)) >= i
    <3> DEFINE few == {i \in 1 .. n : ~ (Cardinality(Passed(i)) >= i)}
    <3> SUFFICES ASSUME few # {} PROVE FALSE
      OBVIOUS
    <3>1. PICK i \in few : \A j \in few : i <= j
      <4>1. few \in SUBSET Nat
        OBVIOUS
      <4> HIDE DEF few
      <4> QED BY <4>1, LeastNat
    <3>2. i \in 1 .. n /\ Cardinality(Passed(i)) \in Nat /\ Cardinality(Passed(i)) < i
      BY <1>3, <3>1
    <3>3. CASE i = 1
      <4>1. at[1] \in Nat /\ at[1] < n /\ at[1] # 0
        BY <1>1, <1>2, <2>1
      <4>2. 0 % n # at[1] % n
        BY <1>1, <4>1, SMTT(30)
      <4>3. PICK b \in Bit : 0 % b = at[1] % b /\ (IsSet(0, b) <=> ~ IsSet(at[1], b))
        BY <4>1, <4>2, DifferFirst
      <4>4. b \in Nat /\ 0 < b
        BY BitType
      <4>5. ~ IsSet(0, b)
        BY <4>4, BelowBit
      <4>6. 0 \in Passed(1)
        BY <1>1, <4>3, <4>5 DEF Before
      <4>7. Passed(1) # {}
        BY <4>6
      <4> HIDE DEF Passed
      <4> QED BY <1>3, <3>2, <3>3, <4>7, FS_EmptySet
    <3>4. CASE i # 1
      <4>1. i - 1 \in 1 .. n /\ i - 1 \notin few
        <5>1. i - 1 \in 1 .. n /\ ~ (i <= i - 1)
          BY <1>1, <3>2, <3>4
        <5> HIDE DEF few
        <5> QED BY <3>1, <5>1
      <4> DEFINE u == at[i - 1]
      <4>2. u \in Nat /\ u < n /\ at[i] = RevIncrement(u, n) /\ at[i] # 0
        BY <1>2, <2>1, <3>2, <4>1
      <4>3. /\ Before(u, at[i]) /\ ~ Before(u, u)
            /\ \A x \in 0 .. (n - 1) : Before(x, u) => Before(x, at[i])
        BY <4>2, IncrementAdvances
      <4>4. Passed(i - 1) \subseteq Passed(i) /\ u \in Passed(i) /\ u \notin Passed(i - 1)
        BY <1>1, <4>2, <4>3
      <4>5. Cardinality(Passed(i - 1)) >= i - 1 /\ Cardinality(Passed(i - 1)) \in Nat
        <5>1. i - 1 \in 0 .. n
          BY <1>1, <4>1
        <5> HIDE DEF Passed
        <5> QED BY <1>3, <4>1, <5>1
      <4> HIDE DEF Passed, few, u
      <4>6. Cardinality(Passed(i - 1)) < Cardinality(Passed(i))
        <5>1. Passed(i - 1) # Passed(i)
          BY <4>4
        <5>2. IsFiniteSet(Passed(i)) /\ Cardinality(Passed(i)) \in Nat
          BY <1>3, <3>2
        <5>3. /\ Cardinality(Passed(i - 1)) <= Cardinality(Passed(i))
              /\ Cardinality(Passed(i - 1)) = Cardinality(Passed(i)) => Passed(i - 1) = Passed(i)
          BY <4>4, <5>2, FS_Subset
        <5> QED BY <4>5, <5>1, <5>2, <5>3
      <4> QED BY <1>1, <3>2, <4>5, <4>6
    <3> QED BY <3>3, <3>4
  <2>3. at[n] \in 0 .. (n - 1) /\ ~ Before(at[n], at[n])
    BY <1>1, <1>2 DEF Before
  <2>4. Passed(n) \subseteq 0 .. (n - 1) /\ Passed(n) # 0 .. (n - 1)
    BY <2>3
  <2> HIDE DEF Passed
  <2>5. IsFiniteSet(0 .. (n - 1)) /\ Cardinality(0 .. (n - 1)) = n
    <3>1. IsFiniteSet(0 .. (n - 1))
          /\ Cardinality(0 .. (n - 1)) = IF 0 > n - 1 THEN 0 ELSE (n - 1) - 0 + 1
      BY <1>1, FS_Interval
    <3> QED BY <1>1, <3>1
  <2>6. /\ Cardinality(Passed(n)) <= Cardinality(0 .. (n - 1))
        /\ Cardinality(Passed(n)) = Cardinality(0 .. (n - 1)) => Passed(n) = 0 .. (n - 1)
    BY <2>4, <2>5, FS_Subset
  <2>7. n \in 1 .. n /\ n \in 0 .. n
    BY <1>1
  <2> QED BY <1>1, <1>3, <2>2, <2>4, <2>5, <2>6, <2>7
<1>5. PICK i \in ends : \A j \in ends : i <= j
  <2>1. ends \in SUBSET Nat
    OBVIOUS
  <2> HIDE DEF ends
  <2> QED BY <1>4, <2>1, LeastNat
<1>6. \A j \in 1 .. (i - 1) : at[j] \div n0 # 0
  <2> SUFFICES ASSUME NEW j \in 1 .. (i - 1), at[j] \div n0 = 0 PROVE FALSE
    OBVIOUS
  <2>1. j \in ends /\ i \in 1 .. n
    BY <1>1, <1>5
  <2>2. i <= j
    <3> HIDE DEF ends
    <3> QED BY <1>5, <2>1
  <2> QED BY <2>1, <2>2
<1> QED BY <1>5, <1>6 DEF at

\* An increment that carries into the bits above n0 leaves those below alone.
LEMMA KeepsLow ==
  ASSUME NEW v \in Nat, NEW n \in Bit, NEW n0 \in Bit, RevIncrement(v, n) >= n0
  PROVE  RevIncrement(v, n) % n0 = v % n0
<1> DEFINE w == RevIncrement(v, n)
<1>1. w \in Nat /\ w # 0 /\ n0 \in Nat /\ n0 > 0
  BY BitType, IncrementFacts
<1>2. PICK top \in Bit : w = (v % top) + top /\ w % top = v % top
  BY <1>1, IncrementFacts
<1>3. top \in Nat /\ top > 0 /\ v % top \in Nat /\ v % top < top
  BY BitType, BitAdds
<1> HIDE DEF w
<1>4. ~ (top < n0)
  <2> SUFFICES ASSUME top < n0 PROVE FALSE
    OBVIOUS
  <2>1. PICK q \in Nat : n0 = q * (2 * top)
    BY BitsDouble
  <2>2. q # 0
    BY <1>1, <1>3, <2>1
  <2>3. 1 * (2 * top) <= q * (2 * top)
    BY <1>3, <2>2, TimesGrows
  <2>4. w >= n0
    BY DEF w
  <2> QED BY <1>1, <1>2, <1>3, <2>1, <2>3, <2>4
<1>5. CASE top = n0
  BY <1>2, <1>5 DEF w
<1>6. CASE n0 < top
  BY <1>1, <1>2, <1>6, AgreeBelow DEF w
<1> QED BY <1>1, <1>3, <1>4, <1>5, <1>6

\* An increment that does not is that of a cursor of the table of n0 buckets.
LEMMA SameIncrement ==
  ASSUME NEW c \in Nat, NEW v \in Nat, NEW n \in Bit, NEW n0 \in Bit, n0 <= n,
         c % n0 = v % n0, RevIncrement(c, n) < n0
  PROVE  RevIncrement(c, n) = RevIncrement(v, n0)
<1> DEFINE w == RevIncrement(c, n)
           w0 == RevIncrement(v, n0)
           IsTop(t) == /\ t < n0 /\ ~ IsSet(v, t)
                       /\ \A b \in Bit : t < b /\ b < n0 => IsSet(v, b)
                       /\ w0 = (v % t) + t
<1>1. w \in Nat /\ w0 \in Nat /\ n0 \in Nat /\ n \in Nat
  BY BitType, IncrementFacts
<1> HIDE DEF w0
<1>2. \A b \in Bit : b < n0 =>
        b < n /\ b \in Nat /\ c % b = v % b /\ (IsSet(c, b) <=> IsSet(v, b))
  <2> SUFFICES ASSUME NEW b \in Bit, b < n0
               PROVE  b < n /\ b \in Nat /\ c % b = v % b /\ (IsSet(c, b) <=> IsSet(v, b))
    OBVIOUS
  <2>1. b < n /\ b \in Nat
    BY <1>1, BitType
  <2> QED BY <2>1, AgreeBelow
<1>3. w0 # 0 => \E t \in Bit : IsTop(t)
  BY IncrementFacts DEF w0
<1>4. w0 = 0 => \A b \in Bit : b < n0 => IsSet(v, b)
  <2>1. ASSUME w0 = 0, ~ \A b \in Bit : b < n0 => IsSet(v, b) PROVE FALSE
    BY <2>1, IncrementFacts DEF w0
  <2> QED BY <2>1
<1>5. CASE w = 0
  <2>1. \A b \in Bit : b < n => IsSet(c, b)
    BY <1>5, IncrementFacts
  <2>2. w0 = 0
    BY <1>2, <1>3, <2>1
  <2> QED BY <1>5, <2>2 DEF w, w0
<1>6. CASE w # 0
  <2>1. PICK top \in Bit : /\ top < n /\ ~ IsSet(c, top)
                           /\ \A b \in Bit : top < b /\ b < n => IsSet(c, b)
                           /\ w = (c % top) + top
    BY <1>6, IncrementFacts
  <2>2. top \in Nat /\ c % top \in Nat /\ w < n0
    BY BitType, BitAdds
  <2> HIDE DEF w
  <2>3. top < n0
    BY <1>1, <2>1, <2>2
  <2>4. ~ IsSet(v, top) /\ c % top = v % top
    BY <1>2, <2>1, <2>3
  <2>5. w0 # 0
    BY <1>4, <2>3, <2>4
  <2>6. PICK t0 \in Bit : IsTop(t0)
    <3> HIDE DEF IsTop
    <3> QED BY <1>3, <2>5
  <2>7. t0 \in Nat /\ ~ (t0 < top) /\ ~ (top < t0)
    BY <1>2, <2>1, <2>3, <2>4, <2>6
  <2>8. t0 = top
    BY <2>2, <2>7
  <2>9. w = w0
    BY <2>1, <2>4, <2>6, <2>8
  <2> QED BY <2>9 DEF w, w0
<1> QED BY <1>5, <1>6

\* The loop over the larger table leaves the cursor an increment in the small
\* one would leave, and visits the buckets of all hashes it passes.
LEMMA ExpansionsFacts ==
  ASSUME NEW v \in Nat, NEW n \in Bit, NEW n0 \in Bit, n0 <= n
  PROVE  LET large == Expansions(v, n, n0)
         IN  /\ large.cursor = RevIncrement(v, n0)
             /\ \A x \in Nat : large.cursor = 0 \/ Before(x, large.cursor) =>
                                 Before(x, v) \/ x % n \in large.visited
<1> DEFINE at == Cursors(v, n)
           Ends(i) == at[i] \div n0 = 0 /\ \A j \in 1 .. (i - 1) : at[j] \div n0 # 0
           rounds == CHOOSE i \in 1 .. n : Ends(i)
<1>1. n \in Nat /\ n > 0 /\ n0 \in Nat /\ n0 > 0
  BY BitType
<1>2. /\ at[0] = v
      /\ \A i \in 1 .. n : at[i] = RevIncrement(at[i - 1], n)
      /\ \A i \in 0 .. n : at[i] \in Nat
      /\ \A i \in 1 .. n : at[i] < n
  BY CursorsFacts
<1>3. \E i \in 1 .. n : Ends(i)
  BY LoopEnds
<1>4. Expansions(v, n, n0) = [visited |-> {at[i] % n : i \in 0 .. (rounds - 1)},
                              cursor |-> at[rounds]]
  BY DEF Expansions
<1> HIDE DEF at, Ends
<1>5. rounds \in 1 .. n /\ Ends(rounds)
  BY <1>3
<1> HIDE DEF rounds
<1>6. \A i \in 1 .. n : /\ i - 1 \in 0 .. n /\ i - 1 \in Nat /\ i \in 0 .. n
                        /\ at[i - 1] \in Nat /\ at[i] \in Nat
  <2> SUFFICES ASSUME NEW i \in 1 .. n
               PROVE  /\ i - 1 \in 0 .. n /\ i - 1 \in Nat /\ i \in 0 .. n
                      /\ at[i - 1] \in Nat /\ at[i] \in Nat
    OBVIOUS
  <2>1. i - 1 \in 0 .. n /\ i - 1 \in Nat /\ i \in 0 .. n
    BY <1>1
  <2> QED BY <1>2, <2>1
<1>7. \A i \in 1 .. n : (at[i] \div n0 = 0) <=> at[i] < n0
  <2> SUFFICES ASSUME NEW i \in 1 .. n PROVE (at[i] \div n0 = 0) <=> at[i] < n0
    OBVIOUS
  <2> DEFINE y == at[i]
  <2>1. y \in Nat
    BY <1>6
  <2> HIDE DEF y
  <2>2. (y \div n0 = 0) <=> y < n0
    BY <1>1, <2>1, SMTT(30)
  <2> QED BY <2>2 DEF y
<1>8. \A i \in 0 .. (rounds - 1) : at[i] % n0 = v % n0
  <2> DEFINE bad == {i \in 0 .. (rounds - 1) : at[i] % n0 # v % n0}
  <2> SUFFICES ASSUME bad # {} PROVE FALSE
    OBVIOUS
  <2>1. PICK i \in bad : \A j \in bad : i <= j
    <3>1. bad \in SUBSET Nat
      OBVIOUS
    <3> HIDE DEF bad
    <3> QED BY <3>1, LeastNat
  <2>2. i \in 0 .. (rounds - 1) /\ at[i] % n0 # v % n0 /\ i # 0
    BY <1>2, <2>1
  <2>3. i \in 1 .. n /\ i \in 1 .. (rounds - 1) /\ i - 1 \in 0 .. (rounds - 1) /\ ~ (i <= i - 1)
    BY <1>1, <1>5, <2>2
  <2>4. i - 1 \notin bad
    <3> HIDE DEF bad
    <3> QED BY <2>1, <2>3
  <2>5. at[i - 1] % n0 = v % n0
    BY <2>3, <2>4
  <2>6. at[i] >= n0
    <3>1. at[i] \div n0 # 0
      BY <1>5, <2>3 DEF Ends
    <3> QED BY <1>1, <1>6, <1>7, <2>3, <3>1
  <2>7. at[i] = RevIncrement(at[i - 1], n) /\ at[i - 1] \in Nat
    BY <1>2, <1>6, <2>3
  <2>8. RevIncrement(at[i - 1], n) >= n0
    BY <2>6, <2>7
  <2>9. RevIncrement(at[i - 1], n) % n0 = at[i - 1] % n0
    BY <2>7, <2>8, KeepsLow
  <2> QED BY <2>2, <2>5, <2>7, <2>9
<1>9. at[rounds] = RevIncrement(v, n0)
  <2>1. rounds - 1 \in 0 .. (rounds - 1)
    BY <1>1, <1>5
  <2>2. at[rounds - 1] % n0 = v % n0
    BY <1>8, <2>1
  <2>3. at[rounds] = RevIncrement(at[rounds - 1], n) /\ at[rounds - 1] \in Nat
    BY <1>2, <1>5, <1>6
  <2>4. RevIncrement(at[rounds - 1], n) < n0
    BY <1>5, <1>7, <2>3 DEF Ends
  <2> QED BY <2>2, <2>3, <2>4, SameIncrement
<1>10. ASSUME NEW x \in Nat, at[rounds] = 0 \/ Before(x, at[rounds]), ~ Before(x, v)
       PROVE  \E i \in 0 .. (rounds - 1) : x % n = at[i] % n
  <2> DEFINE late == {i \in 1 .. rounds : at[i] = 0 \/ Before(x, at[i])}
  <2>1. PICK i \in late : \A j \in late : i <= j
    <3>1. late \in SUBSET Nat /\ rounds \in late
      BY <1>1, <1>5, <1>10
    <3> HIDE DEF late
    <3> QED BY <3>1, LeastNat
  <2>2. i \in 1 .. n /\ i \in 1 .. rounds /\ i - 1 \in 0 .. (rounds - 1)
    BY <1>1, <1>5, <2>1
  <2>3. ~ Before(x, at[i - 1])
    <3>1. CASE i = 1
      BY <1>2, <1>10, <3>1
    <3>2. CASE i # 1
      <4>1. i - 1 \in 1 .. rounds /\ ~ (i <= i - 1)
        BY <1>1, <1>5, <2>2, <3>2
      <4>2. i - 1 \notin late
        <5> HIDE DEF late
        <5> QED BY <2>1, <4>1
      <4> QED BY <4>1, <4>2
    <3> QED BY <3>1, <3>2
  <2>4. at[i] = RevIncrement(at[i - 1], n) /\ at[i - 1] \in Nat /\ (at[i] = 0 \/ Before(x, at[i]))
    BY <1>2, <1>6, <2>1, <2>2
  <2>5. x % n = at[i - 1] % n
    BY <2>3, <2>4, IncrementPasses
  <2> QED BY <2>2, <2>5
<1>11. \A x \in Nat : at[rounds] = 0 \/ Before(x, at[rounds]) =>
         Before(x, v) \/ x % n \in {at[i] % n : i \in 0 .. (rounds - 1)}
  BY <1>10
<1> QED BY <1>4, <1>9, <1>11

-----------------------------------------------------------------------------
(* Where the scan has passed.                                              *)

\* Every node is in the bucket its key hashes to under the mask of some table.
LinkedByIndex(h) ==
  \A n \in DOMAIN h.at : \E a \in BucketSizes : h.at[n].bucket = Bucket(n[1], a - 1)

\* The hash under which a scan comes to a node: its own or, in a bucket its key
\* does not hash to, the bucket's number.
Spot(h, n) == IF n \in Misplaced(h) THEN h.at[n].bucket ELSE Hasher[n[1]]

\* The nodes a scan with cursor v has passed.
Behind(h, v) == {n \in DOMAIN h.at : Before(Spot(h, n), v)}

\* A number whose upper bits are taken away comes before all it came before.
LEMMA BeforeMasked ==
  ASSUME NEW x \in Nat, NEW v \in Nat, NEW a \in Bit, Before(x, v)
  PROVE  Before(x % a, v)
<1> DEFINE y == x % a
           D == {d \in Bit : y % (2 * d) # v % (2 * d)}
<1>1. a \in Nat /\ a > 0 /\ y \in Nat /\ y < a
  BY BitType
<1>2. y % a = x % a
  BY <1>1, SMTT(30)
<1> HIDE DEF y
<1>3. PICK c \in Bit : x % c = v % c /\ ~ IsSet(x, c) /\ IsSet(v, c)
  BY DEF Before
<1>4. \A b \in Bit : b < a => y % b = x % b /\ (IsSet(y, b) <=> IsSet(x, b))
  BY <1>1, <1>2, AgreeBelow
<1>5. \A b \in Bit : ~ (b < a) => ~ IsSet(y, b)
  <2> SUFFICES ASSUME NEW b \in Bit, ~ (b < a) PROVE ~ IsSet(y, b)
    OBVIOUS
  <2>1. y < b
    BY <1>1, BitType
  <2> QED BY <1>1, <2>1, BelowBit
<1>6. c \in D
  <2>1. ~ IsSet(y, c)
    BY <1>3, <1>4, <1>5
  <2>2. /\ y % c \in Nat /\ v % c \in Nat /\ c \in Nat /\ c > 0 /\ y % c < c
        /\ y % (2 * c) = y % c /\ v % (2 * c) = (v % c) + c
    BY <1>1, <1>3, <2>1, BitAdds, BitType
  <2> QED BY <2>2
<1>7. PICK d \in D : \A e \in D : d <= e
  <2>1. D \in SUBSET Nat
    BY BitType
  <2> HIDE DEF D
  <2> QED BY <1>6, <2>1, LeastNat
<1>8. d \in Bit /\ d \in Nat /\ c \in Nat /\ d <= c /\ y % (2 * d) # v % (2 * d)
  <2>1. d <= c
    <3> HIDE DEF D
    <3> QED BY <1>6, <1>7
  <2> QED BY <1>7, <2>1, BitType
<1>9. y % d = v % d
  <2>1. CASE d = 1
    <3>1. y % 1 = 0 /\ v % 1 = 0
      BY <1>1
    <3> QED BY <2>1, <3>1
  <2>2. CASE d # 1
    <3>1. PICK half \in Bit : d = 2 * half
      BY <1>8, <2>2, ScanAssumption
    <3>2. ~ (d <= half)
      BY <3>1, BitType
    <3>3. half \notin D
      <4> HIDE DEF D
      <4> QED BY <1>7, <3>2
    <3> QED BY <3>1, <3>3
  <2> QED BY <2>1, <2>2
<1>10. IsSet(y, d) <=> ~ IsSet(v, d)
  BY <1>1, <1>8, <1>9, BitAdds
<1>11. ~ IsSet(y, d)
  <2> SUFFICES ASSUME IsSet(y, d) PROVE FALSE
    OBVIOUS
  <2>1. d < a /\ IsSet(x, d)
    BY <1>4, <1>5
  <2>2. CASE d = c
    BY <1>3, <2>1, <2>2
  <2>3. CASE d < c
    <3>1. IsSet(x, d) <=> IsSet(v, d)
      BY <1>3, <1>8, <2>3, AgreeBelow
    <3> QED BY <1>10, <2>1, <3>1
  <2> QED BY <1>8, <2>2, <2>3
<1>12. Before(y, v)
  BY <1>8, <1>9, <1>10, <1>11 DEF Before
<1> QED BY <1>12 DEF y

\* A node is in the bucket of its spot.
LEMMA SpotFacts ==
  ASSUME NEW h, HashType(h), NodesInReach(h), NEW n \in DOMAIN h.at
  PROVE  /\ Spot(h, n) \in Nat
         /\ h.buckets[h.at[n].table] \in BucketSizes
         /\ Spot(h, n) % h.buckets[h.at[n].table] = h.at[n].bucket
<1> DEFINE a == h.buckets[h.at[n].table]
           b == h.at[n].bucket
<1>1. h.at[n].table \in Table /\ b \in Nat /\ n[1] \in Key
  BY DEF HashType, Place, Entry
<1>2. a \in BucketSizes \union {0}
  BY <1>1 DEF HashType
<1>3. b < a
  BY DEF NodesInReach
<1>4. a \in BucketSizes /\ a \in Nat /\ a > 0
  <2> HIDE DEF a, b
  <2>1. a # 0
    BY <1>1, <1>3
  <2> QED BY <1>2, <2>1, BucketSizesType
<1>5. Hasher[n[1]] \in Nat
  BY <1>1, HashAssumption
<1>6. n \in Misplaced(h) <=> b # Hasher[n[1]] % a
  <2>1. (a - 1) + 1 = a
    BY <1>4
  <2> QED BY <2>1 DEF Misplaced, Bucket
<1> HIDE DEF a, b
<1>7. CASE n \in Misplaced(h)
  <2>1. b % a = b
    BY <1>1, <1>3, <1>4, SMTT(30)
  <2> QED BY <1>1, <1>4, <1>7, <2>1 DEF Spot, a, b
<1>8. CASE n \notin Misplaced(h)
  BY <1>4, <1>5, <1>6, <1>8 DEF Spot, a, b
<1> QED BY <1>7, <1>8

\* A node that stays in a bucket of a table of that size keeps its spot.
LEMMA SpotKept ==
  ASSUME NEW h, NEW g, NEW n \in DOMAIN h.at, n \in DOMAIN g.at,
         g.at[n].bucket = h.at[n].bucket,
         g.buckets[g.at[n].table] = h.buckets[h.at[n].table]
  PROVE  Spot(g, n) = Spot(h, n)
  BY DEF Spot, Misplaced

\* Where a node goes that is moved to its bucket, the scan has not been if it
\* had not been where the node came from.
LEMMA SpotMoved ==
  ASSUME NEW h, HashType(h), LinkedByIndex(h), NEW n \in DOMAIN h.at,
         NEW v \in Nat, Before(Hasher[n[1]], v)
  PROVE  Before(Spot(h, n), v)
<1>1. n[1] \in Key
  BY DEF HashType, Entry
<1>2. Hasher[n[1]] \in Nat
  BY <1>1, HashAssumption
<1>3. PICK a \in BucketSizes : h.at[n].bucket = Bucket(n[1], a - 1)
  BY DEF LinkedByIndex
<1>4. h.at[n].bucket = Hasher[n[1]] % a /\ a \in Bit
  <2>1. (a - 1) + 1 = a
    BY BucketSizesType
  <2> QED BY <1>3, <2>1, ScanAssumption DEF Bucket
<1>5. Before(h.at[n].bucket, v)
  BY <1>2, <1>4, BeforeMasked
<1> QED BY <1>5 DEF Spot

-----------------------------------------------------------------------------
(* No call moves a node to where a scan has passed.                        *)

LEMMA MoveBehind ==
  ASSUME NEW h, Rehashing(h), LinkedByIndex(h), NEW end, NEW v \in Nat
  PROVE  /\ LinkedByIndex(moveBuckets(h, end))
         /\ Behind(moveBuckets(h, end), v) \subseteq Behind(h, v)
<1> DEFINE g == moveBuckets(h, end)
<1>1. DOMAIN g.at = DOMAIN h.at /\ g.buckets = h.buckets
  BY DEF moveBuckets, Rehashing, HashType
<1>2. HashType(h) /\ h.mBucketsMask = h.buckets[Backup] - 1 /\ h.buckets[Backup] \in BucketSizes
  BY DEF Rehashing, HashType
<1>3. \A n \in DOMAIN h.at :
        /\ n \in Moved(h, end) =>
             g.at[n].table = Backup /\ g.at[n].bucket = Bucket(n[1], h.mBucketsMask)
        /\ n \notin Moved(h, end) =>
             g.at[n].table = h.at[n].table /\ g.at[n].bucket = h.at[n].bucket
  BY MovedPlaces
<1> HIDE DEF g
<1>4. LinkedByIndex(g)
  BY <1>1, <1>2, <1>3 DEF LinkedByIndex
<1>5. ASSUME NEW n \in DOMAIN h.at, Before(Spot(g, n), v)
      PROVE  Before(Spot(h, n), v)
  <2>1. CASE n \in Moved(h, end)
    <3>1. n \notin Misplaced(g)
      BY <1>1, <1>2, <1>3, <2>1 DEF Misplaced
    <3>2. Spot(g, n) = Hasher[n[1]]
      BY <3>1 DEF Spot
    <3> QED BY <1>2, <1>5, <3>2, SpotMoved
  <2>2. CASE n \notin Moved(h, end)
    BY <1>1, <1>3, <1>5, <2>2, SpotKept
  <2> QED BY <2>1, <2>2
<1> QED BY <1>1, <1>4, <1>5 DEF Behind, g

LEMMA CompeleteBehind ==
  ASSUME NEW h, Rehashing(h), LinkedByIndex(h), NEW v \in Nat
  PROVE  /\ LinkedByIndex(compeleteReHashing(h))
         /\ Behind(compeleteReHashing(h), v) \subseteq Behind(h, v)
<1> DEFINE g == compeleteReHashing(h)
<1>1. /\ g.buckets[Active] = h.buckets[Backup]
      /\ DOMAIN g.at = {n \in DOMAIN h.at : h.at[n].table = Backup}
      /\ \A n \in DOMAIN g.at : g.at[n] = [h.at[n] EXCEPT !.table = Active]
  BY DEF compeleteReHashing, Rehashing, HashType, Table, Active, Backup
<1>2. \A n \in DOMAIN h.at : h.at[n] \in Place
  BY DEF Rehashing, HashType
<1> HIDE DEF g
<1>3. \A n \in DOMAIN g.at : /\ n \in DOMAIN h.at /\ h.at[n].table = Backup
                             /\ g.at[n].table = Active /\ g.at[n].bucket = h.at[n].bucket
  BY <1>1, <1>2 DEF Place
<1>4. LinkedByIndex(g)
  BY <1>3 DEF LinkedByIndex
<1>5. \A n \in DOMAIN g.at : Spot(g, n) = Spot(h, n)
  BY <1>1, <1>3, SpotKept
<1> QED BY <1>3, <1>4, <1>5 DEF Behind, g

LEMMA MigrateBehind ==
  ASSUME NEW h, HashInv(h), isReHashing(h), LinkedByIndex(h), NEW step \in Nat, NEW v \in Nat
  PROVE  /\ LinkedByIndex(migrate(h, step))
         /\ Behind(migrate(h, step), v) \subseteq Behind(h, v)
<1> DEFINE last == h.buckets[Active]
           end == IF h.mRehashIndex + step < last THEN h.mRehashIndex + step ELSE last
           m == moveBuckets(h, end)
<1>1. Rehashing(h) /\ h.mRehashIndex < last
  BY BetweenCalls
<1>2. h.mRehashIndex \in Nat /\ last \in Nat
  BY <1>1, BucketSizesType DEF Rehashing, HashType, isReHashing
<1>3. end \in h.mRehashIndex .. last
  BY <1>1, <1>2
<1> HIDE DEF end
<1>4. Rehashing(m) /\ LinkedByIndex(m) /\ Behind(m, v) \subseteq Behind(h, v)
  BY <1>1, <1>3, MoveBucketsInv, MoveBehind
<1> HIDE DEF m
<1>5. /\ LinkedByIndex(compeleteReHashing(m))
      /\ Behind(compeleteReHashing(m), v) \subseteq Behind(m, v)
  BY <1>4, CompeleteBehind
<1> QED BY <1>4, <1>5 DEF migrate, end, m

LEMMA RehashBehind ==
  ASSUME NEW h, HashInv(h), LinkedByIndex(h), NEW v \in Nat
  PROVE  /\ LinkedByIndex(rehash(h))
         /\ Behind(rehash(h), v) \subseteq Behind(h, v)
<1> DEFINE s == IF isReHashing(h) THEN h ELSE startReHashing(h)
<1>1. HashInv(s) /\ isReHashing(s)
  BY StartReHashingInv, BetweenCalls
<1>2. LinkedByIndex(s) /\ Behind(s, v) \subseteq Behind(h, v)
  <2>1. CASE isReHashing(h)
    BY <2>1
  <2>2. CASE ~ isReHashing(h)
    <3>1. s.at = h.at /\ s.buckets[Active] = h.buckets[Active]
      BY <2>2, StartReHashingInv
    <3>2. \A n \in DOMAIN h.at : h.at[n].table = Active
      BY <2>2 DEF HashInv, OneTable
    <3> HIDE DEF s
    <3>3. \A n \in DOMAIN h.at : Spot(s, n) = Spot(h, n)
      BY <3>1, <3>2, SpotKept
    <3> QED BY <3>1, <3>3 DEF LinkedByIndex, Behind
  <2> QED BY <2>1, <2>2
<1> HIDE DEF s
<1>3. rehash(h) = migrate(s, calculateReHashStep(s))
  BY DEF rehash, s
<1>4. /\ LinkedByIndex(migrate(s, calculateReHashStep(s)))
      /\ Behind(migrate(s, calculateReHashStep(s)), v) \subseteq Behind(s, v)
  BY <1>1, <1>2, StepType, MigrateBehind
<1> QED BY <1>2, <1>3, <1>4

LEMMA PreparedBehind ==
  ASSUME NEW h, HashInv(h), LinkedByIndex(h), NEW v \in Nat
  PROVE  /\ LinkedByIndex(prepared(h))
         /\ Behind(prepared(h), v) \subseteq Behind(h, v)
  BY RehashBehind DEF prepared

LEMMA CompletedBehind ==
  ASSUME NEW h, HashInv(h), LinkedByIndex(h), NEW v \in Nat
  PROVE  /\ LinkedByIndex(completed(h))
         /\ Behind(completed(h), v) \subseteq Behind(h, v)
<1>1. CASE isReHashing(h)
  <2>1. h.buckets[Active] \in Nat
    BY <1>1, BucketSizesType DEF HashInv, RehashShape
  <2> QED BY <1>1, <2>1, MigrateBehind DEF completed
<1>2. CASE ~ isReHashing(h)
  BY <1>2 DEF completed
<1> QED BY <1>1, <1>2

LEMMA EraseBehind ==
  ASSUME NEW h, HashInv(h), LinkedByIndex(h), NEW n \in DOMAIN h.at, NEW v \in Nat
  PROVE  /\ LinkedByIndex(eraseNode(h, h.at[n].table, n))
         /\ Behind(eraseNode(h, h.at[n].table, n), v) \subseteq Behind(h, v)
<1> DEFINE g == eraseNode(h, h.at[n].table, n)
<1>1. DOMAIN g.at = DOMAIN h.at \ {n} /\ g.buckets = h.buckets
  BY DEF eraseNode, HashInv, HashType
<1>2. \A m \in DOMAIN h.at \ {n} :
        g.at[m].table = h.at[m].table /\ g.at[m].bucket = h.at[m].bucket
  BY DEF eraseNode, HashInv, HashType, Place
<1> HIDE DEF g
<1>3. \A m \in DOMAIN g.at : Spot(g, m) = Spot(h, m)
  BY <1>1, <1>2, SpotKept
<1> QED BY <1>1, <1>2, <1>3 DEF LinkedByIndex, Behind, g

LEMMA InsertedBehind ==
  ASSUME NEW h, HashInv(h), LinkedByIndex(h), NEW n \in Entry, n \notin DOMAIN h.at, NEW v \in Nat
  PROVE  /\ LinkedByIndex(inserted(h, n))
         /\ Behind(inserted(h, n), v) \subseteq Behind(h, v) \union {n}
<1> DEFINE r == prepared(h)
           t == Newest(r)
           b == Bucket(n[1], h.mBucketsMask)
           g == insertNode(r, t, b, n)
<1>1. n[1] \in Key
  BY DEF Entry
<1>2. /\ HashInv(r) /\ LinkedByIndex(r) /\ DOMAIN r.at = DOMAIN h.at
      /\ Behind(r, v) \subseteq Behind(h, v)
      /\ b \in Nat /\ b < r.buckets[t]
  BY <1>1, PreparedInv, PreparedBehind
<1>3. inserted(h, n) = g
  BY DEF inserted, Newest
<1>4. \E a \in BucketSizes : b = Bucket(n[1], a - 1)
  BY DEF HashInv, HashType, RehashShape
<1> HIDE DEF r, t, b
<1>5. /\ DOMAIN g.at = DOMAIN r.at \union {n} /\ g.buckets = r.buckets
      /\ g.at[n].table = t /\ g.at[n].bucket = b
      /\ \A m \in DOMAIN r.at :
           g.at[m].table = r.at[m].table /\ g.at[m].bucket = r.at[m].bucket
  <2>1. t \in Table
    BY DEF t, Newest, Table
  <2>2. ~ (b >= r.buckets[t])
    BY <1>2, <2>1, BucketSizesType DEF HashInv, HashType
  <2>3. n \notin DOMAIN r.at
    BY <1>2
  <2> QED BY <1>2, <2>2, <2>3 DEF insertNode, HashInv, HashType, Place
<1> HIDE DEF g
<1>6. \A m \in DOMAIN r.at : Spot(g, m) = Spot(r, m)
  BY <1>5, SpotKept
<1> QED BY <1>2, <1>3, <1>4, <1>5, <1>6 DEF LinkedByIndex, Behind

LEMMA ErasedBehind ==
  ASSUME NEW h, HashInv(h), LinkedByIndex(h), NEW k \in Key, NEW v \in Nat
  PROVE  /\ LinkedByIndex(erased(h, k))
         /\ Behind(erased(h, k), v) \subseteq Behind(h, v)
<1> DEFINE r == prepared(h)
           n == First(r, Found(h, k))
           e == eraseNode(r, r.at[n].table, n)
<1>1. HashInv(r) /\ LinkedByIndex(r) /\ Behind(r, v) \subseteq Behind(h, v) /\ DOMAIN r.at = DOMAIN h.at
  BY PreparedInv, PreparedBehind
<1>2. CASE Found(h, k) = {}
  BY <1>1, <1>2 DEF erased
<1>3. CASE Found(h, k) # {}
  <2>1. n \in DOMAIN r.at
    BY <1>1, <1>3, FoundNodes
  <2>2. HashInv(e) /\ LinkedByIndex(e) /\ Behind(e, v) \subseteq Behind(r, v)
    <3> HIDE DEF r, n
    <3> QED BY <1>1, <2>1, EraseNodeInv, EraseBehind
  <2>3. erased(h, k) = IF isNeedShrink(e) THEN rehash(e) ELSE e
    BY <1>3 DEF erased
  <2> HIDE DEF e, r
  <2>4. LinkedByIndex(rehash(e)) /\ Behind(rehash(e), v) \subseteq Behind(e, v)
    BY <2>2, RehashBehind
  <2> QED BY <1>1, <2>2, <2>3, <2>4
<1> QED BY <1>2, <1>3

-----------------------------------------------------------------------------
(* The scan.                                                               *)

\* One call of scan reports every node between the two cursors.
LEMMA ScanReports ==
  ASSUME NEW h, HashInv(h), NEW v \in Nat,
         h.size[Active] # 0, NEW n \in DOMAIN h.at,
         ScanCall(h, v).cursor = 0 \/ Before(Spot(h, n), ScanCall(h, v).cursor)
  PROVE  Before(Spot(h, n), v) \/ n \in ScanCall(h, v).nodes
<1> DEFINE t0 == Smaller(h)
           t1 == CHOOSE t \in Table : t # t0
           n0 == h.buckets[t0]
           n1 == h.buckets[t1]
           large == Expansions(v, n1, n0)
           x == Spot(h, n)
           t == h.at[n].table
<1>1. /\ x \in Nat /\ h.buckets[t] \in BucketSizes
      /\ x % h.buckets[t] = h.at[n].bucket /\ t \in Table
  BY SpotFacts DEF HashInv, HashType, Place
<1>2. \A a \in BucketSizes : a \in Bit /\ a \in Nat
  BY ScanAssumption, BucketSizesType
<1>3. CASE ~ isReHashing(h)
  <2>1. t = Active
    BY <1>3 DEF HashInv, OneTable
  <2>2. /\ ScanCall(h, v).nodes = Chain(h, Active, v % h.buckets[Active])
        /\ ScanCall(h, v).cursor = RevIncrement(v, h.buckets[Active])
    BY <1>3 DEF ScanCall
  <2> HIDE DEF x, t
  <2>3. Before(x, v) \/ x % h.buckets[Active] = v % h.buckets[Active]
    BY <1>1, <1>2, <2>1, <2>2, IncrementPasses DEF x
  <2> QED BY <1>1, <2>1, <2>2, <2>3 DEF Chain, x, t
<1>4. CASE isReHashing(h)
  <2>1. t0 \in Table /\ t1 \in Table /\ t1 # t0 /\ (t = t0 \/ t = t1)
    BY <1>1 DEF Smaller, Table, Active, Backup
  <2>2. n0 \in BucketSizes /\ n1 \in BucketSizes /\ n0 <= n1
    <3>1. h.buckets[Active] \in BucketSizes /\ h.buckets[Backup] \in BucketSizes
      BY <1>4 DEF HashInv, HashType, RehashShape
    <3> HIDE DEF t1
    <3> QED BY <1>2, <2>1, <3>1 DEF Smaller, Table, Active, Backup
  <2>3. /\ ScanCall(h, v).nodes = Chain(h, t0, v % n0) \union UNION {Chain(h, t1, b) : b \in large.visited}
        /\ ScanCall(h, v).cursor = large.cursor
    BY <1>4 DEF ScanCall
  <2> HIDE DEF t0, t1, x, t
  <2>4. /\ large.cursor = RevIncrement(v, n0)
        /\ large.cursor = 0 \/ Before(x, large.cursor) => Before(x, v) \/ x % n1 \in large.visited
    BY <1>1, <1>2, <2>2, ExpansionsFacts
  <2> HIDE DEF large
  <2>5. Before(x, v) \/ (x % n1 \in large.visited /\ x % n0 = v % n0)
    BY <1>1, <1>2, <2>2, <2>3, <2>4, IncrementPasses DEF x
  <2>6. CASE t = t0
    BY <1>1, <2>3, <2>5, <2>6 DEF Chain, x, t
  <2>7. CASE t = t1
    BY <1>1, <2>3, <2>5, <2>7 DEF Chain, x, t
  <2> QED BY <2>1, <2>6, <2>7
<1> QED BY <1>3, <1>4

\* Until it is reported, the watched entry is not behind the cursor.
ScanInv ==
  /\ HashInv(hash) /\ LinkedByIndex(hash)
  /\ cursor \in Nat /\ seen \in Nat
  /\ phase \in {"idle", "scanning", "done"}
  /\ phase # "idle" /\ watched # NoEntry =>
       /\ watched \in DOMAIN hash.at
       /\ seen = 0 => phase = "scanning" /\ watched \notin Behind(hash, cursor)

LEMMA ScanInitHolds == ASSUME ScanInit PROVE ScanInv
<1>1. HashInv(hash) /\ DOMAIN hash.at = {}
  BY InitInv DEF ScanInit
<1> QED BY <1>1 DEF ScanInit, ScanInv, LinkedByIndex

\* The returned cursor is a number.
LEMMA ScanCursorType ==
  ASSUME NEW h, HashInv(h), NEW v \in Nat
  PROVE  ScanCall(h, v).cursor \in Nat
<1> DEFINE t0 == Smaller(h)
           t1 == CHOOSE t \in Table : t # t0
           n0 == h.buckets[t0]
           n1 == h.buckets[t1]
<1>1. \A a \in BucketSizes : a \in Bit /\ a \in Nat
  BY ScanAssumption, BucketSizesType
<1>2. CASE h.size[Active] = 0
  BY <1>2 DEF ScanCall
<1>3. CASE h.size[Active] # 0 /\ ~ isReHashing(h)
  <2>1. h.buckets[Active] \in BucketSizes
    BY <1>3 DEF HashInv, HashType, RehashShape
  <2>2. ScanCall(h, v).cursor = RevIncrement(v, h.buckets[Active])
    BY <1>3 DEF ScanCall
  <2> QED BY <1>1, <2>1, <2>2, IncrementFacts
<1>4. CASE h.size[Active] # 0 /\ isReHashing(h)
  <2>1. n0 \in BucketSizes /\ n1 \in BucketSizes /\ n0 <= n1
    <3>1. h.buckets[Active] \in BucketSizes /\ h.buckets[Backup] \in BucketSizes
      BY <1>4 DEF HashInv, HashType, RehashShape
    <3>2. t0 \in Table /\ t1 \in Table /\ t1 # t0
      BY DEF Smaller, Table, Active, Backup
    <3> HIDE DEF t1
    <3> QED BY <1>1, <3>1, <3>2 DEF Smaller, Table, Active, Backup
  <2>2. ScanCall(h, v).cursor = Expansions(v, n1, n0).cursor
    BY <1>4 DEF ScanCall
  <2> HIDE DEF t0, t1
  <2>3. ScanCall(h, v).cursor = RevIncrement(v, n0)
    BY <1>1, <2>1, <2>2, ExpansionsFacts
  <2> QED BY <1>1, <2>1, <2>3, IncrementFacts
<1> QED BY <1>2, <1>3, <1>4

\* A scan starts behind no node.
LEMMA BeginScanKeeps == ASSUME ScanInv, BeginScan PROVE ScanInv'
<1>1. \A x : ~ Before(x, 0)
  <2> SUFFICES ASSUME NEW b \in Bit PROVE ~ IsSet(0, b)
    BY DEF Before
  <2> QED BY BelowBit, BitType
<1>2. Behind(hash, 0) = {}
  BY <1>1 DEF Behind
<1>3. hash' = hash /\ cursor' = 0 /\ phase' = "scanning" /\ watched' \in DOMAIN hash.at /\ seen' = 0
  BY DEF BeginScan, vars
<1> QED BY <1>2, <1>3 DEF ScanInv

\* What it passes, it reports.
LEMMA ScanKeeps == ASSUME ScanInv, NeverEmpty, Scan PROVE ScanInv'
<1> DEFINE call == ScanCall(hash, cursor)
<1>1. /\ hash' = hash /\ watched' = watched /\ cursor' = call.cursor /\ phase = "scanning"
      /\ phase' = (IF call.cursor = 0 THEN "done" ELSE "scanning")
      /\ seen' = (IF watched \in call.nodes /\ seen < 2 THEN seen + 1 ELSE seen)
  BY DEF Scan, vars
<1>2. HashInv(hash) /\ LinkedByIndex(hash) /\ cursor \in Nat /\ seen \in Nat
  BY DEF ScanInv
<1>3. call.cursor \in Nat
  BY <1>2, ScanCursorType
<1>4. ASSUME watched # NoEntry, seen' = 0
      PROVE  call.cursor # 0 /\ ~ Before(Spot(hash, watched), call.cursor)
  <2>1. watched \in DOMAIN hash.at
    BY <1>1, <1>4 DEF ScanInv
  <2> HIDE DEF call
  <2>2. seen = 0 /\ watched \notin call.nodes
    BY <1>1, <1>2, <1>4
  <2>3. ~ Before(Spot(hash, watched), cursor)
    BY <1>1, <1>4, <2>1, <2>2 DEF ScanInv, Behind
  <2>4. hash.size[Active] # 0
    <3>1. CASE isReHashing(hash)
      <4>1. hash.size[Active] > 0
        BY <3>1 DEF NeverEmpty
      <4>2. hash.size[Active] \in Nat
        BY <1>2 DEF HashInv, HashType, Table
      <4> QED BY <4>1, <4>2
    <3>2. CASE ~ isReHashing(hash)
      <4>1. hash.size[Active] = Cardinality(DOMAIN hash.at)
        BY <1>2, <3>2 DEF HashInv, CountsFit
      <4>2. IsFiniteSet(DOMAIN hash.at)
        BY <1>2, NodesFinite DEF HashInv
      <4> QED BY <2>1, <4>1, <4>2, FS_EmptySet
    <3> QED BY <3>1, <3>2
  <2> QED BY <1>2, <2>1, <2>2, <2>3, <2>4, ScanReports DEF call
<1> HIDE DEF call
<1>5. seen' \in Nat
  BY <1>1, <1>2
<1> QED BY <1>1, <1>2, <1>3, <1>4, <1>5 DEF ScanInv, Behind

\* Calls in between bring no node behind the cursor.
LEMMA CallKeeps == ASSUME ScanInv, Call PROVE ScanInv'
<1> DEFINE Kept == /\ HashInv(hash') /\ LinkedByIndex(hash')
                   /\ Behind(hash', cursor) \intersect DOMAIN hash.at \subseteq Behind(hash, cursor)
<1>1. HashInv(hash) /\ LinkedByIndex(hash) /\ cursor \in Nat
  BY DEF ScanInv
<1>2. ASSUME NEW k \in Key, NEW v \in Value, Insert(k, v) PROVE Kept
  <2>1. <<k, v>> \in Entry /\ <<k, v>> \notin DOMAIN hash.at /\ hash' = inserted(hash, <<k, v>>)
    BY <1>2 DEF Insert, Entry
  <2> QED BY <1>1, <2>1, InsertedInv, InsertedBehind
<1>3. ASSUME NEW k \in Key, Erase(k) PROVE Kept
  <2>1. hash' = erased(hash, k)
    BY <1>3 DEF Erase
  <2> QED BY <1>1, <2>1, ErasedInv, ErasedBehind
<1>4. ASSUME IsExist(CHOOSE k \in Key : TRUE) PROVE Kept
  <2>1. hash' = prepared(hash)
    BY <1>4 DEF IsExist
  <2> QED BY <1>1, <2>1, PreparedInv, PreparedBehind
<1>5. ASSUME Iterate PROVE Kept
  <2>1. hash' = completed(hash)
    BY <1>5 DEF Iterate
  <2> QED BY <1>1, <2>1, CompletedInv, CompletedBehind
<1>6. Kept
  BY <1>2, <1>3, <1>4, <1>5 DEF Call
<1>7. /\ phase # "done" /\ phase' = phase /\ cursor' = cursor /\ seen' = seen
      /\ watched' = IF watched \in DOMAIN hash'.at THEN watched ELSE NoEntry
  BY DEF Call
<1>8. Behind(hash', cursor) \subseteq DOMAIN hash'.at
  BY DEF Behind
<1> QED BY <1>1, <1>6, <1>7, <1>8 DEF ScanInv

LEMMA ScanInvKept == ScanInv /\ NeverEmpty /\ [ScanNext]_<<vars, scanVars>> => ScanInv'
<1> SUFFICES ASSUME ScanInv, NeverEmpty, [ScanNext]_<<vars, scanVars>> PROVE ScanInv'
  OBVIOUS
<1>1. CASE EndScan
  BY <1>1 DEF EndScan, ScanInv, vars
<1>2. CASE UNCHANGED <<vars, scanVars>>
  <2>1. UNCHANGED <<hash, cursor, phase, watched, seen>>
    BY <1>2 DEF vars, scanVars
  <2> QED BY <2>1 DEF ScanInv, Behind, Spot, Misplaced, LinkedByIndex
<1> QED BY <1>1, <1>2, BeginScanKeeps, ScanKeeps, CallKeeps DEF ScanNext

\* Whatever the constants, a scan misses an entry only if it was cut short: a
\* call of scan returns 0 at once when mActive counts no nodes (hash.h:547).
THEOREM MissesOnlyWhenCut == ScanSpec /\ []NeverEmpty => []ScanMissesNothing
<1>1. ScanInit => ScanInv
  BY ScanInitHolds
<1>2. ScanInv => ScanMissesNothing
  BY DEF ScanInv, ScanMissesNothing
<1> QED BY <1>1, <1>2, ScanInvKept, PTL DEF ScanSpec

-----------------------------------------------------------------------------
(* The count of mActive during a rehash.                                   *)

\* hash.h:649 and the factors 1.0f and 0.1f.
CodeConstants == MIN_BUCKETS_SIZE = 4 /\ mLoadFactor = 1 /\ mShrinkDivisor = 10

\* The counts z of mActive and c of all nodes, after u shares of a rehash from
\* a buckets to b.  A growth begins with a full table, and a call erases one node
\* for a share at most.  A shrink begins with nearly a tenth of a; an erase that
\* leaves more than 4 in mActive makes a second share.
Pace(z, c, a, b, u) ==
  IF a < b
  THEN b = 2 * a /\ z + u >= a + 1 /\ c + u >= a + 1
  ELSE /\ 8 * b <= a /\ b >= 8 /\ 10 * z < a
       /\ IF z > 4 THEN u + 2 * z >= b + 5 /\ 10 * c + 5 * u >= 8 * b - 5
          ELSE u + z >= b /\ 10 * c + 10 * u >= 13 * b - 30

\* Outside a rehash, a large table is at least a tenth full.  `ahead' shares have
\* been made beyond those that Pace needs.
Paced(h, ahead) ==
  LET c == Cardinality(DOMAIN h.at)
      a == h.buckets[Active]
  IN  IF ~ isReHashing(h) THEN a <= 32 \/ 10 * c >= a
      ELSE \E u \in Nat : /\ h.mRehashIndex = (u + ahead) * calculateReHashStep(h)
                          /\ Pace(h.size[Active], c, a, h.buckets[Backup], u)

\* The step is 2 in a growth to twice the buckets, and the quotient in a shrink.
LEMMA PaceStep ==
  ASSUME NEW a \in BucketSizes, NEW b \in BucketSizes, NEW step,
         step = (IF a > b THEN a \div b ELSE b \div a), a < b => b = 2 * a,
         a >= b => 8 * b <= a
  PROVE  /\ step \in Nat /\ step > 0
         /\ a < b => step = 2
         /\ a >= b => a = step * b
<1>1. a \in Nat /\ a > 0 /\ b \in Nat /\ b > 0
  BY BucketSizesType
<1>2. step \in Nat /\ step > 0 /\ (a > b => a = step * b)
  BY StepArithmetic
<1>3. a < b => step = 2
  <2>1. (2 * a) \div a = 2
    BY <1>1
  <2> QED BY <1>1, <2>1
<1> QED BY <1>1, <1>2, <1>3

\* Of products with one factor, the smaller has the smaller other factor.
LEMMA TimesLess ==
  ASSUME NEW x \in Int, NEW y \in Nat, NEW q \in Nat, q > 0, x * q < y * q
  PROVE  x < y
<1> SUFFICES ASSUME x >= y PROVE FALSE
  OBVIOUS
<1>1. x \in Nat
  OBVIOUS
<1> QED BY <1>1, TimesGrows

\* While a share is left to make, mActive counts a node, and the nodes suffice
\* for the new table.
LEMMA PaceFacts ==
  ASSUME NEW a \in BucketSizes, NEW b \in BucketSizes, MIN_BUCKETS_SIZE = 4, NEW z \in Nat, NEW c \in Nat, NEW u \in Nat,
         NEW step, step = (IF a > b THEN a \div b ELSE b \div a),
         NEW ahead \in {-1, 0, 1}, Pace(z, c, a, b, u), (u + ahead) * step < a
  PROVE  /\ ahead # -1 => z > 0
         /\ ahead # 1 => b <= 32 \/ 10 * c >= b
<1>1. a \in Nat /\ a > 0 /\ b \in Nat /\ b > 0
  BY BucketSizesType
<1>2. /\ step \in Nat /\ step > 0
      /\ a < b => step = 2
      /\ a >= b => a = step * b
  <2>1. (a < b => b = 2 * a) /\ (a >= b => 8 * b <= a)
    BY <1>1 DEF Pace
  <2> QED BY <2>1, PaceStep
<1>3. CASE a < b
  <2>1. b = 2 * a /\ z + u >= a + 1 /\ c + u >= a + 1
    BY <1>3 DEF Pace
  <2>2. (u + ahead) * 2 < a
    BY <1>2, <1>3
  <2> QED BY <1>1, <2>1, <2>2
<1>4. CASE a >= b
  <2>1. u + ahead < b
    <3>1. (u + ahead) * step < b * step
      <4>1. b * step = step * b
        BY <1>1, <1>2
      <4> QED BY <1>2, <1>4, <4>1
    <3>2. u + ahead \in Int
      OBVIOUS
    <3> QED BY <1>1, <1>2, <3>1, <3>2, TimesLess
  <2>2. /\ 8 * b <= a /\ b >= 8 /\ 10 * z < a
        /\ z > 4 => u + 2 * z >= b + 5 /\ 10 * c + 5 * u >= 8 * b - 5
        /\ ~ (z > 4) => u + z >= b /\ 10 * c + 10 * u >= 13 * b - 30
    BY <1>1, <1>4 DEF Pace
  <2> QED BY <1>1, <2>1, <2>2
<1> QED BY <1>1, <1>3, <1>4

\* One share more.
LEMMA PaceGrows ==
  ASSUME NEW z \in Nat, NEW c \in Nat, NEW a \in Nat, NEW b \in Nat, NEW u \in Nat, Pace(z, c, a, b, u)
  PROVE  /\ Pace(z, c, a, b, u + 1)
         /\ Pace(z, c + 1, a, b, u)
<1>1. CASE a < b
  BY <1>1 DEF Pace
<1>2. CASE ~ (a < b)
  BY <1>2 DEF Pace
<1> QED BY <1>1, <1>2

\* One node less.
LEMMA PaceErase ==
  ASSUME NEW z \in Nat, NEW c \in Nat, NEW a \in Nat, NEW b \in Nat, NEW u \in Nat, NEW y \in Nat,
         Pace(z, c + 1, a, b, u), y = z \/ y + 1 = z
  PROVE  /\ ~ (y > 4 /\ 10 * y < a) => Pace(y, c, a, b, u + 1)
         /\ y > 4 /\ 10 * y < a => Pace(y, c, a, b, u + 2)
<1>1. CASE a < b
  BY <1>1 DEF Pace
<1>2. CASE ~ (a < b)
  <2>1. /\ 8 * b <= a /\ b >= 8 /\ 10 * z < a
        /\ z > 4 => u + 2 * z >= b + 5 /\ 10 * (c + 1) + 5 * u >= 8 * b - 5
        /\ ~ (z > 4) => u + z >= b /\ 10 * (c + 1) + 10 * u >= 13 * b - 30
    BY <1>2 DEF Pace
  <2>2. 10 * y < a
    BY <2>1
  <2>3. CASE y > 4
    <3>1. u + 2 + 2 * y >= b + 5 /\ 10 * c + 5 * (u + 2) >= 8 * b - 5
      BY <2>1, <2>3
    <3> QED BY <1>2, <2>1, <2>2, <2>3, <3>1 DEF Pace
  <2>4. CASE ~ (y > 4)
    <3>1. u + 1 + y >= b /\ 10 * c + 10 * (u + 1) >= 13 * b - 30
      BY <2>1, <2>4
    <3> QED BY <1>2, <2>1, <2>2, <2>4, <3>1 DEF Pace
  <2> QED BY <2>3, <2>4
<1> QED BY <1>1, <1>2

-----------------------------------------------------------------------------
(* The sizes that a rehash starts with.                                    *)

\* getNextPower2 returns less than twice what it is called with, if not the least.
LEMMA NextPower2Least ==
  ASSUME NEW s \in Nat, s <= Cardinality(Entry), getNextPower2(s) # MIN_BUCKETS_SIZE
  PROVE  \E half \in BucketSizes : getNextPower2(s) = 2 * half /\ half < s
<1> DEFINE number == getNextPower2(s)
           Least(b) == b >= s /\ \A c \in BucketSizes : c >= s => b <= c
<1>1. number \in BucketSizes /\ s <= number
  BY NextPower2
<1>2. \E b \in BucketSizes : Least(b)
  <2> DEFINE S == {b \in BucketSizes : b >= s}
  <2>1. S \in SUBSET Nat /\ S # {}
    BY <1>1, BucketSizesType
  <2>2. PICK b \in S : \A c \in S : b <= c
    BY <2>1, LeastNat
  <2> QED BY <2>2
<1>3. Least(number)
  <2> HIDE DEF Least
  <2>1. number = CHOOSE b \in BucketSizes : Least(b)
    BY DEF getNextPower2, Least
  <2> HIDE DEF number
  <2> QED BY <1>2, <2>1
<1> HIDE DEF number
<1>4. PICK half \in BucketSizes : number = 2 * half
  BY <1>1, BucketSizesAssumption DEF number
<1>5. half \in Nat /\ half > 0 /\ number \in Nat
  BY <1>1, <1>4, BucketSizesType
<1>6. half < s
  BY <1>3, <1>4, <1>5
<1> QED BY <1>4, <1>6 DEF number

\* A growth doubles a table that is not more than twice full.
LEMMA GrowthDoubles ==
  ASSUME NEW a \in BucketSizes, NEW s \in Nat, s <= Cardinality(Entry), a < s, s <= 2 * a
  PROVE  getNextPower2(s) = 2 * a
<1> DEFINE b == getNextPower2(s)
<1>1. b \in BucketSizes /\ s <= b
  BY NextPower2
<1>2. a \in Nat /\ a > 0 /\ b \in Nat /\ MIN_BUCKETS_SIZE <= a
  BY <1>1, BucketSizesType, MinimumIsLeast
<1>3. PICK half \in BucketSizes : b = 2 * half /\ half < s
  <2>1. b # MIN_BUCKETS_SIZE
    BY <1>1, <1>2, HashAssumption
  <2> QED BY <2>1, NextPower2Least
<1> HIDE DEF b
<1>4. half \in Nat /\ half > 0
  BY BucketSizesType
<1>5. ~ (half > a)
  <2> SUFFICES ASSUME half > a PROVE FALSE
    OBVIOUS
  <2>1. PICK q \in Nat : half = q * a
    BY <1>2, <1>4, SmallerDivides
  <2>2. q # 0 /\ q # 1
    BY <1>2, <1>4, <2>1
  <2>3. 2 * a <= q * a
    BY <1>2, <2>2, TimesGrows
  <2> QED BY <1>2, <1>3, <1>4, <2>1, <2>3
<1>6. ~ (half < a)
  <2> SUFFICES ASSUME half < a PROVE FALSE
    OBVIOUS
  <2>1. PICK q \in Nat : a = q * half
    BY <1>2, <1>4, SmallerDivides
  <2>2. q # 0 /\ q # 1
    BY <1>2, <1>4, <2>1
  <2>3. 2 * half <= q * half
    BY <1>4, <2>2, TimesGrows
  <2> QED BY <1>1, <1>2, <1>3, <1>4, <2>1, <2>3
<1>7. half = a
  BY <1>2, <1>4, <1>5, <1>6
<1> QED BY <1>3, <1>7 DEF b

\* A table more than five times as large is eight times as large.
LEMMA ThreeHalves ==
  ASSUME NEW a \in BucketSizes, NEW b \in BucketSizes, 5 * b < a
  PROVE  8 * b <= a
<1>1. a \in Nat /\ b \in Nat /\ b > 0 /\ MIN_BUCKETS_SIZE <= b /\ MIN_BUCKETS_SIZE \in Nat
  BY BucketSizesType, MinimumIsLeast, HashAssumption
<1>2. PICK a1 \in BucketSizes : a = 2 * a1
  BY <1>1, BucketSizesAssumption
<1>3. a1 \in Nat /\ 5 * b < 2 * a1
  BY <1>2, BucketSizesType
<1>4. PICK a2 \in BucketSizes : a1 = 2 * a2
  <2>1. a1 # MIN_BUCKETS_SIZE
    BY <1>1, <1>3
  <2> QED BY <2>1, BucketSizesAssumption
<1>5. a2 \in Nat /\ 5 * b < 4 * a2
  BY <1>3, <1>4, BucketSizesType
<1>6. PICK a3 \in BucketSizes : a2 = 2 * a3
  <2>1. a2 # MIN_BUCKETS_SIZE
    BY <1>1, <1>5
  <2> QED BY <2>1, BucketSizesAssumption
<1>7. a3 \in Nat /\ a3 > 0 /\ 5 * b < 8 * a3
  BY <1>5, <1>6, BucketSizesType
<1>8. b <= a3
  <2> SUFFICES ASSUME a3 < b PROVE FALSE
    BY <1>1, <1>7
  <2>1. PICK q \in Nat : b = q * a3
    BY <1>1, <1>7, SmallerDivides
  <2>2. q # 0 /\ q # 1
    BY <1>1, <1>7, <2>1
  <2>3. 2 * a3 <= q * a3
    BY <1>7, <2>2, TimesGrows
  <2> QED BY <1>1, <1>7, <2>1, <2>3
<1> QED BY <1>1, <1>2, <1>4, <1>6, <1>7, <1>8

\* A shrink, which an erase starts, begins at its first share's pace.
LEMMA ShrinkPace ==
  ASSUME MIN_BUCKETS_SIZE = 4, NEW a \in BucketSizes, NEW s \in Nat, s <= Cardinality(Entry),
         s > 4, 10 * s < a, a <= 32 \/ 10 * (s + 1) >= a
  PROVE  LET b == getNextPower2(s) IN b < a /\ Pace(s, s, a, b, 1)
<1> DEFINE b == getNextPower2(s)
<1>1. b \in BucketSizes /\ s <= b
  BY NextPower2
<1> HIDE DEF b
<1>2. a \in Nat /\ b \in Nat /\ b # MIN_BUCKETS_SIZE
  BY <1>1, BucketSizesType
<1>3. PICK half \in BucketSizes : b = 2 * half /\ half < s
  BY <1>2, NextPower2Least DEF b
<1>4. half \in Nat /\ half >= 4
  BY BucketSizesType, MinimumIsLeast
<1>5. 8 * b <= a
  <2>1. 5 * b < a
    BY <1>2, <1>3, <1>4
  <2> QED BY <1>1, <2>1, ThreeHalves
<1>6. b >= 8 /\ 10 * (s + 1) >= a
  BY <1>3, <1>4, <1>2
<1>7. b = 8 \/ b >= 16
  <2>1. CASE half = 4
    BY <1>3, <2>1
  <2>2. CASE half # 4
    <3>1. PICK quarter \in BucketSizes : half = 2 * quarter
      BY <2>2, BucketSizesAssumption
    <3>2. quarter \in Nat /\ quarter >= 4
      BY BucketSizesType, MinimumIsLeast
    <3> QED BY <1>3, <1>4, <3>1, <3>2
  <2> QED BY <2>1, <2>2
<1>8. 1 + 2 * s >= b + 5 /\ 10 * s + 5 * 1 >= 8 * b - 5
  BY <1>2, <1>5, <1>6, <1>7
<1>9. b < a /\ Pace(s, s, a, b, 1)
  BY <1>2, <1>5, <1>6, <1>8 DEF Pace
<1> QED BY <1>9 DEF b

\* A table of more than 32 buckets has 64.
LEMMA LargeTable ==
  ASSUME MIN_BUCKETS_SIZE = 4, NEW a \in BucketSizes, a > 32
  PROVE  a >= 64
<1>1. \A b \in BucketSizes : b \in Nat /\ b >= 4
  BY BucketSizesType, MinimumIsLeast
<1>2. PICK a1 \in BucketSizes : a = 2 * a1
  BY BucketSizesAssumption
<1>3. a1 \in Nat /\ a1 > 16
  BY <1>1, <1>2
<1>4. PICK a2 \in BucketSizes : a1 = 2 * a2
  BY <1>3, BucketSizesAssumption
<1>5. a2 \in Nat /\ a2 > 8
  BY <1>1, <1>3, <1>4
<1>6. PICK a3 \in BucketSizes : a2 = 2 * a3
  BY <1>5, BucketSizesAssumption
<1>7. a3 \in Nat /\ a3 > 4
  BY <1>1, <1>5, <1>6
<1>8. PICK a4 \in BucketSizes : a3 = 2 * a4
  BY <1>7, BucketSizesAssumption
<1> QED BY <1>1, <1>2, <1>4, <1>6, <1>8

-----------------------------------------------------------------------------
(* Every call keeps the pace.                                              *)

\* One share of a rehash, or all that is left of it.
LEMMA MigratePaced ==
  ASSUME MIN_BUCKETS_SIZE = 4, NEW h, HashInv(h), isReHashing(h),
         NEW ahead \in {-1, 0}, Paced(h, ahead), NEW step \in Nat,
         step = calculateReHashStep(h) \/ step = h.buckets[Active]
  PROVE  Paced(migrate(h, step), ahead + 1)
<1> DEFINE a == h.buckets[Active]
           b == h.buckets[Backup]
           c == Cardinality(DOMAIN h.at)
           z == h.size[Active]
           i == h.mRehashIndex
           end == IF i + step < a THEN i + step ELSE a
           m == moveBuckets(h, end)
           share == calculateReHashStep(h)
<1>1. /\ Rehashing(h) /\ i < a
      /\ a \in BucketSizes /\ b \in BucketSizes /\ b = h.mBucketsNumber
  BY BetweenCalls DEF HashInv, RehashShape, HashType
<1>2. a \in Nat /\ b \in Nat /\ c \in Nat /\ z \in Nat /\ i \in Nat /\ share \in Nat
  BY <1>1, RehashNumbers DEF Rehashing, HashType, isReHashing, Table
<1>3. share = (IF a > b THEN a \div b ELSE b \div a)
  BY DEF calculateReHashStep
<1>4. end \in i .. a
  BY <1>1, <1>2
<1>5. /\ Rehashing(m) /\ m.mRehashIndex = end
      /\ DOMAIN m.at = DOMAIN h.at
      /\ m.buckets = h.buckets /\ m.mBucketsNumber = h.mBucketsNumber
  BY <1>1, <1>4, MoveBucketsInv
<1>6. m.size[Active] = z
  BY <1>1 DEF moveBuckets, Rehashing, HashType, Table, Active, Backup
<1>7. migrate(h, step) = IF end = a THEN compeleteReHashing(m) ELSE m
  BY DEF migrate
<1>8. calculateReHashStep(m) = share
  BY <1>5 DEF calculateReHashStep
<1>9. PICK u \in Nat : i = (u + ahead) * share /\ Pace(z, c, a, b, u)
  BY DEF Paced
<1>10. CASE end = a
  <2> DEFINE g == compeleteReHashing(m)
  <2> HIDE DEF m, end
  <2>1. HashInv(g) /\ ~ isReHashing(g) /\ DOMAIN g.at = DOMAIN h.at /\ g.mBucketsNumber = b
    BY <1>1, <1>5, <1>10, CompeleteInv
  <2> HIDE DEF g
  <2>2. g.buckets[Active] = b
    BY <2>1 DEF HashInv, RehashShape
  <2> HIDE DEF a, b, c, z, i, share
  <2>3. b <= 32 \/ 10 * c >= b
    <3>1. (u + ahead) * share < a
      BY <1>1, <1>9
    <3>2. ahead \in {-1, 0, 1} /\ ahead # 1
      OBVIOUS
    <3> QED BY <1>1, <1>2, <1>3, <1>9, <3>1, <3>2, PaceFacts
  <2>4. Paced(g, ahead + 1)
    BY <2>1, <2>2, <2>3 DEF Paced, c
  <2> QED BY <1>7, <1>10, <2>4 DEF g
<1>11. CASE end # a
  <2>1. step = share /\ end = i + share
    BY <1>2, <1>11
  <2>2. end = (u + (ahead + 1)) * share
    <3> HIDE DEF share, end, i
    <3>1. \A x \in Int : (x + 1) * share = x * share + share
      BY <1>2
    <3>2. u + ahead \in Int /\ (u + ahead) + 1 = u + (ahead + 1)
      OBVIOUS
    <3> QED BY <1>9, <2>1, <3>1, <3>2
  <2> HIDE DEF m, end, share
  <2>3. isReHashing(m)
    BY <1>5 DEF Rehashing
  <2> QED BY <1>5, <1>6, <1>7, <1>8, <1>9, <1>11, <2>2, <2>3 DEF Paced
<1> QED BY <1>10, <1>11

\* The numbers that Paced is about.
LEMMA PacedNumbers ==
  ASSUME NEW h, HashInv(h)
  PROVE  /\ h.size[Active] \in Nat /\ Cardinality(DOMAIN h.at) \in Nat
         /\ Cardinality(DOMAIN h.at) <= Cardinality(Entry)
         /\ h.buckets[Active] \in BucketSizes /\ h.buckets[Active] \in Nat
         /\ ~ isReHashing(h) => h.size[Active] = Cardinality(DOMAIN h.at)
         /\ isReHashing(h) => /\ h.buckets[Backup] \in BucketSizes /\ h.buckets[Backup] \in Nat
                              /\ calculateReHashStep(h) \in Nat
<1>1. HashType(h) /\ h.size[Active] \in Nat /\ h.buckets[Active] \in BucketSizes
  BY DEF HashInv, HashType, RehashShape, Table
<1>2. isReHashing(h) => h.buckets[Backup] \in BucketSizes
  BY DEF HashInv, HashType, RehashShape
<1>3. ~ isReHashing(h) => h.size[Active] = Cardinality(DOMAIN h.at)
  BY DEF HashInv, CountsFit
<1> QED BY <1>1, <1>2, <1>3, NodesFinite, BucketSizesType, RehashNumbers

\* A share ahead is more than is asked.
LEMMA PacedAhead ==
  ASSUME NEW h, HashInv(h), Paced(h, 1)
  PROVE  Paced(h, 0)
<1>1. CASE ~ isReHashing(h)
  BY <1>1 DEF Paced
<1>2. CASE isReHashing(h)
  <2> DEFINE c == Cardinality(DOMAIN h.at)
             share == calculateReHashStep(h)
  <2>1. PICK u \in Nat : /\ h.mRehashIndex = (u + 1) * share
                         /\ Pace(h.size[Active], c, h.buckets[Active], h.buckets[Backup], u)
    BY <1>2 DEF Paced
  <2> HIDE DEF share, c
  <2>2. Pace(h.size[Active], c, h.buckets[Active], h.buckets[Backup], u + 1)
    BY <1>2, <2>1, PacedNumbers, PaceGrows DEF c
  <2>3. u + 1 \in Nat /\ (u + 1) + 0 = u + 1
    OBVIOUS
  <2> QED BY <1>2, <2>1, <2>2, <2>3 DEF Paced, c, share
<1> QED BY <1>1, <1>2

\* What startReHashing leaves and sets.
LEMMA StartNumbers ==
  ASSUME NEW h, HashInv(h), ~ isReHashing(h)
  PROVE  LET s == startReHashing(h)
         IN  /\ HashInv(s) /\ isReHashing(s)
             /\ s.at = h.at /\ s.size[Active] = h.size[Active]
             /\ s.buckets[Active] = h.buckets[Active]
             /\ s.buckets[Backup] = getNextPower2(h.size[Active])
             /\ s.mRehashIndex = 0
<1> DEFINE s == startReHashing(h)
<1>1. HashInv(s) /\ isReHashing(s)
  BY StartReHashingInv, BetweenCalls
<1>2. /\ s.at = h.at /\ s.size[Active] = h.size[Active]
      /\ s.buckets[Active] = h.buckets[Active]
      /\ s.buckets[Backup] = getNextPower2(h.size[Active])
      /\ s.mRehashIndex = 0
  BY DEF startReHashing, HashInv, HashType, Table, Active, Backup
<1> QED BY <1>1, <1>2

LEMMA GrowthPaced ==
  ASSUME CodeConstants, NEW h, HashInv(h), ~ isReHashing(h), isNeedReHash(h), Load(h)
  PROVE  Paced(startReHashing(h), 0)
<1> DEFINE s == startReHashing(h)
           a == h.buckets[Active]
           z == h.size[Active]
<1>1. /\ HashInv(s) /\ isReHashing(s)
      /\ s.at = h.at /\ s.size[Active] = z
      /\ s.buckets[Active] = a
      /\ s.buckets[Backup] = getNextPower2(z)
      /\ s.mRehashIndex = 0
  BY StartNumbers
<1>2. /\ z \in Nat /\ z = Cardinality(DOMAIN h.at) /\ z <= Cardinality(Entry)
      /\ a \in BucketSizes /\ a \in Nat
  BY PacedNumbers
<1>3. z > a /\ z <= 2 * a
  <2>1. z > a * mLoadFactor /\ z <= 2 * a * mLoadFactor
    BY <1>2 DEF isNeedReHash, Load, HashInv, RehashShape
  <2> QED BY <1>2, <2>1 DEF CodeConstants
<1> HIDE DEF s, a, z
<1>4. getNextPower2(z) = 2 * a
  BY <1>2, <1>3, GrowthDoubles
<1>5. Pace(z, z, a, 2 * a, 0)
  BY <1>2, <1>3 DEF Pace
<1>6. 0 \in Nat /\ (0 + 0) * calculateReHashStep(s) = 0
  BY <1>1, PacedNumbers
<1>7. s.size[Active] = z /\ s.buckets[Backup] = 2 * a /\ Cardinality(DOMAIN s.at) = z
  BY <1>1, <1>2, <1>4
<1>8. Paced(s, 0)
  BY <1>1, <1>5, <1>6, <1>7 DEF Paced
<1> QED BY <1>8 DEF s

LEMMA ShrinkPaced ==
  ASSUME CodeConstants, NEW h, HashInv(h), ~ isReHashing(h), isNeedShrink(h),
         h.buckets[Active] <= 32 \/ 10 * (h.size[Active] + 1) >= h.buckets[Active]
  PROVE  Paced(startReHashing(h), -1)
<1> DEFINE s == startReHashing(h)
           a == h.buckets[Active]
           z == h.size[Active]
<1>1. /\ HashInv(s) /\ isReHashing(s)
      /\ s.at = h.at /\ s.size[Active] = z
      /\ s.buckets[Active] = a
      /\ s.buckets[Backup] = getNextPower2(z)
      /\ s.mRehashIndex = 0
  BY StartNumbers
<1>2. /\ z \in Nat /\ z = Cardinality(DOMAIN h.at) /\ z <= Cardinality(Entry)
      /\ a \in BucketSizes /\ a \in Nat
  BY PacedNumbers
<1>3. z > 4 /\ 10 * z < a
  BY <1>2 DEF isNeedShrink, CodeConstants
<1> HIDE DEF s, a, z
<1>4. a <= 32 \/ 10 * (z + 1) >= a
  BY DEF a, z
<1>5. Pace(z, z, a, getNextPower2(z), 1)
  BY <1>2, <1>3, <1>4, ShrinkPace DEF CodeConstants
<1>6. 1 \in Nat /\ (1 + -1) * calculateReHashStep(s) = 0
  BY <1>1, PacedNumbers
<1>7. Cardinality(DOMAIN s.at) = z
  BY <1>1, <1>2
<1>8. Paced(s, -1)
  BY <1>1, <1>5, <1>6, <1>7 DEF Paced
<1> QED BY <1>8 DEF s

\* The prologue of a call makes one share.
LEMMA PreparedPaced ==
  ASSUME CodeConstants, NEW h, HashInv(h), Load(h), Paced(h, 0)
  PROVE  Paced(prepared(h), 1)
<1> DEFINE s == IF isReHashing(h) THEN h ELSE startReHashing(h)
<1>1. CASE isReHashing(h) \/ isNeedReHash(h)
  <2>1. HashInv(s) /\ isReHashing(s)
    BY StartReHashingInv, BetweenCalls
  <2>2. Paced(s, 0)
    BY <1>1, GrowthPaced
  <2>3. prepared(h) = migrate(s, calculateReHashStep(s))
    BY <1>1 DEF prepared, rehash
  <2> HIDE DEF s
  <2>4. 0 + 1 = 1 /\ 0 \in {-1, 0} /\ MIN_BUCKETS_SIZE = 4
    BY DEF CodeConstants
  <2>5. Paced(migrate(s, calculateReHashStep(s)), 0 + 1)
    BY <2>1, <2>2, <2>4, StepType, MigratePaced
  <2> QED BY <2>3, <2>4, <2>5
<1>2. CASE ~ isReHashing(h) /\ ~ isNeedReHash(h)
  BY <1>2 DEF prepared, Paced
<1> QED BY <1>1, <1>2

LEMMA CompletedPaced ==
  ASSUME MIN_BUCKETS_SIZE = 4, NEW h, HashInv(h), Paced(h, 0)
  PROVE  Paced(completed(h), 0)
<1>1. CASE isReHashing(h)
  <2>1. h.buckets[Active] \in Nat /\ 0 \in {-1, 0} /\ 0 + 1 = 1
    BY PacedNumbers
  <2>2. Paced(completed(h), 0 + 1)
    BY <1>1, <2>1, MigratePaced DEF completed
  <2> QED BY <2>1, <2>2, CompletedInv, PacedAhead
<1>2. CASE ~ isReHashing(h)
  BY <1>2 DEF completed
<1> QED BY <1>1, <1>2

\* A node is linked into the newest table.
LEMMA InsertPaced ==
  ASSUME NEW h, HashInv(h), Paced(h, 0), NEW b \in Nat, b < h.buckets[Newest(h)],
         NEW n \in Entry, n \notin DOMAIN h.at
  PROVE  Paced(insertNode(h, Newest(h), b, n), 0)
<1> DEFINE t == Newest(h)
           g == insertNode(h, t, b, n)
           c == Cardinality(DOMAIN h.at)
<1>1. /\ DOMAIN g.at = DOMAIN h.at \union {n} /\ g.buckets = h.buckets
      /\ g.mRehashIndex = h.mRehashIndex
      /\ isReHashing(h) => g.size[Active] = h.size[Active]
  <2>1. t \in Table /\ (isReHashing(h) => t # Active)
    BY DEF Newest, Table, Active, Backup
  <2> HIDE DEF t
  <2>2. ~ (b >= h.buckets[t])
    BY <2>1, BucketSizesType DEF HashInv, HashType, t
  <2> QED BY <2>1, <2>2 DEF insertNode, HashInv, HashType, Table
<1> HIDE DEF g
<1>2. Cardinality(DOMAIN g.at) = c + 1
  BY <1>1, NodesFinite, FS_AddElement DEF HashInv
<1>3. calculateReHashStep(g) = calculateReHashStep(h) /\ isReHashing(g) = isReHashing(h)
  BY <1>1 DEF calculateReHashStep, isReHashing
<1>4. /\ c \in Nat /\ h.size[Active] \in Nat /\ h.buckets[Active] \in Nat
      /\ isReHashing(h) => h.buckets[Backup] \in Nat
  BY PacedNumbers
<1>5. CASE isReHashing(h)
  <2>1. PICK u \in Nat : /\ h.mRehashIndex = (u + 0) * calculateReHashStep(h)
                         /\ Pace(h.size[Active], c, h.buckets[Active], h.buckets[Backup], u)
    BY <1>5 DEF Paced
  <2> HIDE DEF c
  <2>2. Pace(h.size[Active], c + 1, h.buckets[Active], h.buckets[Backup], u)
    BY <1>4, <1>5, <2>1, PaceGrows
  <2> QED BY <1>1, <1>2, <1>3, <1>5, <2>1, <2>2 DEF Paced, g
<1>6. CASE ~ isReHashing(h)
  <2>1. h.buckets[Active] <= 32 \/ 10 * c >= h.buckets[Active]
    BY <1>6 DEF Paced
  <2> HIDE DEF c
  <2>2. h.buckets[Active] <= 32 \/ 10 * (c + 1) >= h.buckets[Active]
    BY <1>4, <2>1
  <2> QED BY <1>1, <1>2, <1>3, <1>6, <2>2 DEF Paced, g
<1> QED BY <1>5, <1>6

\* An erase takes the share of its prologue, and one more when mActive counts
\* more than 4 nodes: then eraseNode is followed by another call of rehash.
LEMMA ErasePaced ==
  ASSUME CodeConstants, NEW h, HashInv(h), Paced(h, 1), NEW n \in DOMAIN h.at
  PROVE  LET e == eraseNode(h, h.at[n].table, n)
             s == IF isReHashing(e) THEN e ELSE startReHashing(e)
         IN  IF isNeedShrink(e) THEN Paced(s, -1) ELSE Paced(e, 0)
<1> DEFINE t == h.at[n].table
           e == eraseNode(h, t, n)
           a == h.buckets[Active]
           b == h.buckets[Backup]
           c == Cardinality(DOMAIN e.at)
           z == h.size[Active]
           y == e.size[Active]
<1>1. /\ DOMAIN e.at = DOMAIN h.at \ {n} /\ e.buckets = h.buckets
      /\ e.mRehashIndex = h.mRehashIndex
      /\ y = z \/ y = z - 1
  <2>1. t \in Table
    BY DEF HashInv, HashType, Place
  <2> HIDE DEF t
  <2>2. e.size[Active] = IF t = Active THEN z - 1 ELSE z
    BY <2>1 DEF eraseNode, HashInv, HashType, Table
  <2> QED BY <2>2 DEF eraseNode, HashInv, HashType
<1>2. HashInv(e)
  BY EraseNodeInv
<1> HIDE DEF e, t
<1>3. calculateReHashStep(e) = calculateReHashStep(h) /\ isReHashing(e) = isReHashing(h)
  BY <1>1 DEF calculateReHashStep, isReHashing
<1>4. /\ z \in Nat /\ y \in Nat /\ c \in Nat /\ a \in Nat /\ a \in BucketSizes
      /\ isReHashing(h) => b \in Nat /\ calculateReHashStep(h) \in Nat
      /\ ~ isReHashing(h) => z = c + 1 /\ y = c
      /\ Cardinality(DOMAIN h.at) = c + 1
  <2>1. Cardinality(DOMAIN e.at) = Cardinality(DOMAIN h.at) - 1
    BY <1>1, NodesFinite, FS_RemoveElement DEF HashInv
  <2>2. Cardinality(DOMAIN h.at) \in Nat
    BY PacedNumbers
  <2>3. Cardinality(DOMAIN h.at) = c + 1
    BY <2>1, <2>2
  <2> QED BY <1>2, <1>3, <2>3, PacedNumbers
<1>5. isNeedShrink(e) <=> y > 4 /\ 10 * y < a
  BY <1>1, <1>4 DEF isNeedShrink, CodeConstants
<1> HIDE DEF a, b, c, y, z
<1>6. CASE isReHashing(h)
  <2> DEFINE share == calculateReHashStep(h)
  <2>1. PICK u \in Nat : h.mRehashIndex = (u + 1) * share /\ Pace(z, c + 1, a, b, u)
    BY <1>4, <1>6 DEF Paced, a, b, z
  <2>2. y = z \/ y + 1 = z
    BY <1>1, <1>4
  <2>3. /\ ~ (y > 4 /\ 10 * y < a) => Pace(y, c, a, b, u + 1)
        /\ y > 4 /\ 10 * y < a => Pace(y, c, a, b, u + 2)
    BY <1>4, <1>6, <2>1, <2>2, PaceErase
  <2>4. u + 1 \in Nat /\ u + 2 \in Nat /\ (u + 1) + 0 = u + 1 /\ (u + 2) + -1 = u + 1
    OBVIOUS
  <2>5. CASE isNeedShrink(e)
    <3>1. Pace(y, c, a, b, u + 2)
      BY <1>5, <2>3, <2>5
    <3>2. e.mRehashIndex = ((u + 2) + -1) * calculateReHashStep(e)
      BY <1>1, <1>3, <2>1, <2>4
    <3>3. Paced(e, -1)
      BY <1>1, <1>3, <1>6, <2>4, <3>1, <3>2 DEF Paced, a, b, c, y
    <3> QED BY <1>3, <1>6, <2>5, <3>3 DEF e, t
  <2>6. CASE ~ isNeedShrink(e)
    <3>1. Pace(y, c, a, b, u + 1)
      BY <1>5, <2>3, <2>6
    <3>2. e.mRehashIndex = ((u + 1) + 0) * calculateReHashStep(e)
      BY <1>1, <1>3, <2>1, <2>4
    <3>3. Paced(e, 0)
      BY <1>1, <1>3, <1>6, <2>4, <3>1, <3>2 DEF Paced, a, b, c, y
    <3> QED BY <2>6, <3>3 DEF e, t
  <2> QED BY <2>5, <2>6
<1>7. CASE ~ isReHashing(h)
  <2>1. a <= 32 \/ 10 * (c + 1) >= a
    BY <1>4, <1>7 DEF Paced, a
  <2>2. CASE isNeedShrink(e)
    <3>1. e.buckets[Active] <= 32 \/ 10 * (e.size[Active] + 1) >= e.buckets[Active]
      BY <1>1, <1>4, <1>7, <2>1 DEF a, y
    <3>2. Paced(startReHashing(e), -1)
      BY <1>2, <1>3, <1>7, <2>2, <3>1, ShrinkPaced
    <3> QED BY <1>3, <1>7, <2>2, <3>2 DEF e, t
  <2>3. CASE ~ isNeedShrink(e)
    <3>1. a <= 32 \/ 10 * c >= a
      <4> SUFFICES ASSUME a > 32 PROVE 10 * c >= a
        BY <1>4
      <4>1. a >= 64
        BY <1>4, LargeTable DEF CodeConstants
      <4> QED BY <1>4, <1>5, <1>7, <2>1, <2>3, <4>1
    <3>2. Paced(e, 0)
      BY <1>1, <1>3, <1>7, <3>1 DEF Paced, a, c
    <3> QED BY <2>3, <3>2 DEF e, t
  <2> QED BY <2>2, <2>3
<1> QED BY <1>6, <1>7

LEMMA ErasedPaced ==
  ASSUME CodeConstants, NEW h, HashInv(h), Load(h), Paced(h, 0), NEW k \in Key
  PROVE  Paced(erased(h, k), 0)
<1> DEFINE r == prepared(h)
           n == First(r, Found(h, k))
           e == eraseNode(r, r.at[n].table, n)
           s == IF isReHashing(e) THEN e ELSE startReHashing(e)
<1>1. HashInv(r) /\ DOMAIN r.at = DOMAIN h.at /\ Paced(r, 1)
  BY PreparedInv, PreparedPaced
<1>2. CASE Found(h, k) = {}
  BY <1>1, <1>2, PacedAhead DEF erased
<1>3. CASE Found(h, k) # {}
  <2>1. n \in DOMAIN r.at
    BY <1>1, <1>3, FoundNodes
  <2>2. HashInv(e) /\ IF isNeedShrink(e) THEN Paced(s, -1) ELSE Paced(e, 0)
    <3> HIDE DEF r, n
    <3> QED BY <1>1, <2>1, EraseNodeInv, ErasePaced
  <2>3. erased(h, k) = IF isNeedShrink(e) THEN rehash(e) ELSE e
    BY <1>3 DEF erased
  <2>4. rehash(e) = migrate(s, calculateReHashStep(s))
    BY DEF rehash
  <2>5. HashInv(s) /\ isReHashing(s)
    <3> HIDE DEF e
    <3> QED BY <2>2, StartReHashingInv, BetweenCalls
  <2> HIDE DEF e, r, s
  <2>6. CASE isNeedShrink(e)
    <3>1. -1 \in {-1, 0} /\ -1 + 1 = 0 /\ MIN_BUCKETS_SIZE = 4
      BY DEF CodeConstants
    <3>2. Paced(migrate(s, calculateReHashStep(s)), -1 + 1)
      BY <2>2, <2>5, <2>6, <3>1, StepType, MigratePaced
    <3> QED BY <2>3, <2>4, <2>6, <3>1, <3>2
  <2>7. CASE ~ isNeedShrink(e)
    BY <2>2, <2>3, <2>7
  <2> QED BY <2>6, <2>7
<1> QED BY <1>2, <1>3

-----------------------------------------------------------------------------
(* With the numbers of the code, no scan is cut short.                     *)

PaceInv == HashInv(hash) /\ Load(hash) /\ Paced(hash, 0)

LEMMA PaceInit == ASSUME CodeConstants, Init PROVE PaceInv
<1>1. HashInv(hash) /\ Cardinality(DOMAIN hash.at) = 0 /\ ~ isReHashing(hash)
  BY InitInv, FS_EmptySet DEF Init, isReHashing
<1>2. hash.buckets[Active] = 4 /\ hash.mBucketsNumber = 4
  BY DEF Init, CodeConstants, Table
<1> QED BY <1>1, <1>2 DEF PaceInv, Load, Paced, CodeConstants

LEMMA PaceCall == ASSUME CodeConstants, PaceInv, Call PROVE PaceInv'
<1> DEFINE r == prepared(hash)
<1>1. HashInv(hash) /\ Load(hash) /\ Paced(hash, 0)
  BY DEF PaceInv
<1>2. HashInv(r) /\ Roomy(r) /\ Paced(r, 0) /\ DOMAIN r.at = DOMAIN hash.at
  BY <1>1, PreparedInv, PreparedLoad, PreparedPaced, PacedAhead
<1>3. ASSUME NEW k \in Key, NEW v \in Value, Insert(k, v) PROVE PaceInv'
  <2> DEFINE n == <<k, v>>
             index == Bucket(k, hash.mBucketsMask)
  <2>1. /\ index \in Nat /\ n \in Entry /\ n \notin DOMAIN r.at /\ index < r.buckets[Newest(r)]
        /\ Newest(r) \in Table
    BY <1>1, <1>2, <1>3, PreparedInv DEF Insert, Entry, Newest, Table
  <2>2. hash' = insertNode(r, Newest(r), index, n)
    BY <1>3 DEF Insert, inserted, Newest
  <2>3. HashInv(hash')
    BY <1>1, <1>2, <1>3, <2>1, InsertedInv DEF Insert
  <2> HIDE DEF r, index, n
  <2> QED BY <1>2, <2>1, <2>2, <2>3, InsertLoad, InsertPaced DEF PaceInv
<1>4. ASSUME NEW k \in Key, Erase(k) PROVE PaceInv'
  <2>1. hash' = erased(hash, k)
    BY <1>4 DEF Erase
  <2> QED BY <1>1, <2>1, ErasedInv, ErasedLoad, ErasedPaced DEF PaceInv
<1>5. ASSUME IsExist(CHOOSE k \in Key : TRUE) PROVE PaceInv'
  <2>1. hash' = r
    BY <1>5 DEF IsExist
  <2> QED BY <1>2, <2>1, RoomyLoad DEF PaceInv
<1>6. ASSUME Iterate PROVE PaceInv'
  <2>1. hash' = completed(hash)
    BY <1>6 DEF Iterate
  <2>2. Load(completed(hash))
    <3>1. CASE isReHashing(hash)
      <4>1. hash.buckets[Active] \in Nat
        BY <1>1, PacedNumbers
      <4>2. HashInv(completed(hash)) /\ Roomy(completed(hash))
        BY <1>1, <3>1, <4>1, CompletedInv, MigrateLoad DEF completed
      <4> QED BY <4>2, RoomyLoad
    <3>2. CASE ~ isReHashing(hash)
      BY <1>1, <3>2 DEF completed
    <3> QED BY <3>1, <3>2
  <2> QED BY <1>1, <2>1, <2>2, CompletedInv, CompletedPaced DEF PaceInv, CodeConstants
<1> QED BY <1>3, <1>4, <1>5, <1>6 DEF Call

\* A share is left to make as long as a rehash lasts.
LEMMA PacedCounts == ASSUME CodeConstants, PaceInv PROVE NeverEmpty
<1> SUFFICES ASSUME isReHashing(hash) PROVE hash.size[Active] > 0
  BY DEF NeverEmpty
<1> DEFINE a == hash.buckets[Active]
           b == hash.buckets[Backup]
           c == Cardinality(DOMAIN hash.at)
           z == hash.size[Active]
           share == calculateReHashStep(hash)
<1>1. a \in BucketSizes /\ b \in BucketSizes /\ z \in Nat /\ c \in Nat
  BY PacedNumbers DEF PaceInv
<1>2. PICK u \in Nat : hash.mRehashIndex = (u + 0) * share /\ Pace(z, c, a, b, u)
  BY DEF PaceInv, Paced
<1>3. (u + 0) * share < a
  BY <1>2, BetweenCalls DEF PaceInv
<1>4. share = (IF a > b THEN a \div b ELSE b \div a)
  BY DEF calculateReHashStep
<1> HIDE DEF a, b, c, z, share
<1>5. z > 0
  <2>1. 0 \in {-1, 0, 1} /\ 0 # -1
    OBVIOUS
  <2> QED BY <1>1, <1>2, <1>3, <1>4, <2>1, PaceFacts DEF CodeConstants
<1> QED BY <1>5 DEF z

\* Although moved nodes stay counted in mActive and erased ones do not, that
\* count does not come to 0 before a rehash ends.
THEOREM CountsLast == CodeConstants => (ScanSpec => []NeverEmpty)
<1> SUFFICES ASSUME CodeConstants PROVE ScanSpec => []NeverEmpty
  OBVIOUS
<1>1. ScanInit => PaceInv
  BY PaceInit DEF ScanInit
<1>2. PaceInv /\ [ScanNext]_<<vars, scanVars>> => PaceInv'
  <2> SUFFICES ASSUME PaceInv, [ScanNext]_<<vars, scanVars>> PROVE PaceInv'
    OBVIOUS
  <2>1. CASE Call
    BY <2>1, PaceCall
  <2>2. CASE UNCHANGED hash
    BY <2>2 DEF PaceInv
  <2> QED BY <2>1, <2>2 DEF ScanNext, BeginScan, Scan, EndScan, vars
<1>3. PaceInv => NeverEmpty
  BY PacedCounts
<1> QED BY <1>1, <1>2, <1>3, PTL DEF ScanSpec

\* With the numbers of the code, an entry that is in the table from the start
\* of a scan to its end is reported by it, for all keys, all hash functions and
\* all calls in between (hash.h:534).
THEOREM ScanMissesNothingHolds == CodeConstants => (ScanSpec => []ScanMissesNothing)
<1> SUFFICES ASSUME CodeConstants PROVE ScanSpec => []ScanMissesNothing
  OBVIOUS
<1>1. ScanSpec => []NeverEmpty
  BY CountsLast
<1> QED BY <1>1, MissesOnlyWhenCut, PTL
=============================================================================
