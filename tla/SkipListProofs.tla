--------------------------- MODULE SkipListProofs ---------------------------
(***************************************************************************)
(* What holds of module SkipList for every set of keys and nodes and any   *)
(* number of levels.                                                       *)
(*                                                                         *)
(* Everything rests on positions: a walk knows the position of the node it *)
(* is at, the nodes it has passed are those up to that position, and the   *)
(* links and spans of a level are determined by the positions of its nodes.*)
(***************************************************************************)
EXTENDS SkipList, TLAPS, WellFoundedInduction

On(i) == linked[i] \union {Head}

\* The rank of what a pointer leads to, where the tail has that of the last node.
Rank(n) == IF n = Tail THEN mLength ELSE pos[n]

Shapes ==
  /\ Live \subseteq Node
  /\ mKey \in [Live -> Key]
  /\ DOMAIN mNexts = {Head} \union Live /\ DOMAIN mSpans = {Head} \union Live
  /\ \A n \in {Head} \union Live :
       \E h \in Level : mNexts[n] \in [0 .. h -> {Tail} \union Node] /\ mSpans[n] \in [0 .. h -> Nat]
  /\ mBackword \in [{Tail} \union Live -> {Head} \union Node]
  /\ mMaxLevel \in Level /\ mLength \in Nat
  /\ linked \in [Level -> SUBSET Live]

\* Positions number the nodes in the order of their keys.
Positions ==
  /\ pos \in [Live -> 1 .. mLength]
  /\ \A n, m \in Live : pos[n] = pos[m] => n = m
  /\ \A p \in 1 .. mLength : \E n \in Live : pos[n] = p
  /\ \A n, m \in Live : pos[n] < pos[m] => mKey[n] <= mKey[m]

\* A node of a level is on every level below.
Nested ==
  \A i, j \in 0 .. mMaxLevel : j <= i => linked[i] \subseteq linked[j]

ListInv ==
  Shapes /\ Positions /\ Nested /\ LevelsLinkInOrder /\ SpansAreDistances /\ BackwardInverts

\* The keys a walk goes past.
Passed(n) == IF call.op \in NotLess THEN mKey[n] < call.key ELSE mKey[n] <= call.key

\* The walk leaves level i at node n: it has passed n, and the next is beyond the key.
LeavesAt(i, n) ==
  /\ n \in On(i)
  /\ n # Head => Passed(n)
  /\ ~NotBeyond(mNexts[n][i])

Ops == {"insert", "erase", "lower_bound", "upper_bound", "getRank"}
Updates == {"insert", "erase"}

CallType ==
  call \in [op : Ops \union {"none"}, key : Int, level : Level, nd : {Head} \union Live,
            currLevel : Level \union {-1}, walked : Nat,
            prevs : [Level -> {NullPtr, Head} \union Live], ranks : [Level -> Nat]]

WalkInv ==
  call # NoCall =>
    /\ call.op \in Ops /\ call.key \in Key
    /\ call.currLevel <= mMaxLevel
    /\ call.nd \in On(0)
    /\ call.currLevel >= 0 => call.nd \in On(call.currLevel)
    /\ call.nd # Head => Passed(call.nd)
    /\ call.walked = At(call.nd)
    /\ call.currLevel = -1 =>
         /\ LeavesAt(0, call.nd)
         /\ call.op \in Updates => call.prevs[0] = call.nd
    /\ \A i \in Level :
         call.currLevel < i /\ i <= mMaxLevel =>
           /\ call.op \in Updates => LeavesAt(i, call.prevs[i])
           /\ call.op = "insert" => call.ranks[i] = At(call.prevs[i])
    /\ \A i \in Level : i > mMaxLevel => call.ranks[i] = 0

IInv == ListInv /\ CallType /\ WalkInv

-----------------------------------------------------------------------------
(* Facts about positions.                                                  *)

LEMMA LevelFacts ==
  /\ 0 \in Level
  /\ Level \subseteq Nat
  /\ \A i \in Level : \A j \in Int : 0 <= j /\ j <= i => j \in Level
  BY SkipListAssumption DEF Level

\* Nodes are none of the sentinels.
LEMMA NodeFacts == ASSUME Shapes, NEW n \in Live PROVE n # Head /\ n # Tail /\ n # NullPtr
  BY SkipListAssumption DEF Shapes

\* Where things are.
LEMMA AtFacts ==
  ASSUME Shapes, Positions
  PROVE  /\ At(Head) = 0 /\ At(Tail) = mLength + 1 /\ mLength \in Nat
         /\ \A n \in Live : At(n) = pos[n] /\ At(n) \in 1 .. mLength /\ Rank(n) = At(n)
         /\ Rank(Tail) = mLength
  BY SkipListAssumption DEF Shapes, Positions, At, Rank, Head, Tail

\* The nodes of level i have a pointer on it, to a node of the level or the tail.
LEMMA OnFacts ==
  ASSUME ListInv, NEW i \in 0 .. mMaxLevel, NEW n \in On(i)
  PROVE  /\ i \in Level
         /\ n \in {Head} \union Live
         /\ i \in DOMAIN mNexts[n]
         /\ mNexts[n][i] \in linked[i] \union {Tail}
         /\ mNexts[n][i] \in Live \union {Tail}
         /\ At(n) < At(mNexts[n][i])
         /\ \A m \in linked[i] : At(m) <= At(n) \/ At(m) >= At(mNexts[n][i])
         /\ mSpans[n][i] = Rank(mNexts[n][i]) - At(n)
<1>1. i \in Level
  BY LevelFacts DEF ListInv, Shapes
<1>2. linked[i] \subseteq Live
  BY <1>1 DEF ListInv, Shapes
<1>3. n \in {Head} \union Live
  BY <1>2 DEF On
<1>4. i \in DOMAIN mNexts[n] /\ mNexts[n][i] \in linked[i] \union {Tail}
      /\ At(n) < At(mNexts[n][i])
  BY DEF ListInv, LevelsLinkInOrder, On
<1>5. mNexts[n][i] \in Live \union {Tail}
  BY <1>2, <1>4
<1>6. \A m \in linked[i] : At(m) <= At(n) \/ At(m) >= At(mNexts[n][i])
  <2>1. \A m \in linked[i] : ~(At(n) < At(m) /\ At(m) < At(mNexts[n][i]))
    BY DEF ListInv, LevelsLinkInOrder, On
  <2>2. At(n) \in Int /\ At(mNexts[n][i]) \in Int /\ \A m \in linked[i] : At(m) \in Int
    BY <1>2, <1>3, <1>5, AtFacts DEF ListInv
  <2> QED BY <2>1, <2>2
<1>7. mSpans[n][i] = Rank(mNexts[n][i]) - At(n)
  BY DEF ListInv, SpansAreDistances, On, Rank
<1> QED BY <1>1, <1>3, <1>4, <1>5, <1>6, <1>7

\* Where a walk leaves a level it has passed exactly the nodes up to there.
LEMMA Separates ==
  ASSUME ListInv, call.key \in Int, NEW i \in 0 .. mMaxLevel, NEW n, LeavesAt(i, n)
  PROVE  /\ n \in On(i)
         /\ \A m \in linked[i] : Passed(m) <=> At(m) <= At(n)
<1>1. n \in On(i) /\ (n # Head => Passed(n)) /\ ~NotBeyond(mNexts[n][i])
  BY DEF LeavesAt
<1>2. linked[i] \subseteq Live /\ n \in {Head} \union Live /\ mNexts[n][i] \in Live \union {Tail}
      /\ \A m \in linked[i] : At(m) <= At(n) \/ At(m) >= At(mNexts[n][i])
  BY <1>1, OnFacts DEF ListInv, Shapes
<1>3. \A m \in Live : mKey[m] \in Int
  BY SkipListAssumption DEF ListInv, Shapes
<1>4. ASSUME NEW m \in linked[i], At(m) <= At(n)
      PROVE  Passed(m)
  <2>1. n # Head /\ n \in Live /\ m \in Live
    <3>1. m \in Live /\ At(m) >= 1
      BY <1>2, AtFacts DEF ListInv
    <3>2. n # Head
      BY <1>4, <3>1, AtFacts DEF ListInv
    <3> QED BY <1>2, <3>1, <3>2
  <2>2. mKey[m] <= mKey[n]
    <3>1. pos[m] <= pos[n] /\ pos[m] \in Int /\ pos[n] \in Int
      BY <1>4, <2>1, AtFacts DEF ListInv
    <3>2. pos[m] = pos[n] \/ pos[m] < pos[n]
      BY <3>1
    <3> QED BY <1>3, <2>1, <3>2 DEF ListInv, Positions
  <2> QED BY <1>1, <1>3, <2>1, <2>2 DEF Passed
<1>5. ASSUME NEW m \in linked[i], ~(At(m) <= At(n))
      PROVE  ~Passed(m)
  <2> DEFINE x == mNexts[n][i]
  <2>1. m \in Live /\ At(m) >= At(x)
    BY <1>2, <1>5
  <2>2. x \in Live
    BY <1>2, <2>1, AtFacts DEF ListInv
  <2>3. mKey[x] <= mKey[m]
    <3>1. pos[x] <= pos[m] /\ pos[m] \in Int /\ pos[x] \in Int
      BY <2>1, <2>2, AtFacts DEF ListInv
    <3>2. pos[m] = pos[x] \/ pos[x] < pos[m]
      BY <3>1
    <3> QED BY <1>3, <2>1, <2>2, <3>2 DEF ListInv, Positions
  <2>4. ~Passed(x)
    BY <1>1, <2>2, NodeFacts DEF NotBeyond, Passed, ListInv
  <2> QED BY <1>3, <2>1, <2>2, <2>3, <2>4 DEF Passed
<1> QED BY <1>1, <1>4, <1>5

\* Of two walks' ends, the one on the bottom level is the farther, and the next
\* node of the upper level lies behind it.
LEMMA Bracket ==
  ASSUME ListInv, call.key \in Int, NEW i \in 0 .. mMaxLevel, NEW n, LeavesAt(i, n),
         NEW b, LeavesAt(0, b)
  PROVE  At(n) <= At(b) /\ At(b) < At(mNexts[n][i])
<1>1. 0 \in 0 .. mMaxLevel /\ linked[0] = Live
  BY LevelFacts DEF ListInv, Shapes, BackwardInverts
<1>2. n \in On(i) /\ b \in On(0) /\ (n # Head => Passed(n)) /\ ~NotBeyond(mNexts[n][i])
  BY DEF LeavesAt
<1>3. n \in {Head} \union Live /\ b \in {Head} \union Live /\ mNexts[n][i] \in Live \union {Tail}
  BY <1>1, <1>2, OnFacts
<1>4. \A m \in Live : Passed(m) <=> At(m) <= At(b)
  BY <1>1, Separates
<1>5. At(b) \in 0 .. mLength
  BY <1>3, AtFacts DEF ListInv
<1>6. At(n) <= At(b)
  BY <1>2, <1>3, <1>4, <1>5, AtFacts DEF ListInv
<1>7. CASE mNexts[n][i] = Tail
  BY <1>5, <1>6, <1>7, AtFacts DEF ListInv
<1>8. CASE mNexts[n][i] \in Live
  <2>1. ~Passed(mNexts[n][i])
    BY <1>2, <1>8, NodeFacts DEF NotBeyond, Passed, ListInv
  <2> QED BY <1>4, <1>5, <1>6, <1>8, <2>1, AtFacts DEF ListInv
<1> QED BY <1>3, <1>6, <1>7, <1>8

-----------------------------------------------------------------------------
(* The initial state, and the steps that leave the list alone.             *)

LEMMA InitInv == Init => IInv
<1> SUFFICES ASSUME Init PROVE IInv
  OBVIOUS
<1> USE DEF Init
<1>1. Live = {} /\ 0 \in Level /\ mMaxLevel = 0
  BY LevelFacts DEF Live
<1>2. Shapes
  <2>1. mNexts[Head] \in [0 .. 0 -> {Tail} \union Node] /\ mSpans[Head] \in [0 .. 0 -> Nat]
    BY DEF Head, Tail
  <2>2. linked \in [Level -> SUBSET Live]
    BY <1>1
  <2> QED BY <1>1, <2>1, <2>2 DEF Shapes
<1>3. Positions /\ Nested
  BY <1>1, LevelFacts DEF Positions, Nested
<1>4. linked[0] = {}
  BY <1>1
<1>5. LevelsLinkInOrder /\ SpansAreDistances /\ BackwardInverts
  BY <1>1, <1>4, LevelFacts DEF LevelsLinkInOrder, SpansAreDistances, BackwardInverts, At, Head, Tail
<1>6. CallType /\ WalkInv
  BY <1>1, LevelFacts DEF CallType, WalkInv, NoCall
<1> QED BY <1>2, <1>3, <1>5, <1>6 DEF IInv, ListInv

\* ListInv speaks of the list only.
LEMMA ListUnchanged == ASSUME ListInv, UNCHANGED shape PROVE ListInv'
<1>1. Shapes'
  BY DEF ListInv, shape, Shapes, Live
<1>2. Positions' /\ Nested' /\ BackwardInverts'
  BY DEF ListInv, shape, Positions, Nested, BackwardInverts, Live
<1>3. LevelsLinkInOrder' /\ SpansAreDistances'
  BY DEF ListInv, shape, LevelsLinkInOrder, SpansAreDistances, At
<1> QED BY <1>1, <1>2, <1>3 DEF ListInv

\* Entering a method puts the walk at the head.
LEMMA SearchStep ==
  ASSUME IInv, NEW op \in Ops, NEW k \in Key, NEW level \in Level, Search(op, k, level)
  PROVE  IInv'
<1>1. ListInv'
  BY ListUnchanged DEF IInv, Search
<1>2. call' = [NoCall EXCEPT !.op = op, !.key = k, !.level = level, !.currLevel = mMaxLevel]
      /\ UNCHANGED shape
  BY DEF Search
<1>3. mMaxLevel \in Level /\ mMaxLevel' = mMaxLevel /\ mMaxLevel \in Nat
  BY <1>2, LevelFacts DEF IInv, ListInv, Shapes, shape
<1>4. CallType'
  BY <1>2, <1>3, LevelFacts, SkipListAssumption DEF CallType, NoCall
<1>5. /\ call'.op = op /\ call'.key = k /\ call'.nd = Head /\ call'.currLevel = mMaxLevel
      /\ call'.walked = 0 /\ call'.ranks = [i \in Level |-> 0]
  BY <1>2 DEF NoCall
<1>6. WalkInv'
  <2>1. call'.currLevel # -1 /\ \A i \in Level : ~(call'.currLevel < i /\ i <= mMaxLevel')
    BY <1>3, <1>5, LevelFacts
  <2>2. call'.nd \in On(0)' /\ (call'.nd \in On(call.currLevel)')
    BY <1>5 DEF On
  <2>3. call'.walked = At(call.nd)'
    BY <1>5 DEF At
  <2>4. \A i \in Level : call'.ranks[i] = 0
    BY <1>5
  <2>5. call'.currLevel <= mMaxLevel'
    BY <1>3, <1>5
  <2> QED BY <1>5, <2>1, <2>2, <2>3, <2>4, <2>5 DEF WalkInv
<1> QED BY <1>1, <1>4, <1>6 DEF IInv

\* Steps after which no call runs.
LEMMA ReturnStep ==
  ASSUME ListInv', call' = NoCall
  PROVE  IInv'
<1>1. CallType' /\ WalkInv'
  BY LevelFacts DEF CallType, WalkInv, NoCall
<1> QED BY <1>1 DEF IInv
\* What a walk knows of the levels above it stays true as it goes on.
LEMMA AboveUnchanged ==
  ASSUME IInv, UNCHANGED shape, call'.op = call.op, call'.key = call.key,
         NEW i \in Level, call.currLevel < i, i <= mMaxLevel, call # NoCall,
         call'.prevs[i] = call.prevs[i], call'.ranks[i] = call.ranks[i]
  PROVE  /\ call'.op \in Updates => LeavesAt(i, call.prevs[i])'
         /\ call'.op = "insert" => call'.ranks[i] = At(call.prevs[i])'
<1>1. /\ call.op \in Updates => LeavesAt(i, call.prevs[i])
      /\ call.op = "insert" => call.ranks[i] = At(call.prevs[i])
  BY DEF IInv, WalkInv
<1>2. LeavesAt(i, call.prevs[i])' <=> LeavesAt(i, call.prevs[i])
  BY DEF LeavesAt, On, Passed, NotBeyond, shape
<1>3. At(call.prevs[i])' = At(call.prevs[i])
  BY DEF At, shape
<1> QED BY <1>1, <1>2, <1>3

\* Levels are numbers, and a walk is on one of those the list uses.
LEMMA CurrLevelFacts ==
  ASSUME IInv
  PROVE  /\ mMaxLevel \in Level /\ mMaxLevel \in Nat
         /\ call.currLevel \in Int /\ call.currLevel >= -1
         /\ call.currLevel >= 0 => call.currLevel \in Level
         /\ call # NoCall => call.currLevel <= mMaxLevel
<1>1. mMaxLevel \in Level
  BY DEF IInv, ListInv, Shapes
<1>2. call.currLevel \in Level \union {-1}
  BY DEF IInv, CallType
<1>3. call # NoCall => call.currLevel <= mMaxLevel
  BY DEF IInv, WalkInv
<1>4. \A l \in Level : l \in Nat
  BY LevelFacts
<1>5. call.currLevel \in Int /\ call.currLevel >= -1
      /\ (call.currLevel >= 0 => call.currLevel \in Level)
  <2>1. CASE call.currLevel \in Level
    BY <1>4, <2>1
  <2>2. CASE call.currLevel = -1
    BY <2>2
  <2> QED BY <1>2, <2>1, <2>2
<1> QED BY <1>1, <1>3, <1>4, <1>5

\* A step along a level leads to a node of it that is passed, at the position
\* that the span says.
LEMMA ForwardFacts ==
  ASSUME IInv, Forward
  PROVE  /\ call # NoCall /\ call.currLevel \in 0 .. mMaxLevel
         /\ next \in Live /\ next \in linked[call.currLevel] /\ next \in linked[0]
         /\ Passed(next)
         /\ At(call.nd) < At(next)
         /\ call.walked + mSpans[call.nd][call.currLevel] = At(next)
<1>1. call.currLevel >= 0 /\ NotBeyond(next)
  BY DEF Forward
<1>2. call # NoCall
  BY <1>1 DEF NoCall
<1>3. call.currLevel \in 0 .. mMaxLevel
  BY <1>1, <1>2, CurrLevelFacts
<1>4. call.nd \in On(call.currLevel) /\ call.walked = At(call.nd)
  BY <1>1, <1>2 DEF IInv, WalkInv
<1>5. next # Tail /\ Passed(next)
  BY <1>1 DEF NotBeyond, Passed
<1>6. next \in linked[call.currLevel] /\ next \in Live /\ At(call.nd) < At(next)
      /\ mSpans[call.nd][call.currLevel] = Rank(next) - At(call.nd)
      /\ call.nd \in {Head} \union Live
  BY <1>3, <1>4, <1>5, OnFacts DEF IInv, next
<1>7. next \in linked[0]
  BY <1>3, <1>6 DEF IInv, ListInv, BackwardInverts
<1>8. call.walked + mSpans[call.nd][call.currLevel] = At(next)
  BY <1>4, <1>6, AtFacts DEF IInv, ListInv
<1> QED BY <1>2, <1>3, <1>5, <1>6, <1>7, <1>8

LEMMA ForwardStep == ASSUME IInv, Forward PROVE IInv'
<1>1. /\ call' = [call EXCEPT !.nd = next, !.walked = @ + mSpans[call.nd][call.currLevel]]
      /\ UNCHANGED shape
  BY DEF Forward
<1>2. ListInv'
  BY <1>1, ListUnchanged DEF IInv
<1>3. CallType
  BY DEF IInv
<1>4. /\ call'.op = call.op /\ call'.key = call.key /\ call'.level = call.level
      /\ call'.nd = next /\ call'.currLevel = call.currLevel /\ call'.walked = At(next)
      /\ call'.prevs = call.prevs /\ call'.ranks = call.ranks
  BY <1>1, <1>3, ForwardFacts DEF CallType
<1>5. call'.walked \in Nat /\ next \in Live /\ UNCHANGED Live
  BY <1>1, <1>4, ForwardFacts, AtFacts DEF IInv, ListInv, shape, Live
<1>6. CallType'
  <2>1. call.walked + mSpans[call.nd][call.currLevel] \in Nat
    BY <1>4, <1>5, ForwardFacts
  <2> QED BY <1>1, <1>3, <1>5, <2>1 DEF CallType
<1>7. WalkInv'
  <2>1. call # NoCall /\ call.op \in Ops /\ call.key \in Key /\ call.currLevel \in 0 .. mMaxLevel
    BY ForwardFacts DEF IInv, WalkInv
  <2>2. call'.nd \in On(0)' /\ call'.nd \in On(call.currLevel)'
    BY <1>1, <1>4, ForwardFacts DEF On, shape
  <2>3. Passed(call.nd)'
    BY <1>1, <1>4, ForwardFacts DEF Passed, shape
  <2>4. call'.walked = At(call.nd)'
    BY <1>1, <1>4 DEF At, shape
  <2>5. \A i \in Level : call'.currLevel < i /\ i <= mMaxLevel' =>
          /\ call'.op \in Updates => LeavesAt(i, call.prevs[i])'
          /\ call'.op = "insert" => call'.ranks[i] = At(call.prevs[i])'
    BY <1>1, <1>4, <2>1, AboveUnchanged DEF shape
  <2>6. \A i \in Level : i > mMaxLevel' => call'.ranks[i] = 0
    BY <1>1, <1>4, <2>1 DEF IInv, WalkInv, shape
  <2>7. mMaxLevel' = mMaxLevel /\ mMaxLevel \in Nat
    BY <1>1, LevelFacts DEF IInv, ListInv, Shapes, shape
  <2> QED BY <1>4, <2>1, <2>2, <2>3, <2>4, <2>5, <2>6, <2>7 DEF WalkInv
<1> QED BY <1>2, <1>6, <1>7 DEF IInv

LEMMA DescendStep == ASSUME IInv, Descend PROVE IInv'
<1> DEFINE c == call.currLevel
<1>1. /\ c >= 0 /\ ~NotBeyond(next)
      /\ call' =
           [call EXCEPT
              !.currLevel = @ - 1,
              !.prevs = IF call.op \in Updates THEN [@ EXCEPT ![c] = call.nd] ELSE @,
              !.ranks = IF call.op = "insert" THEN [@ EXCEPT ![c] = call.walked] ELSE @]
      /\ UNCHANGED shape
  BY DEF Descend, Updates
<1>2. ListInv'
  BY <1>1, ListUnchanged DEF IInv
<1>3. CallType
  BY DEF IInv
<1>4. call # NoCall
  BY <1>1 DEF NoCall
<1>5. c \in 0 .. mMaxLevel /\ c \in Level /\ c - 1 \in Level \union {-1} /\ mMaxLevel \in Nat
  <2>1. c \in 0 .. mMaxLevel /\ c \in Level /\ mMaxLevel \in Nat
    BY <1>1, <1>4, CurrLevelFacts
  <2>2. c - 1 \in Level \union {-1}
    BY <2>1, LevelFacts
  <2> QED BY <2>1, <2>2
<1>6. call.nd \in {Head} \union Live /\ call.walked \in Nat
  BY <1>3 DEF CallType
<1>7. /\ call'.op = call.op /\ call'.key = call.key /\ call'.level = call.level
      /\ call'.nd = call.nd /\ call'.currLevel = c - 1 /\ call'.walked = call.walked
  BY <1>1, <1>3 DEF CallType
<1>8. /\ call.op \in Updates => call'.prevs = [call.prevs EXCEPT ![c] = call.nd]
      /\ call.op \notin Updates => call'.prevs = call.prevs
      /\ call.op = "insert" => call'.ranks = [call.ranks EXCEPT ![c] = call.walked]
      /\ call.op # "insert" => call'.ranks = call.ranks
  BY <1>1, <1>3 DEF CallType
<1>9. call'.prevs \in [Level -> {NullPtr, Head} \union Live] /\ call'.ranks \in [Level -> Nat]
  BY <1>3, <1>5, <1>6, <1>8 DEF CallType
<1>10. CallType'
  <2>1. UNCHANGED Live
    BY <1>1 DEF shape, Live
  <2>2. call' = [op |-> call'.op, key |-> call'.key, level |-> call'.level, nd |-> call'.nd,
                 currLevel |-> call'.currLevel, walked |-> call'.walked,
                 prevs |-> call'.prevs, ranks |-> call'.ranks]
    BY <1>1, <1>3 DEF CallType
  <2> HIDE DEF c
  <2> QED BY <1>3, <1>5, <1>6, <1>7, <1>9, <2>1, <2>2 DEF CallType
<1>11. LeavesAt(c, call.nd)
  BY <1>1, <1>4 DEF IInv, WalkInv, LeavesAt, next
<1>12. WalkInv'
  <2>1. call.op \in Ops /\ call.key \in Key /\ call.nd \in On(0) /\ call.walked = At(call.nd)
        /\ (call.nd # Head => Passed(call.nd)) /\ call.nd \in On(c)
    BY <1>1, <1>4 DEF IInv, WalkInv
  <2>2. call'.nd \in On(0)' /\ call'.walked = At(call.nd)' /\ (call'.nd # Head => Passed(call.nd)')
    BY <1>1, <1>7, <2>1 DEF On, At, Passed, shape
  <2>3. call'.currLevel >= 0 => call'.nd \in On(call.currLevel)'
    <3>1. call'.currLevel >= 0 => linked[c] \subseteq linked[c - 1]
      BY <1>5, <1>7 DEF IInv, ListInv, Nested
    <3> QED BY <1>1, <1>7, <2>1, <3>1 DEF On, shape
  <2>4. call'.currLevel = -1 => LeavesAt(0, call.nd)' /\ (call'.op \in Updates => call'.prevs[0] = call'.nd)
    <3> SUFFICES ASSUME call'.currLevel = -1
                 PROVE  LeavesAt(0, call.nd)' /\ (call'.op \in Updates => call'.prevs[0] = call'.nd)
      OBVIOUS
    <3>1. c = 0
      BY <1>5, <1>7
    <3>2. LeavesAt(0, call.nd)'
      BY <1>1, <1>7, <1>11, <3>1 DEF LeavesAt, On, Passed, NotBeyond, shape
    <3>3. call'.op \in Updates => call'.prevs[0] = call'.nd
      BY <1>3, <1>5, <1>7, <1>8, <3>1 DEF CallType
    <3> QED BY <3>2, <3>3
  <2>5. ASSUME NEW i \in Level, call'.currLevel < i, i <= mMaxLevel'
        PROVE  /\ call'.op \in Updates => LeavesAt(i, call.prevs[i])'
               /\ call'.op = "insert" => call'.ranks[i] = At(call.prevs[i])'
    <3>1. CASE i = c
      <4>1. call'.op \in Updates => call'.prevs[i] = call.nd
        BY <1>3, <1>7, <1>8, <3>1 DEF CallType
      <4>2. call'.op = "insert" => call'.op \in Updates /\ call'.ranks[i] = call.walked
        BY <1>3, <1>7, <1>8, <3>1 DEF CallType, Updates
      <4>3. call'.op \in Updates => LeavesAt(i, call.prevs[i])'
        BY <1>1, <1>7, <1>11, <3>1, <4>1 DEF LeavesAt, On, Passed, NotBeyond, shape
      <4>4. call'.op = "insert" => call'.ranks[i] = At(call.prevs[i])'
        BY <1>1, <2>1, <4>1, <4>2 DEF At, shape
      <4> QED BY <4>3, <4>4
    <3>2. CASE i # c
      <4>1. call.currLevel < i /\ i <= mMaxLevel
        BY <1>1, <1>5, <1>7, <2>5, <3>2, LevelFacts DEF shape
      <4>2. call'.prevs[i] = call.prevs[i] /\ call'.ranks[i] = call.ranks[i]
        BY <1>3, <1>8, <3>2 DEF CallType
      <4> QED BY <1>1, <1>4, <1>7, <4>1, <4>2, AboveUnchanged
    <3> QED BY <3>1, <3>2
  <2>6. \A i \in Level : i > mMaxLevel' => call'.ranks[i] = 0
    <3>1. \A i \in Level : i > mMaxLevel => call.ranks[i] = 0 /\ i # c
      BY <1>4, <1>5 DEF IInv, WalkInv
    <3> QED BY <1>1, <1>3, <1>8, <3>1 DEF CallType, shape
  <2>7. mMaxLevel' = mMaxLevel
    BY <1>1 DEF shape
  <2>8. call'.currLevel <= mMaxLevel'
    BY <1>5, <1>7, <2>7
  <2> QED BY <1>7, <2>1, <2>2, <2>3, <2>4, <2>5, <2>6, <2>7, <2>8 DEF WalkInv
<1> QED BY <1>2, <1>10, <1>12 DEF IInv

\* The steps that end a call without an update.
LEMMA QueryStep ==
  ASSUME IInv, UNCHANGED shape, call' = NoCall
  PROVE  IInv'
  BY ListUnchanged, ReturnStep DEF IInv

\* The levels that stay are not touched.
LEMMA SetMaxLevelStep ==
  ASSUME IInv, NEW ml \in Level, SetMaxLevel(ml)
  PROVE  IInv'
<1>1. /\ ml <= mMaxLevel /\ mMaxLevel' = ml /\ call' = NoCall
      /\ linked' = [i \in Level |-> IF i <= ml THEN linked[i] ELSE {}]
      /\ UNCHANGED <<mKey, mNexts, mSpans, mBackword, mLength, pos, Live>>
  BY DEF SetMaxLevel, Live
<1>2. mMaxLevel \in Nat /\ ml \in Nat /\ 0 \in Level
  BY LevelFacts DEF IInv, ListInv, Shapes
<1>3. \A i \in 0 .. ml : i \in Level /\ i \in 0 .. mMaxLevel /\ linked'[i] = linked[i]
  BY <1>1, <1>2, LevelFacts
<1>4. Shapes'
  <2>1. linked' \in [Level -> SUBSET Live]
    BY <1>1 DEF IInv, ListInv, Shapes
  <2> QED BY <1>1, <2>1 DEF IInv, ListInv, Shapes
<1>5. Positions' /\ Nested'
  BY <1>1, <1>3 DEF IInv, ListInv, Positions, Nested
<1>6. LevelsLinkInOrder' /\ SpansAreDistances'
  BY <1>1, <1>3 DEF IInv, ListInv, LevelsLinkInOrder, SpansAreDistances, At
<1>7. BackwardInverts'
  BY <1>1, <1>2, <1>3 DEF IInv, ListInv, BackwardInverts
<1> QED BY <1>1, <1>4, <1>5, <1>6, <1>7, ReturnStep DEF ListInv
-----------------------------------------------------------------------------
(* insert.  The head first gets the levels that are new; there, it is the  *)
(* node where the walk would have left, before the tail.                   *)

Prev(i) == IF i > mMaxLevel THEN Head ELSE call.prevs[i]
Linked(i) == IF i > mMaxLevel THEN {} ELSE linked[i]
Nexts == [mNexts EXCEPT ![Head] = Raised(@, Tail)]
Spans == [mSpans EXCEPT ![Head] = Raised(@, mLength)]
Top == IF call.level > mMaxLevel THEN call.level ELSE mMaxLevel

\* The position of the new node is the one behind this.
Place == call.ranks[0]

\* What the walk has found when insert or erase is about to change the list.
LEMMA ArrivedFacts ==
  ASSUME IInv, Arrived(Updates)
  PROVE  /\ call # NoCall /\ call.key \in Key /\ call.key \in Int /\ call.level \in Level
         /\ call.prevs[0] = call.nd /\ LeavesAt(0, call.nd)
         /\ \A i \in 0 .. mMaxLevel :
              LeavesAt(i, call.prevs[i]) /\ (call.op = "insert" => call.ranks[i] = At(call.prevs[i]))
         /\ \A i \in Level : i > mMaxLevel => call.ranks[i] = 0
<1>1. call.op \in Updates /\ call.currLevel = -1
  BY DEF Arrived
<1>2. call # NoCall
  BY <1>1 DEF NoCall, Updates
<1>3. call.key \in Key /\ call.prevs[0] = call.nd /\ LeavesAt(0, call.nd)
      /\ \A i \in Level : i > mMaxLevel => call.ranks[i] = 0
  BY <1>1, <1>2 DEF IInv, WalkInv
<1>4. call.key \in Int /\ call.level \in Level
  BY DEF IInv, CallType
<1>5. ASSUME NEW i \in 0 .. mMaxLevel
      PROVE  LeavesAt(i, call.prevs[i]) /\ (call.op = "insert" => call.ranks[i] = At(call.prevs[i]))
  <2>1. i \in Level /\ call.currLevel < i /\ i <= mMaxLevel
    BY <1>1, <1>5, CurrLevelFacts, LevelFacts
  <2> QED BY <1>1, <1>2, <2>1 DEF IInv, WalkInv
<1> QED BY <1>2, <1>3, <1>4, <1>5

\* The levels of the raised head.
LEMMA HeadFacts ==
  ASSUME IInv, Arrived({"insert"})
  PROVE  /\ Top \in Level /\ mMaxLevel <= Top /\ call.level <= Top
         /\ \E h \in Level : /\ Nexts[Head] \in [0 .. h -> {Tail} \union Node]
                             /\ Spans[Head] \in [0 .. h -> Nat]
         /\ \A i \in 0 .. Top : i \in DOMAIN Nexts[Head]
         /\ \A i \in 0 .. mMaxLevel : Nexts[Head][i] = mNexts[Head][i] /\ Spans[Head][i] = mSpans[Head][i]
         /\ \A i \in 0 .. Top : i > mMaxLevel => Nexts[Head][i] = Tail /\ Spans[Head][i] = mLength
<1>1. call.level \in Level /\ mMaxLevel \in Level /\ call.level \in Nat /\ mMaxLevel \in Nat
  BY LevelFacts DEF IInv, CallType, ListInv, Shapes
<1>2. Top \in Level /\ mMaxLevel <= Top /\ call.level <= Top
  BY <1>1 DEF Top
<1>3. PICK h \in Level : mNexts[Head] \in [0 .. h -> {Tail} \union Node] /\ mSpans[Head] \in [0 .. h -> Nat]
  BY DEF IInv, ListInv, Shapes
<1>4. mLength \in Nat /\ h \in Nat
  BY LevelFacts DEF IInv, ListInv, Shapes
<1>5. \A i \in 0 .. mMaxLevel : i \in DOMAIN mNexts[Head]
  BY OnFacts DEF IInv, On
<1>6. mMaxLevel <= h
  <2>1. mMaxLevel \in DOMAIN mNexts[Head]
    BY <1>1, <1>5
  <2>2. DOMAIN mNexts[Head] = 0 .. h
    BY <1>3
  <2> QED BY <1>1, <1>4, <2>1, <2>2
<1>7. Nexts[Head] = Raised(mNexts[Head], Tail) /\ Spans[Head] = Raised(mSpans[Head], mLength)
  BY DEF Nexts, Spans, IInv, ListInv, Shapes
<1>8. CASE call.level > mMaxLevel
  <2>1. /\ Nexts[Head] = [i \in 0 .. call.level |-> IF i > mMaxLevel THEN Tail ELSE mNexts[Head][i]]
        /\ Spans[Head] = [i \in 0 .. call.level |-> IF i > mMaxLevel THEN mLength ELSE mSpans[Head][i]]
        /\ Top = call.level
    BY <1>7, <1>8 DEF Raised, Top
  <2>2. \A i \in 0 .. call.level : ~(i > mMaxLevel) =>
          mNexts[Head][i] \in {Tail} \union Node /\ mSpans[Head][i] \in Nat
    BY <1>1, <1>3, <1>4, <1>6
  <2>3. Nexts[Head] \in [0 .. call.level -> {Tail} \union Node] /\ Spans[Head] \in [0 .. call.level -> Nat]
    BY <1>4, <2>1, <2>2
  <2>4. \A i \in 0 .. mMaxLevel : i \in 0 .. call.level /\ ~(i > mMaxLevel)
    BY <1>1, <1>8
  <2> QED BY <1>1, <1>2, <2>1, <2>3, <2>4
<1>9. CASE ~(call.level > mMaxLevel)
  <2>1. Nexts[Head] = mNexts[Head] /\ Spans[Head] = mSpans[Head] /\ Top = mMaxLevel
    BY <1>7, <1>9 DEF Raised, Top
  <2>2. \A i \in 0 .. Top : ~(i > mMaxLevel)
    BY <1>1, <2>1
  <2> QED BY <1>2, <1>3, <1>5, <2>1, <2>2
<1> QED BY <1>8, <1>9

\* Each level of the raised list is ordered, and the walk has left it around Place.
LEMMA RaisedFacts ==
  ASSUME IInv, Arrived({"insert"}), NEW i \in 0 .. Top
  PROVE  /\ i \in Level /\ Linked(i) \subseteq Live
         /\ Prev(i) \in Linked(i) \union {Head}
         /\ call.ranks[i] = At(Prev(i))
         /\ At(Prev(i)) <= Place /\ Place < At(Nexts[Prev(i)][i])
         /\ \A m \in Linked(i) \union {Head} :
              /\ i \in DOMAIN Nexts[m]
              /\ Nexts[m][i] \in Linked(i) \union {Tail}
              /\ At(m) < At(Nexts[m][i])
              /\ \A k \in Linked(i) : At(k) <= At(m) \/ At(k) >= At(Nexts[m][i])
              /\ Spans[m][i] = Rank(Nexts[m][i]) - At(m)
<1>1. Arrived(Updates) /\ call.op = "insert"
  BY DEF Arrived, Updates
<1>2. Top \in Nat /\ mMaxLevel \in Nat /\ i \in Level /\ i \in Nat /\ 0 \in 0 .. mMaxLevel
  BY HeadFacts, LevelFacts, CurrLevelFacts
<1>3. /\ call.key \in Int /\ LeavesAt(0, call.nd)
      /\ \A j \in 0 .. mMaxLevel : LeavesAt(j, call.prevs[j]) /\ call.ranks[j] = At(call.prevs[j])
      /\ Place = At(call.nd)
      /\ i > mMaxLevel => call.ranks[i] = 0
  BY <1>1, <1>2, ArrivedFacts DEF Place
<1>4. call.nd \in {Head} \union Live /\ At(call.nd) \in 0 .. mLength /\ mLength \in Nat
      /\ At(Head) = 0 /\ At(Tail) = mLength + 1 /\ Rank(Tail) = mLength
  BY AtFacts DEF IInv, ListInv, CallType
<1>5. CASE i > mMaxLevel
  <2>1. Linked(i) = {} /\ Prev(i) = Head
    BY <1>5 DEF Linked, Prev
  <2>2. Nexts[Head][i] = Tail /\ Spans[Head][i] = mLength /\ i \in DOMAIN Nexts[Head]
    BY <1>5, HeadFacts
  <2> QED BY <1>2, <1>3, <1>4, <1>5, <2>1, <2>2
<1>6. CASE ~(i > mMaxLevel)
  <2>1. i \in 0 .. mMaxLevel /\ Linked(i) = linked[i] /\ Prev(i) = call.prevs[i]
        /\ On(i) = Linked(i) \union {Head}
    BY <1>2, <1>6 DEF Linked, Prev, On
  <2>2. \A m \in On(i) : Nexts[m][i] = mNexts[m][i] /\ Spans[m][i] = mSpans[m][i] /\ i \in DOMAIN Nexts[m]
    <3>1. \A m \in On(i) : m \in {Head} \union Live /\ i \in DOMAIN mNexts[m]
      BY <2>1, OnFacts DEF IInv
    <3>2. i \in DOMAIN Nexts[Head] /\ Nexts[Head][i] = mNexts[Head][i] /\ Spans[Head][i] = mSpans[Head][i]
      BY <1>2, <2>1, HeadFacts
    <3> QED BY <3>1, <3>2 DEF Nexts, Spans, IInv, ListInv, Shapes
  <2>3. Linked(i) \subseteq Live
    BY <1>2, <2>1 DEF IInv, ListInv, Shapes
  <2>4. LeavesAt(i, Prev(i)) /\ call.ranks[i] = At(Prev(i)) /\ Prev(i) \in On(i)
    BY <1>3, <2>1 DEF LeavesAt
  <2>5. At(Prev(i)) <= Place /\ Place < At(Nexts[Prev(i)][i])
    BY <1>3, <2>1, <2>2, <2>4, Bracket DEF IInv
  <2>6. \A m \in On(i) : /\ mNexts[m][i] \in linked[i] \union {Tail}
                         /\ At(m) < At(mNexts[m][i])
                         /\ \A k \in linked[i] : At(k) <= At(m) \/ At(k) >= At(mNexts[m][i])
                         /\ mSpans[m][i] = Rank(mNexts[m][i]) - At(m)
    BY <2>1, OnFacts DEF IInv
  <2> QED BY <1>2, <2>1, <2>2, <2>3, <2>4, <2>5, <2>6
<1> QED BY <1>5, <1>6
\* What the steps of insert come to, field by field.
LEMMA InsertEffect ==
  ASSUME IInv, NEW n \in Free, InsertNode(n)
  PROVE  /\ n \in Node \ Live /\ n # Head /\ n # Tail
         /\ Arrived({"insert"}) /\ call' = NoCall
         /\ Live' = Live \union {n} /\ mLength' = mLength + 1 /\ mMaxLevel' = Top
         /\ mKey' = [m \in Live' |-> IF m = n THEN call.key ELSE mKey[m]]
         /\ pos' = [m \in Live' |-> IF m = n THEN Place + 1
                                    ELSE IF pos[m] > Place THEN pos[m] + 1 ELSE pos[m]]
         /\ linked' = [i \in Level |-> IF i > call.level THEN linked[i]
                                       ELSE IF i > mMaxLevel THEN {n} ELSE linked[i] \union {n}]
         /\ mBackword' =
              [[m \in {Tail} \union Live' |-> IF m = n THEN call.nd ELSE mBackword[m]]
                 EXCEPT ![Nexts[call.nd][0]] = n]
         /\ DOMAIN mNexts' = {Head} \union Live' /\ DOMAIN mSpans' = {Head} \union Live'
<1>1. Arrived({"insert"}) /\ call' = NoCall
  BY DEF InsertNode, Return
<1>2. DOMAIN mKey = Live /\ DOMAIN mNexts = {Head} \union Live /\ DOMAIN mSpans = {Head} \union Live
      /\ DOMAIN mBackword = {Tail} \union Live
  BY DEF IInv, ListInv, Shapes
<1>3. n \in Node \ Live /\ n # Head /\ n # Tail
  BY <1>2, SkipListAssumption DEF Free
<1>4. 0 \in Level /\ ~(0 > mMaxLevel)
  BY LevelFacts, CurrLevelFacts
<1>5. call.prevs[0] = call.nd
  BY <1>1, ArrivedFacts DEF Arrived, Updates
<1>6. Live' = Live \union {n} /\ pos' = [m \in Live' |-> IF m = n THEN Place + 1
                                    ELSE IF pos[m] > Place THEN pos[m] + 1 ELSE pos[m]]
  <2>1. pos' = [m \in Live \union {n} |-> IF m = n THEN Place + 1
                                    ELSE IF pos[m] > Place THEN pos[m] + 1 ELSE pos[m]]
    BY DEF InsertNode, Live, Place
  <2> QED BY <2>1 DEF Live
<1>7. mKey' = [m \in Live' |-> IF m = n THEN call.key ELSE mKey[m]]
  BY <1>2, <1>6 DEF InsertNode
<1>8. mLength' = mLength + 1 /\ mMaxLevel' = Top
      /\ linked' = [i \in Level |-> IF i > call.level THEN linked[i]
                                    ELSE IF i > mMaxLevel THEN {n} ELSE linked[i] \union {n}]
  BY DEF InsertNode, Top
<1>9. DOMAIN mNexts' = {Head} \union Live' /\ DOMAIN mSpans' = {Head} \union Live'
  BY <1>2, <1>6 DEF InsertNode
<1>10. mBackword' =
         [[m \in {Tail} \union Live' |-> IF m = n THEN call.nd ELSE mBackword[m]]
            EXCEPT ![Nexts[call.nd][0]] = n]
  <2> DEFINE prevs == [i \in Level |-> IF i > mMaxLevel THEN Head ELSE call.prevs[i]]
  <2>1. prevs[0] = call.nd
    BY <1>4, <1>5
  <2>2. mBackword' =
          SetBackword([m \in DOMAIN mBackword \union {n} |-> IF m = n THEN prevs[0] ELSE mBackword[m]],
                      Nexts[prevs[0]][0], n)
    BY DEF InsertNode, Nexts
  <2> HIDE DEF prevs
  <2> QED BY <1>2, <1>6, <2>1, <2>2 DEF SetBackword
<1> QED BY <1>1, <1>3, <1>6, <1>7, <1>8, <1>9, <1>10

\* The links and spans, old and new.
LEMMA InsertLinks ==
  ASSUME IInv, NEW n \in Free, InsertNode(n)
  PROVE  /\ mNexts'[n] = [i \in 0 .. call.level |-> Nexts[Prev(i)][i]]
         /\ mSpans'[n] = [i \in 0 .. call.level |-> Spans[Prev(i)][i] - (Place - call.ranks[i])]
         /\ \A m \in {Head} \union Live :
              \E h \in Level :
                /\ Nexts[m] \in [0 .. h -> {Tail} \union Node] /\ Spans[m] \in [0 .. h -> Nat]
                /\ mNexts'[m] = [i \in 0 .. h |->
                     IF i <= call.level /\ Prev(i) = m THEN n ELSE Nexts[m][i]]
                /\ mSpans'[m] = [i \in 0 .. h |->
                     IF i > Top \/ Prev(i) # m THEN Spans[m][i]
                     ELSE IF i <= call.level THEN Place - call.ranks[i] + 1
                     ELSE Spans[m][i] + 1]
<1> DEFINE prevs == [i \in Level |-> Prev(i)]
           Relink(m, i) == IF i <= call.level /\ prevs[i] = m THEN n ELSE Nexts[m][i]
           Respan(m, i) ==
             IF i > Top \/ prevs[i] # m THEN Spans[m][i]
             ELSE IF i <= call.level THEN (Place - call.ranks[i]) + 1
             ELSE Spans[m][i] + 1
<1>1. /\ mNexts' = [m \in DOMAIN mNexts \union {n} |->
           IF m = n THEN [i \in 0 .. call.level |-> Nexts[prevs[i]][i]]
           ELSE [i \in DOMAIN Nexts[m] |-> Relink(m, i)]]
      /\ mSpans' = [m \in DOMAIN mSpans \union {n} |->
           IF m = n THEN [i \in 0 .. call.level |-> Spans[prevs[i]][i] - (Place - call.ranks[i])]
           ELSE [i \in DOMAIN Spans[m] |-> Respan(m, i)]]
  BY DEF InsertNode, Nexts, Spans, Prev, Top, Place
<1>2. \A h \in Level : \A i \in 0 .. h : i \in Level /\ prevs[i] = Prev(i)
  BY LevelFacts
<1>3. call.level \in Level /\ DOMAIN mNexts = {Head} \union Live /\ DOMAIN mSpans = {Head} \union Live
  BY DEF IInv, CallType, ListInv, Shapes
<1>4. n # Head /\ n \notin Live
  BY InsertEffect
<1>5. /\ mNexts'[n] = [i \in 0 .. call.level |-> Nexts[Prev(i)][i]]
      /\ mSpans'[n] = [i \in 0 .. call.level |-> Spans[Prev(i)][i] - (Place - call.ranks[i])]
  <2> HIDE DEF prevs
  <2> QED BY <1>1, <1>2, <1>3
<1>6. ASSUME NEW m \in {Head} \union Live
      PROVE  \E h \in Level :
                /\ Nexts[m] \in [0 .. h -> {Tail} \union Node] /\ Spans[m] \in [0 .. h -> Nat]
                /\ mNexts'[m] = [i \in 0 .. h |->
                     IF i <= call.level /\ Prev(i) = m THEN n ELSE Nexts[m][i]]
                /\ mSpans'[m] = [i \in 0 .. h |->
                     IF i > Top \/ Prev(i) # m THEN Spans[m][i]
                     ELSE IF i <= call.level THEN Place - call.ranks[i] + 1
                     ELSE Spans[m][i] + 1]
  <2>1. PICK h \in Level :
          Nexts[m] \in [0 .. h -> {Tail} \union Node] /\ Spans[m] \in [0 .. h -> Nat]
    <3>1. CASE m = Head
      <4>1. Arrived({"insert"})
        BY InsertEffect
      <4> QED BY <3>1, <4>1, HeadFacts
    <3>2. CASE m # Head
      <4>1. Nexts[m] = mNexts[m] /\ Spans[m] = mSpans[m]
        BY <1>3, <3>2 DEF Nexts, Spans
      <4> QED BY <4>1 DEF IInv, ListInv, Shapes
    <3> QED BY <3>1, <3>2
  <2>2. mNexts'[m] = [i \in 0 .. h |-> Relink(m, i)] /\ mSpans'[m] = [i \in 0 .. h |-> Respan(m, i)]
    <3> HIDE DEF prevs
    <3> QED BY <1>1, <1>3, <1>4, <2>1
  <2>3. \A i \in 0 .. h : prevs[i] = Prev(i)
    BY <1>2
  <2> HIDE DEF prevs
  <2> QED BY <2>1, <2>2, <2>3
<1> QED BY <1>5, <1>6

\* The nodes behind Place move up by one.
LEMMA InsertAt ==
  ASSUME IInv, NEW n \in Free, InsertNode(n)
  PROVE  /\ At(n)' = Place + 1 /\ Place \in 0 .. mLength /\ mLength \in Nat
         /\ \A m \in {Head, Tail} \union Live :
              At(m) \in Int /\ At(m)' = IF At(m) > Place THEN At(m) + 1 ELSE At(m)
<1>1. Place \in 0 .. mLength
  <2>1. Arrived({"insert"}) /\ 0 \in 0 .. mMaxLevel
    BY InsertEffect, CurrLevelFacts
  <2>2. Place = At(call.nd) /\ call.nd \in {Head} \union Live
    BY <2>1, ArrivedFacts DEF Arrived, Updates, Place, IInv, CallType
  <2> QED BY <2>2, AtFacts DEF IInv, ListInv
<1>2. mLength \in Nat /\ At(Head) = 0 /\ At(Tail) = mLength + 1
      /\ \A m \in Live : At(m) = pos[m] /\ At(m) \in 1 .. mLength /\ m # Head /\ m # Tail
  BY AtFacts, NodeFacts DEF IInv, ListInv
<1>3. /\ n \in Node \ Live /\ n # Head /\ n # Tail
      /\ Live' = Live \union {n} /\ mLength' = mLength + 1
      /\ pos' = [m \in Live' |-> IF m = n THEN Place + 1
                                 ELSE IF pos[m] > Place THEN pos[m] + 1 ELSE pos[m]]
  BY InsertEffect
<1>4. At(n)' = Place + 1
  BY <1>3 DEF At
<1>5. At(Head)' = 0 /\ At(Tail)' = mLength + 2
  BY <1>2, <1>3 DEF At, Head, Tail
<1>6. \A m \in Live : At(m)' = IF At(m) > Place THEN At(m) + 1 ELSE At(m)
  BY <1>2, <1>3 DEF At
<1> QED BY <1>1, <1>2, <1>4, <1>5, <1>6
\* A level of the new list, and why a link that does not go past Place keeps its
\* length: both its ends lie on one side.
LEMMA InsertLevel ==
  ASSUME IInv, NEW n \in Free, InsertNode(n), NEW i \in 0 .. Top
  PROVE  /\ linked'[i] = (IF i <= call.level THEN Linked(i) \union {n} ELSE Linked(i))
         /\ i <= call.level =>
              /\ i \in DOMAIN mNexts'[n]
              /\ mNexts'[n][i] = Nexts[Prev(i)][i]
              /\ mSpans'[n][i] = Spans[Prev(i)][i] - (Place - At(Prev(i)))
         /\ \A m \in Linked(i) \union {Head} :
              /\ i \in DOMAIN mNexts'[m]
              /\ mNexts'[m][i] = IF i <= call.level /\ Prev(i) = m THEN n ELSE Nexts[m][i]
              /\ mSpans'[m][i] = IF Prev(i) # m THEN Spans[m][i]
                                 ELSE IF i <= call.level THEN Place - At(Prev(i)) + 1
                                 ELSE Spans[m][i] + 1
              /\ m # Prev(i) => At(Nexts[m][i]) <= Place \/ At(m) > Place
<1>1. Arrived({"insert"})
  BY InsertEffect
<1>2. /\ Top \in Nat /\ mMaxLevel \in Nat /\ call.level \in Nat /\ i \in Nat /\ i \in Level
      /\ ~(i > Top) /\ call.level <= Top /\ Top = IF call.level > mMaxLevel THEN call.level ELSE mMaxLevel
  <2>1. call.level \in Level
    BY DEF IInv, CallType
  <2>2. Top \in Level /\ call.level <= Top /\ mMaxLevel \in Nat
    BY <1>1, HeadFacts, CurrLevelFacts
  <2>3. Top \in Nat /\ call.level \in Nat
    BY <2>1, <2>2, LevelFacts
  <2>4. i \in Level
    BY <1>1, RaisedFacts
  <2> QED BY <2>2, <2>3, <2>4 DEF Top
<1>3. /\ Linked(i) \subseteq Live /\ Prev(i) \in Linked(i) \union {Head}
      /\ call.ranks[i] = At(Prev(i)) /\ At(Prev(i)) <= Place /\ Place < At(Nexts[Prev(i)][i])
      /\ \A m \in Linked(i) \union {Head} :
              /\ i \in DOMAIN Nexts[m]
              /\ Nexts[m][i] \in Linked(i) \union {Tail}
              /\ At(m) < At(Nexts[m][i])
              /\ \A k \in Linked(i) : At(k) <= At(m) \/ At(k) >= At(Nexts[m][i])
  BY <1>1, RaisedFacts
<1>4. linked'[i] = (IF i <= call.level THEN Linked(i) \union {n} ELSE Linked(i))
  <2>1. linked'[i] = IF i > call.level THEN linked[i]
                     ELSE IF i > mMaxLevel THEN {n} ELSE linked[i] \union {n}
    <3>1. linked' = [j \in Level |-> IF j > call.level THEN linked[j]
                                     ELSE IF j > mMaxLevel THEN {n} ELSE linked[j] \union {n}]
      BY InsertEffect
    <3>2. i \in Level
      BY <1>2
    <3> QED BY <3>1, <3>2
  <2> QED BY <1>2, <2>1 DEF Linked
<1>5. i <= call.level =>
        /\ i \in DOMAIN mNexts'[n]
        /\ mNexts'[n][i] = Nexts[Prev(i)][i]
        /\ mSpans'[n][i] = Spans[Prev(i)][i] - (Place - At(Prev(i)))
  <2>1. i <= call.level => i \in 0 .. call.level
    BY <1>2
  <2>2. /\ mNexts'[n] = [j \in 0 .. call.level |-> Nexts[Prev(j)][j]]
        /\ mSpans'[n] = [j \in 0 .. call.level |-> Spans[Prev(j)][j] - (Place - call.ranks[j])]
    BY InsertLinks
  <2> QED BY <1>3, <2>1, <2>2
<1>6. ASSUME NEW m \in Linked(i) \union {Head}
      PROVE  /\ i \in DOMAIN mNexts'[m]
             /\ mNexts'[m][i] = IF i <= call.level /\ Prev(i) = m THEN n ELSE Nexts[m][i]
             /\ mSpans'[m][i] = IF Prev(i) # m THEN Spans[m][i]
                                ELSE IF i <= call.level THEN Place - At(Prev(i)) + 1
                                ELSE Spans[m][i] + 1
  <2>1. m \in {Head} \union Live
    BY <1>3
  <2>2. PICK h \in Level :
          /\ Nexts[m] \in [0 .. h -> {Tail} \union Node] /\ Spans[m] \in [0 .. h -> Nat]
          /\ mNexts'[m] = [j \in 0 .. h |->
               IF j <= call.level /\ Prev(j) = m THEN n ELSE Nexts[m][j]]
          /\ mSpans'[m] = [j \in 0 .. h |->
               IF j > Top \/ Prev(j) # m THEN Spans[m][j]
               ELSE IF j <= call.level THEN Place - call.ranks[j] + 1
               ELSE Spans[m][j] + 1]
    BY <2>1, InsertLinks
  <2>3. i \in 0 .. h
    BY <1>3, <2>2
  <2> QED BY <1>2, <1>3, <2>2, <2>3
<1>7. ASSUME NEW m \in Linked(i) \union {Head}, m # Prev(i)
      PROVE  At(Nexts[m][i]) <= Place \/ At(m) > Place
  <2> DEFINE p == Prev(i)
             y == Nexts[m][i]
  <2>1. m \in {Head} \union Live /\ p \in {Head} \union Live /\ y \in Live \union {Tail}
        /\ Nexts[p][i] \in Live \union {Tail}
    BY <1>3
  <2>2. At(m) \in Int /\ At(p) \in Int /\ At(y) \in Int /\ Place \in Int /\ At(Nexts[p][i]) \in Int
        /\ At(Head) = 0 /\ \A k \in Live : At(k) > 0 /\ At(k) = pos[k]
    BY <2>1, InsertAt, AtFacts DEF IInv, ListInv
  <2>3. At(m) # At(p)
    BY <1>7, <2>1, <2>2 DEF IInv, ListInv, Positions
  <2>4. CASE At(m) < At(p)
    <3>1. p \in Linked(i)
      BY <1>3, <2>1, <2>2, <2>4
    <3>2. At(p) <= At(m) \/ At(p) >= At(y)
      BY <1>3, <3>1
    <3> QED BY <1>3, <2>2, <2>4, <3>2
  <2>5. CASE At(p) < At(m)
    <3>1. m \in Linked(i)
      BY <2>1, <2>2, <2>5
    <3>2. At(m) <= At(p) \/ At(m) >= At(Nexts[p][i])
      BY <1>3, <3>1
    <3> QED BY <1>3, <2>2, <2>5, <3>2
  <2> QED BY <2>2, <2>3, <2>4, <2>5
<1> QED BY <1>4, <1>5, <1>6, <1>7

LEMMA InsertLevelsLink ==
  ASSUME IInv, NEW n \in Free, InsertNode(n)
  PROVE  LevelsLinkInOrder' /\ SpansAreDistances'
<1>1. Arrived({"insert"}) /\ mMaxLevel' = Top /\ n \notin Live /\ n # Head /\ n # Tail
      /\ mLength' = mLength + 1
  BY InsertEffect
<1> SUFFICES ASSUME NEW i \in 0 .. Top, NEW m \in linked'[i] \union {Head}
             PROVE  /\ i \in DOMAIN mNexts'[m]
                    /\ mNexts'[m][i] \in linked'[i] \union {Tail}
                    /\ At(m)' < At(mNexts[m][i])'
                    /\ \A k \in linked'[i] : ~(At(m)' < At(k)' /\ At(k)' < At(mNexts[m][i])')
                    /\ mSpans'[m][i] =
                         (IF mNexts'[m][i] = Tail THEN mLength' ELSE pos'[mNexts'[m][i]]) - At(m)'
  BY <1>1 DEF LevelsLinkInOrder, SpansAreDistances
<1> DEFINE p == Prev(i)
           y == mNexts'[m][i]
<1>2. /\ i \in Level /\ Linked(i) \subseteq Live /\ p \in Linked(i) \union {Head}
      /\ At(p) <= Place /\ Place < At(Nexts[p][i])
      /\ \A k \in Linked(i) \union {Head} :
           /\ Nexts[k][i] \in Linked(i) \union {Tail}
           /\ At(k) < At(Nexts[k][i])
           /\ \A l \in Linked(i) : At(l) <= At(k) \/ At(l) >= At(Nexts[k][i])
           /\ Spans[k][i] = Rank(Nexts[k][i]) - At(k)
  BY <1>1, RaisedFacts
<1>3. /\ linked'[i] = (IF i <= call.level THEN Linked(i) \union {n} ELSE Linked(i))
      /\ i <= call.level =>
           /\ i \in DOMAIN mNexts'[n]
           /\ mNexts'[n][i] = Nexts[p][i]
           /\ mSpans'[n][i] = Spans[p][i] - (Place - At(p))
      /\ \A k \in Linked(i) \union {Head} :
           /\ i \in DOMAIN mNexts'[k]
           /\ mNexts'[k][i] = IF i <= call.level /\ p = k THEN n ELSE Nexts[k][i]
           /\ mSpans'[k][i] = IF p # k THEN Spans[k][i]
                              ELSE IF i <= call.level THEN Place - At(p) + 1
                              ELSE Spans[k][i] + 1
           /\ k # p => At(Nexts[k][i]) <= Place \/ At(k) > Place
  BY InsertLevel
<1>4. /\ At(n)' = Place + 1 /\ Place \in 0 .. mLength /\ mLength \in Nat
      /\ \A k \in {Head, Tail} \union Live :
              At(k) \in Int /\ At(k)' = IF At(k) > Place THEN At(k) + 1 ELSE At(k)
  BY InsertAt
<1>5. At(Tail) = mLength + 1 /\ Rank(Tail) = mLength /\ (\A k \in Live : Rank(k) = At(k))
  BY AtFacts DEF IInv, ListInv
<1>6. \A k : k # Head /\ k # Tail => pos'[k] = At(k)'
  BY DEF At
<1>7. \A k \in Live : k # Head /\ k # Tail
  BY NodeFacts DEF IInv, ListInv
<1>8. At(mNexts[m][i])' = IF y = Head THEN 0 ELSE IF y = Tail THEN mLength' + 1 ELSE pos'[y]
  BY DEF At
<1>9. y \in Live \union {n, Tail} => At(mNexts[m][i])' = (IF y = Tail THEN mLength + 2 ELSE pos'[y])
  BY <1>1, <1>7, <1>8, <1>4 DEF Head, Tail
<1>10. CASE m = n
  <2>1. i <= call.level /\ y = Nexts[p][i] /\ i \in DOMAIN mNexts'[m]
        /\ mSpans'[m][i] = Spans[p][i] - (Place - At(p))
    BY <1>1, <1>2, <1>3, <1>10
  <2>2. y \in Linked(i) \union {Tail} /\ y \in Live \union {Tail} /\ Place < At(y)
        /\ (\A l \in Linked(i) : At(l) <= At(p) \/ At(l) >= At(y))
        /\ Spans[p][i] = Rank(y) - At(p)
    BY <1>2, <2>1
  <2>3. At(m)' = Place + 1 /\ At(mNexts[m][i])' = At(y) + 1
    BY <1>1, <1>4, <1>5, <1>6, <1>7, <1>9, <1>10, <2>2
  <2>4. ASSUME NEW k \in linked'[i] PROVE ~(At(m)' < At(k)' /\ At(k)' < At(mNexts[m][i])')
    <3>1. CASE k = n
      BY <1>4, <1>10, <2>3, <3>1
    <3>2. CASE k \in Linked(i)
      BY <1>2, <1>4, <2>2, <2>3, <3>2
    <3> QED BY <1>3, <2>4, <3>1, <3>2
  <2>5. mSpans'[m][i] = (IF y = Tail THEN mLength' ELSE pos'[y]) - At(m)'
    <3>1. At(p) \in Int /\ At(y) \in Int
      BY <1>2, <1>4, <2>2
    <3>2. mSpans'[m][i] = Rank(y) - Place
      BY <1>2, <1>4, <1>5, <2>1, <2>2, <3>1
    <3>3. (IF y = Tail THEN mLength' ELSE pos'[y]) = Rank(y) + 1
      BY <1>1, <1>4, <1>5, <1>9, <2>2, <2>3
    <3> QED BY <1>4, <1>5, <2>2, <2>3, <3>1, <3>2, <3>3
  <2>6. At(m)' < At(mNexts[m][i])'
    BY <1>4, <2>2, <2>3
  <2> QED BY <1>3, <2>1, <2>2, <2>4, <2>5, <2>6
<1>11. CASE m \in Linked(i) \union {Head} /\ m = p /\ i <= call.level
  <2>1. y = n /\ mSpans'[m][i] = Place - At(p) + 1 /\ i \in DOMAIN mNexts'[m]
    BY <1>3, <1>11
  <2>2. At(p) \in Int /\ At(m)' = At(p) /\ At(mNexts[m][i])' = Place + 1 /\ pos'[y] = Place + 1
    BY <1>1, <1>2, <1>4, <1>6, <1>9, <1>11, <2>1
  <2>3. ASSUME NEW k \in linked'[i] PROVE ~(At(m)' < At(k)' /\ At(k)' < At(mNexts[m][i])')
    <3>1. CASE k = n
      BY <1>4, <2>2, <3>1
    <3>2. CASE k \in Linked(i)
      BY <1>2, <1>4, <2>2, <3>2
    <3> QED BY <1>3, <2>3, <3>1, <3>2
  <2>4. n \in linked'[i]
    BY <1>3, <1>11
  <2> QED BY <1>1, <1>2, <1>4, <2>1, <2>2, <2>3, <2>4
<1>12. CASE m \in Linked(i) \union {Head} /\ ~(m = p /\ i <= call.level)
  <2>1. /\ y = Nexts[m][i] /\ i \in DOMAIN mNexts'[m]
        /\ mSpans'[m][i] = IF m = p THEN Spans[m][i] + 1 ELSE Spans[m][i]
        /\ m = p => At(m) <= Place /\ Place < At(y) /\ n \notin linked'[i]
        /\ m # p => At(y) <= Place \/ At(m) > Place
    BY <1>1, <1>2, <1>3, <1>12
  <2>2. /\ y \in Linked(i) \union {Tail} /\ y \in Live \union {Tail} /\ m \in {Head} \union Live
        /\ At(m) < At(y) /\ Spans[m][i] = Rank(y) - At(m)
        /\ \A l \in Linked(i) : At(l) <= At(m) \/ At(l) >= At(y)
    BY <1>2, <1>12, <2>1
  <2>3. /\ At(m) \in Int /\ At(y) \in Int
        /\ At(m)' = IF At(m) > Place THEN At(m) + 1 ELSE At(m)
        /\ At(mNexts[m][i])' = IF At(y) > Place THEN At(y) + 1 ELSE At(y)
    BY <1>4, <1>5, <1>6, <1>7, <1>9, <2>2
  <2>4. ASSUME NEW k \in linked'[i] PROVE ~(At(m)' < At(k)' /\ At(k)' < At(mNexts[m][i])')
    <3>1. CASE k = n
      BY <1>4, <2>1, <2>2, <2>3, <2>4, <3>1
    <3>2. CASE k \in Linked(i)
      BY <1>2, <1>4, <2>2, <2>3, <3>2
    <3> QED BY <1>3, <2>4, <3>1, <3>2
  <2>5. mSpans'[m][i] = (IF y = Tail THEN mLength' ELSE pos'[y]) - At(m)'
    <3>1. y = Tail => At(y) = mLength + 1 /\ Rank(y) = mLength
      BY <1>5
    <3>2. y # Tail => Rank(y) = At(y) /\ pos'[y] = At(mNexts[m][i])'
      BY <1>5, <1>9, <2>2
    <3> QED BY <1>1, <1>4, <2>1, <2>2, <2>3, <3>1, <3>2
  <2>6. At(m)' < At(mNexts[m][i])'
    BY <1>4, <2>2, <2>3
  <2>7. y \in linked'[i] \union {Tail}
    BY <1>3, <2>2
  <2> QED BY <2>1, <2>4, <2>5, <2>6, <2>7
<1> QED BY <1>3, <1>10, <1>11, <1>12
LEMMA InsertShapes ==
  ASSUME IInv, NEW n \in Free, InsertNode(n)
  PROVE  Shapes'
<1>1. /\ n \in Node \ Live /\ n # Head /\ n # Tail /\ Arrived({"insert"})
      /\ Live' = Live \union {n} /\ mLength' = mLength + 1 /\ mMaxLevel' = Top
      /\ mKey' = [m \in Live' |-> IF m = n THEN call.key ELSE mKey[m]]
      /\ mBackword' =
           [[m \in {Tail} \union Live' |-> IF m = n THEN call.nd ELSE mBackword[m]]
              EXCEPT ![Nexts[call.nd][0]] = n]
      /\ DOMAIN mNexts' = {Head} \union Live' /\ DOMAIN mSpans' = {Head} \union Live'
  BY InsertEffect
<1>2. Live \subseteq Node /\ mLength \in Nat /\ linked \in [Level -> SUBSET Live]
      /\ mKey \in [Live -> Key] /\ mBackword \in [{Tail} \union Live -> {Head} \union Node]
  BY DEF IInv, ListInv, Shapes
<1>3. call.key \in Key /\ call.nd \in {Head} \union Live /\ call.level \in Level /\ Top \in Level
      /\ call.level <= Top
  BY <1>1, ArrivedFacts, HeadFacts DEF Arrived, Updates, IInv, CallType
<1>4. call.level \in Nat /\ Top \in Nat
  BY <1>3, LevelFacts
<1>5. mKey' \in [Live' -> Key] /\ mBackword' \in [{Tail} \union Live' -> {Head} \union Node]
  BY <1>1, <1>2, <1>3
<1>6. linked' \in [Level -> SUBSET Live']
  <2>1. linked' = [i \in Level |-> IF i > call.level THEN linked[i]
                                   ELSE IF i > mMaxLevel THEN {n} ELSE linked[i] \union {n}]
    BY InsertEffect
  <2> QED BY <1>1, <1>2, <2>1
<1>7. ASSUME NEW i \in 0 .. Top
      PROVE  /\ Place - call.ranks[i] + 1 \in Nat
             /\ Nexts[Prev(i)][i] \in {Tail} \union Node
             /\ Spans[Prev(i)][i] - (Place - call.ranks[i]) \in Nat
  <2> DEFINE p == Prev(i)
             y == Nexts[p][i]
  <2>1. /\ p \in {Head} \union Live /\ call.ranks[i] = At(p) /\ At(p) <= Place /\ Place < At(y)
        /\ y \in {Tail} \union Live /\ Spans[p][i] = Rank(y) - At(p)
    BY <1>1, RaisedFacts
  <2>2. Place \in 0 .. mLength /\ At(p) \in Int /\ At(y) \in Int
    BY <2>1, InsertAt
  <2>3. y = Tail => Rank(y) = mLength
    BY AtFacts DEF IInv, ListInv
  <2>4. y # Tail => Rank(y) = At(y)
    BY <2>1, AtFacts DEF IInv, ListInv
  <2>5. Rank(y) \in Int /\ Rank(y) >= Place
    BY <1>2, <2>1, <2>2, <2>3, <2>4
  <2> QED BY <1>2, <2>1, <2>2, <2>5
<1>8. ASSUME NEW m \in {Head} \union Live'
      PROVE  \E h \in Level : mNexts'[m] \in [0 .. h -> {Tail} \union Node] /\ mSpans'[m] \in [0 .. h -> Nat]
  <2>1. CASE m = n
    <3>1. \A i \in 0 .. call.level : i \in 0 .. Top
      BY <1>3, <1>4
    <3>2. /\ mNexts'[n] = [i \in 0 .. call.level |-> Nexts[Prev(i)][i]]
          /\ mSpans'[n] = [i \in 0 .. call.level |-> Spans[Prev(i)][i] - (Place - call.ranks[i])]
      BY InsertLinks
    <3>3. mNexts'[n] \in [0 .. call.level -> {Tail} \union Node]
      BY <1>7, <3>1, <3>2
    <3>4. mSpans'[n] \in [0 .. call.level -> Nat]
      BY <1>7, <3>1, <3>2
    <3> QED BY <1>3, <2>1, <3>3, <3>4
  <2>2. CASE m \in {Head} \union Live
    <3>1. PICK h \in Level :
            /\ Nexts[m] \in [0 .. h -> {Tail} \union Node] /\ Spans[m] \in [0 .. h -> Nat]
            /\ mNexts'[m] = [i \in 0 .. h |->
                 IF i <= call.level /\ Prev(i) = m THEN n ELSE Nexts[m][i]]
            /\ mSpans'[m] = [i \in 0 .. h |->
                 IF i > Top \/ Prev(i) # m THEN Spans[m][i]
                 ELSE IF i <= call.level THEN Place - call.ranks[i] + 1
                 ELSE Spans[m][i] + 1]
      BY <2>2, InsertLinks
    <3>2. h \in Nat
      BY LevelFacts
    <3>3. mNexts'[m] \in [0 .. h -> {Tail} \union Node]
      BY <1>1, <3>1
    <3>4. \A i \in 0 .. h : ~(i > Top) => i \in 0 .. Top
      BY <1>4, <3>2
    <3>5. \A i \in 0 .. h :
            (IF i > Top \/ Prev(i) # m THEN Spans[m][i]
             ELSE IF i <= call.level THEN Place - call.ranks[i] + 1
             ELSE Spans[m][i] + 1) \in Nat
      <4>1. \A i \in 0 .. h : Spans[m][i] \in Nat
        BY <3>1
      <4>2. \A i \in 0 .. h : Spans[m][i] + 1 \in Nat
        BY <4>1
      <4>3. \A i \in 0 .. h : ~(i > Top) => Place - call.ranks[i] + 1 \in Nat
        BY <1>7, <3>4
      <4> QED BY <4>1, <4>2, <4>3
    <3>6. mSpans'[m] \in [0 .. h -> Nat]
      BY <3>1, <3>5
    <3> QED BY <3>1, <3>3, <3>6
  <2> QED BY <1>1, <2>1, <2>2
<1> QED BY <1>1, <1>2, <1>3, <1>5, <1>6, <1>8 DEF Shapes

\* The new node comes behind the keys that are not larger, before the others.
LEMMA InsertPositions ==
  ASSUME IInv, NEW n \in Free, InsertNode(n)
  PROVE  Positions'
<1>1. /\ n \in Node \ Live /\ Arrived({"insert"})
      /\ Live' = Live \union {n} /\ mLength' = mLength + 1
      /\ mKey' = [m \in Live' |-> IF m = n THEN call.key ELSE mKey[m]]
      /\ pos' = [m \in Live' |-> IF m = n THEN Place + 1
                                 ELSE IF pos[m] > Place THEN pos[m] + 1 ELSE pos[m]]
  BY InsertEffect
<1>2. Place \in 0 .. mLength /\ mLength \in Nat
  BY InsertAt
<1>3. /\ pos \in [Live -> 1 .. mLength]
      /\ \A m, k \in Live : pos[m] = pos[k] => m = k
      /\ \A p \in 1 .. mLength : \E m \in Live : pos[m] = p
      /\ \A m, k \in Live : pos[m] < pos[k] => mKey[m] <= mKey[k]
  BY DEF IInv, ListInv, Positions
<1>4. /\ pos'[n] = Place + 1
      /\ \A m \in Live : pos[m] \in 1 .. mLength
                         /\ pos'[m] = IF pos[m] > Place THEN pos[m] + 1 ELSE pos[m]
  BY <1>1, <1>3
<1>5. \A m \in Live : mKey[m] <= call.key <=> pos[m] <= Place
  <2>1. /\ call.op = "insert" /\ call.key \in Int /\ LeavesAt(0, call.nd)
        /\ Place = At(call.nd) /\ 0 \in 0 .. mMaxLevel
    BY <1>1, ArrivedFacts, CurrLevelFacts DEF Arrived, Updates, Place
  <2>2. \A m \in linked[0] : Passed(m) <=> At(m) <= Place
    BY <2>1, Separates DEF IInv
  <2> QED BY <2>1, <2>2, AtFacts DEF IInv, ListInv, BackwardInverts, Passed, NotLess
<1>6. call.key \in Int /\ \A m \in Live : mKey[m] \in Int
  BY SkipListAssumption DEF IInv, CallType, ListInv, Shapes
<1>7. pos' \in [Live' -> 1 .. mLength']
  <2>1. \A m \in Live' : pos'[m] \in 1 .. mLength'
    BY <1>1, <1>2, <1>4
  <2> QED BY <1>1, <2>1
<1>8. ASSUME NEW m \in Live', NEW k \in Live', pos'[m] = pos'[k] PROVE m = k
  BY <1>1, <1>2, <1>3, <1>4, <1>8
<1>9. ASSUME NEW p \in 1 .. mLength' PROVE \E m \in Live' : pos'[m] = p
  <2>1. CASE p <= Place
    <3>1. PICK m \in Live : pos[m] = p
      BY <1>2, <1>3, <2>1
    <3> QED BY <1>1, <1>2, <1>4, <2>1, <3>1
  <2>2. CASE p = Place + 1
    BY <1>1, <1>4, <2>2
  <2>3. CASE p > Place + 1
    <3>1. p - 1 \in 1 .. mLength /\ p - 1 > Place
      BY <1>1, <1>2, <2>3
    <3>2. PICK m \in Live : pos[m] = p - 1
      BY <1>3, <3>1
    <3> QED BY <1>1, <1>2, <1>4, <3>1, <3>2
  <2> QED BY <1>1, <1>2, <2>1, <2>2, <2>3
<1>10. ASSUME NEW m \in Live', NEW k \in Live', pos'[m] < pos'[k] PROVE mKey'[m] <= mKey'[k]
  <2>1. CASE m = n /\ k # n
    BY <1>1, <1>2, <1>4, <1>5, <1>6, <1>10, <2>1
  <2>2. CASE m # n /\ k = n
    BY <1>1, <1>2, <1>4, <1>5, <1>6, <1>10, <2>2
  <2>3. CASE m # n /\ k # n
    BY <1>1, <1>2, <1>3, <1>4, <1>10, <2>3
  <2>4. m # n \/ k # n
    BY <1>2, <1>4, <1>10
  <2> QED BY <2>1, <2>2, <2>3, <2>4
<1> QED BY <1>7, <1>8, <1>9, <1>10 DEF Positions

LEMMA InsertStep ==
  ASSUME IInv, NEW n \in Free, InsertNode(n)
  PROVE  IInv'
<1>1. /\ n \in Node \ Live /\ n # Head /\ n # Tail /\ Arrived({"insert"}) /\ call' = NoCall
      /\ Live' = Live \union {n} /\ mMaxLevel' = Top
      /\ mBackword' =
           [[m \in {Tail} \union Live' |-> IF m = n THEN call.nd ELSE mBackword[m]]
              EXCEPT ![Nexts[call.nd][0]] = n]
  BY InsertEffect
<1>2. Top \in Nat /\ mMaxLevel \in Nat /\ call.level \in Nat /\ mMaxLevel <= Top /\ 0 \in 0 .. Top
  <2>1. call.level \in Level /\ Top \in Level /\ mMaxLevel <= Top
    BY <1>1, HeadFacts DEF IInv, CallType
  <2>2. Top \in Nat /\ call.level \in Nat
    BY <2>1, LevelFacts
  <2> QED BY <2>1, <2>2, CurrLevelFacts
<1>3. Nested'
  <2> SUFFICES ASSUME NEW i \in 0 .. Top, NEW j \in 0 .. Top, j <= i
               PROVE  linked'[i] \subseteq linked'[j]
    BY <1>1 DEF Nested
  <2>1. Linked(i) \subseteq Linked(j)
    <3>1. ~(i > mMaxLevel) => i \in 0 .. mMaxLevel /\ j \in 0 .. mMaxLevel /\ ~(j > mMaxLevel)
      BY <1>2
    <3> QED BY <3>1 DEF Linked, IInv, ListInv, Nested
  <2>2. /\ linked'[i] = (IF i <= call.level THEN Linked(i) \union {n} ELSE Linked(i))
        /\ linked'[j] = (IF j <= call.level THEN Linked(j) \union {n} ELSE Linked(j))
    BY InsertLevel
  <2>3. i <= call.level => j <= call.level
    BY <1>2
  <2> QED BY <2>1, <2>2, <2>3
<1>4. BackwardInverts'
  <2> DEFINE b == call.nd
             to == Nexts[b][0]
  <2>1. Linked(0) = Live /\ Prev(0) = b /\ b \in {Head} \union Live
        /\ \A m \in {Head} \union Live : mBackword[mNexts[m][0]] = m
    <3>1. ~(0 > mMaxLevel) /\ linked[0] = Live
      BY <1>2 DEF IInv, ListInv, BackwardInverts
    <3>2. call.prevs[0] = call.nd
      BY <1>1, ArrivedFacts DEF Arrived, Updates
    <3> QED BY <3>1, <3>2 DEF Linked, Prev, IInv, CallType, ListInv, BackwardInverts
  <2>2. /\ linked'[0] = Live'
        /\ mNexts'[n][0] = to
        /\ \A m \in {Head} \union Live : mNexts'[m][0] = IF b = m THEN n ELSE Nexts[m][0]
    <3>1. 0 <= call.level /\ 0 \in 0 .. Top
      BY <1>2
    <3>2. /\ linked'[0] = (IF 0 <= call.level THEN Linked(0) \union {n} ELSE Linked(0))
          /\ 0 <= call.level => mNexts'[n][0] = Nexts[Prev(0)][0]
          /\ \A m \in Linked(0) \union {Head} :
               mNexts'[m][0] = IF 0 <= call.level /\ Prev(0) = m THEN n ELSE Nexts[m][0]
      BY <3>1, InsertLevel
    <3> QED BY <1>1, <2>1, <3>1, <3>2
  <2>3. \A m \in {Head} \union Live : Nexts[m][0] = mNexts[m][0] /\ Nexts[m][0] \in {Tail} \union Live
    <3>1. Nexts[Head][0] = mNexts[Head][0]
      BY <1>1, <1>2, HeadFacts
    <3>2. \A m \in Live : Nexts[m][0] = mNexts[m][0]
      BY NodeFacts DEF Nexts, IInv, ListInv, Shapes
    <3>3. \A m \in {Head} \union Live : Nexts[m][0] \in {Tail} \union Live
      BY <1>1, <1>2, <2>1, RaisedFacts
    <3> QED BY <3>1, <3>2, <3>3
  <2>4. /\ to \in {Tail} \union Live /\ to # n /\ mBackword[to] = b
        /\ mBackword'[to] = n /\ mBackword'[n] = b
        /\ \A y \in {Tail} \union Live : y # to => mBackword'[y] = mBackword[y]
    BY <1>1, <2>1, <2>3
  <2>5. ASSUME NEW m \in {Head} \union Live' PROVE mBackword'[mNexts'[m][0]] = m
    <3>1. CASE m = n
      BY <2>2, <2>4, <3>1
    <3>2. CASE m = b
      BY <2>1, <2>2, <2>4, <3>2
    <3>3. CASE m # n /\ m # b
      <4>1. m \in {Head} \union Live
        BY <1>1, <3>3
      <4>2. mNexts'[m][0] = mNexts[m][0] /\ mNexts[m][0] \in {Tail} \union Live
            /\ mBackword[mNexts[m][0]] = m
        BY <2>1, <2>2, <2>3, <3>3, <4>1
      <4>3. mNexts[m][0] # to
        BY <2>4, <3>3, <4>2
      <4> QED BY <2>4, <4>2, <4>3
    <3> QED BY <3>1, <3>2, <3>3
  <2> QED BY <2>2, <2>5 DEF BackwardInverts
<1> QED BY <1>1, <1>3, <1>4, InsertShapes, InsertPositions, InsertLevelsLink, ReturnStep DEF ListInv
-----------------------------------------------------------------------------
(* erase.                                                                  *)

\* A set of levels has a highest one.
LEMMA HighestOf ==
  ASSUME NEW M \in Nat, NEW T \in SUBSET (0 .. M), T # {}
  PROVE  \E l \in T : \A i \in T : i <= l
<1> DEFINE U == {u \in Nat : M - u \in T}
<1>1. \A l \in T : l \in Nat /\ M - l \in Nat /\ M - (M - l) = l
  OBVIOUS
<1>2. U \subseteq Nat /\ \A l \in T : M - l \in U
  BY <1>1
<1>3. PICK u \in U : \A v \in U : ~(<<v, u>> \in OpToRel(<, Nat))
  <2>1. U # {}
    BY <1>2
  <2> HIDE DEF U
  <2> QED BY <1>2, <2>1, WFMin, NatLessThanWellFounded
<1>4. \A v \in U : ~(v < u)
  <2> HIDE DEF U
  <2> QED BY <1>2, <1>3 DEF OpToRel
<1>5. M - u \in T /\ u \in Nat
  OBVIOUS
<1>6. \A i \in T : i <= M - u
  BY <1>1, <1>2, <1>4, <1>5
<1> QED BY <1>5, <1>6

LEMMA ShrunkFacts ==
  ASSUME mMaxLevel \in Nat, NEW nexts
  PROVE  Shrunk(nexts) \in 0 .. mMaxLevel
<1> DEFINE T == {l \in 0 .. mMaxLevel : l = 0 \/ nexts[Head][l] # Tail}
<1>1. T \in SUBSET (0 .. mMaxLevel) /\ T # {}
  <2>1. 0 \in T
    OBVIOUS
  <2> QED BY <2>1
<1>2. PICK l \in T : \A i \in T : i <= l
  <2> HIDE DEF T
  <2> QED BY <1>1, HighestOf
<1>3. l \in 0 .. mMaxLevel /\ (l = 0 \/ nexts[Head][l] # Tail)
      /\ \A i \in l + 1 .. mMaxLevel : nexts[Head][i] = Tail
  BY <1>2
<1> QED BY <1>3 DEF Shrunk

\* Only one link of a level goes past a position.
LEMMA OneLinkAround ==
  ASSUME ListInv, NEW i \in 0 .. mMaxLevel, NEW m \in On(i), NEW p \in On(i), NEW r \in Int,
         At(m) <= r, r < At(mNexts[m][i]), At(p) <= r, r < At(mNexts[p][i])
  PROVE  m = p
<1>1. /\ m \in {Head} \union Live /\ p \in {Head} \union Live /\ linked[i] \subseteq Live
      /\ mNexts[m][i] \in Live \union {Tail} /\ mNexts[p][i] \in Live \union {Tail}
      /\ \A k \in linked[i] : At(k) <= At(m) \/ At(k) >= At(mNexts[m][i])
      /\ \A k \in linked[i] : At(k) <= At(p) \/ At(k) >= At(mNexts[p][i])
  BY OnFacts DEF ListInv, Shapes
<1>2. /\ At(m) \in Int /\ At(p) \in Int /\ At(mNexts[m][i]) \in Int /\ At(mNexts[p][i]) \in Int
      /\ At(Head) = 0 /\ \A k \in Live : At(k) > 0 /\ At(k) = pos[k]
  BY <1>1, AtFacts DEF ListInv
<1>3. CASE At(m) < At(p)
  <2>1. p \in linked[i]
    BY <1>1, <1>2, <1>3 DEF On
  <2> QED BY <1>1, <1>2, <1>3, <2>1
<1>4. CASE At(p) < At(m)
  <2>1. m \in linked[i]
    BY <1>1, <1>2, <1>4 DEF On
  <2> QED BY <1>1, <1>2, <1>4, <2>1
<1>5. CASE At(p) = At(m)
  BY <1>1, <1>2, <1>5 DEF ListInv, Positions
<1> QED BY <1>2, <1>3, <1>4, <1>5

\* The node that erase has found lies right behind the walk's end, on every level
\* that links it.
LEMMA EraseFacts ==
  ASSUME IInv, Arrived({"erase"}), Hit
  PROVE  /\ Found \in Live /\ At(Found) \in 1 .. mLength
         /\ call.prevs[0] = call.nd /\ call.nd \in {Head} \union Live
         /\ \A i \in 0 .. mMaxLevel :
              /\ call.prevs[i] \in On(i) /\ call.prevs[i] # Found
              /\ At(call.prevs[i]) < At(Found)
              /\ mNexts[call.prevs[i]][i] = Found <=> Found \in linked[i]
              /\ mNexts[call.prevs[i]][i] # Found => At(Found) < At(mNexts[call.prevs[i]][i])
              /\ \A m \in On(i) :
                   At(m) < At(Found) /\ At(Found) <= At(mNexts[m][i]) => m = call.prevs[i]
<1> DEFINE x == Found
           b == call.nd
<1>1. /\ call.key \in Int /\ LeavesAt(0, b) /\ call.prevs[0] = b
      /\ \A i \in 0 .. mMaxLevel : LeavesAt(i, call.prevs[i])
  BY ArrivedFacts DEF Arrived, Updates
<1>2. 0 \in 0 .. mMaxLevel /\ b \in On(0)
  BY <1>1, CurrLevelFacts DEF LeavesAt
<1>3. linked[0] = Live
  BY DEF IInv, ListInv, BackwardInverts
<1>4. /\ b \in {Head} \union Live /\ x \in Live /\ At(b) < At(x)
      /\ \A m \in Live : At(m) <= At(b) \/ At(m) >= At(x)
  <2>1. /\ b \in {Head} \union Live /\ x \in Live \union {Tail} /\ At(b) < At(x)
        /\ \A m \in Live : At(m) <= At(b) \/ At(m) >= At(x)
    BY <1>2, <1>3, OnFacts DEF IInv, Found
  <2> QED BY <2>1 DEF Hit
<1>5. At(Head) = 0 /\ At(Tail) = mLength + 1 /\ mLength \in Nat
      /\ \A m \in Live : At(m) \in 1 .. mLength /\ At(m) = pos[m]
  BY AtFacts DEF IInv, ListInv
<1>6. \A m \in {Head} \union Live : At(m) < At(x) => At(m) <= At(b)
  BY <1>4, <1>5
<1>7. ASSUME NEW i \in 0 .. mMaxLevel
      PROVE  /\ call.prevs[i] \in On(i) /\ call.prevs[i] # Found
             /\ At(call.prevs[i]) < At(Found)
             /\ mNexts[call.prevs[i]][i] = Found <=> Found \in linked[i]
             /\ mNexts[call.prevs[i]][i] # Found => At(Found) < At(mNexts[call.prevs[i]][i])
             /\ \A m \in On(i) :
                  At(m) < At(Found) /\ At(Found) <= At(mNexts[m][i]) => m = call.prevs[i]
  <2> DEFINE p == call.prevs[i]
             y == mNexts[p][i]
  <2>1. LeavesAt(i, p) /\ p \in On(i)
    BY <1>1 DEF LeavesAt
  <2>2. At(p) <= At(b) /\ At(b) < At(y)
    BY <1>1, <2>1, Bracket DEF IInv
  <2>3. /\ p \in {Head} \union Live /\ y \in linked[i] \union {Tail} /\ y \in Live \union {Tail}
        /\ \A m \in linked[i] : At(m) <= At(p) \/ At(m) >= At(y)
    BY <2>1, OnFacts DEF IInv
  <2>4. At(p) \in Int /\ At(b) \in Int /\ At(x) \in Int /\ At(y) \in Int
    BY <1>4, <1>5, <2>3
  <2>5. At(p) < At(x) /\ At(x) <= At(y)
    BY <1>4, <1>5, <2>2, <2>3, <2>4
  <2>6. y # x => At(x) < At(y)
    <3>1. y = Tail => At(x) < At(y)
      BY <1>4, <1>5
    <3>2. y \in Live /\ y # x => At(x) # At(y)
      BY <1>4, <1>5 DEF IInv, ListInv, Positions
    <3> QED BY <2>3, <2>4, <2>5, <3>1, <3>2
  <2>7. y = x <=> x \in linked[i]
    <3>1. y = x => x \in linked[i]
      BY <2>3, <1>4 DEF Hit
    <3>2. x \in linked[i] => At(x) <= At(p) \/ At(x) >= At(y)
      BY <2>3
    <3> QED BY <2>4, <2>5, <2>6, <3>1, <3>2
  <2>8. \A m \in On(i) : At(m) < At(x) /\ At(x) <= At(mNexts[m][i]) => m = p
    <3> SUFFICES ASSUME NEW m \in On(i), At(m) < At(x), At(x) <= At(mNexts[m][i]) PROVE m = p
      OBVIOUS
    <3>1. m \in {Head} \union Live /\ mNexts[m][i] \in Live \union {Tail}
      BY OnFacts DEF IInv
    <3>2. At(m) <= At(b) /\ At(b) < At(mNexts[m][i])
      BY <1>4, <1>5, <1>6, <2>4, <3>1
    <3> QED BY <2>1, <2>2, <2>4, <3>2, OneLinkAround DEF IInv
  <2>9. p # x
    BY <2>4, <2>5
  <2> QED BY <2>1, <2>5, <2>6, <2>7, <2>8, <2>9
<1> QED BY <1>1, <1>4, <1>5, <1>7
\* What the steps of erase come to, field by field.
LEMMA EraseEffect ==
  ASSUME IInv, EraseNode(FALSE)
  PROVE  /\ Arrived({"erase"}) /\ Hit /\ call' = NoCall
         /\ Live' = Live \ {Found} /\ mLength' = mLength - 1 /\ mMaxLevel' \in 0 .. mMaxLevel
         /\ mKey' = [m \in Live' |-> mKey[m]]
         /\ pos' = [m \in Live' |-> IF pos[m] > pos[Found] THEN pos[m] - 1 ELSE pos[m]]
         /\ linked' = [i \in Level |-> IF i <= mMaxLevel' THEN linked[i] \ {Found} ELSE {}]
         /\ mBackword' = [[m \in {Tail} \union Live' |-> mBackword[m]]
                            EXCEPT ![mNexts[Found][0]] = call.nd]
         /\ DOMAIN mNexts' = {Head} \union Live' /\ DOMAIN mSpans' = {Head} \union Live'
         /\ \A m \in {Head} \union Live' :
              \E h \in Level :
                /\ mNexts[m] \in [0 .. h -> {Tail} \union Node] /\ mSpans[m] \in [0 .. h -> Nat]
                /\ mNexts'[m] = [i \in 0 .. h |->
                     IF i <= mMaxLevel /\ call.prevs[i] = m /\ mNexts[m][i] = Found
                     THEN mNexts[Found][i] ELSE mNexts[m][i]]
                /\ mSpans'[m] = [i \in 0 .. h |->
                     IF ~(i <= mMaxLevel /\ call.prevs[i] = m) THEN mSpans[m][i]
                     ELSE IF mNexts[m][i] = Found THEN mSpans[m][i] + mSpans[Found][i] - 1
                     ELSE mSpans[m][i] - 1]
<1> DEFINE x == Found
<1>1. Arrived({"erase"}) /\ Hit /\ call' = NoCall /\ mLength' = mLength - 1
      /\ linked' = [i \in Level |-> IF i <= mMaxLevel' THEN linked[i] \ {x} ELSE {}]
  BY DEF EraseNode, Return
<1>2. x \in Live /\ call.prevs[0] = call.nd
  BY <1>1, EraseFacts
<1>3. DOMAIN mKey = Live /\ DOMAIN mNexts = {Head} \union Live /\ DOMAIN mSpans = {Head} \union Live
      /\ DOMAIN mBackword = {Tail} \union Live
  BY DEF IInv, ListInv, Shapes
<1>4. x # Head /\ x # Tail
  BY <1>2, NodeFacts DEF IInv, ListInv
<1>5. Live' = Live \ {x} /\ pos' = [m \in Live' |-> IF pos[m] > pos[x] THEN pos[m] - 1 ELSE pos[m]]
  <2>1. pos' = [m \in Live \ {x} |-> IF pos[m] > pos[x] THEN pos[m] - 1 ELSE pos[m]]
    BY DEF EraseNode, Live
  <2> HIDE DEF x
  <2> QED BY <2>1 DEF Live
<1>6. mMaxLevel' \in 0 .. mMaxLevel
  BY CurrLevelFacts, ShrunkFacts DEF EraseNode
<1>7. mKey' = [m \in Live' |-> mKey[m]]
  BY <1>3, <1>5 DEF EraseNode
<1>8. mBackword' = [[m \in {Tail} \union Live' |-> mBackword[m]] EXCEPT ![mNexts[x][0]] = call.nd]
  <2>1. mBackword' = SetBackword([m \in DOMAIN mBackword \ {x} |-> mBackword[m]],
                                 mNexts[x][0], call.prevs[0])
    BY DEF EraseNode
  <2>2. DOMAIN mBackword \ {x} = {Tail} \union Live'
    BY <1>3, <1>4, <1>5
  <2> HIDE DEF x
  <2> QED BY <1>2, <2>1, <2>2 DEF SetBackword
<1>9. /\ mNexts' = [m \in {Head} \union Live' |-> [i \in DOMAIN mNexts[m] |->
           IF (i <= mMaxLevel /\ call.prevs[i] = m) /\ mNexts[m][i] = x
           THEN mNexts[x][i] ELSE mNexts[m][i]]]
      /\ mSpans' = [m \in {Head} \union Live' |-> [i \in DOMAIN mSpans[m] |->
           IF ~(i <= mMaxLevel /\ call.prevs[i] = m) THEN mSpans[m][i]
           ELSE IF mNexts[m][i] = x THEN mSpans[m][i] + mSpans[x][i] - 1
           ELSE mSpans[m][i] - 1]]
  <2>1. DOMAIN mNexts \ {x} = {Head} \union Live' /\ DOMAIN mSpans \ {x} = {Head} \union Live'
    BY <1>3, <1>4, <1>5
  <2> QED BY <2>1 DEF EraseNode
<1>10. ASSUME NEW m \in {Head} \union Live'
       PROVE  \E h \in Level :
                /\ mNexts[m] \in [0 .. h -> {Tail} \union Node] /\ mSpans[m] \in [0 .. h -> Nat]
                /\ mNexts'[m] = [i \in 0 .. h |->
                     IF i <= mMaxLevel /\ call.prevs[i] = m /\ mNexts[m][i] = x
                     THEN mNexts[x][i] ELSE mNexts[m][i]]
                /\ mSpans'[m] = [i \in 0 .. h |->
                     IF ~(i <= mMaxLevel /\ call.prevs[i] = m) THEN mSpans[m][i]
                     ELSE IF mNexts[m][i] = x THEN mSpans[m][i] + mSpans[x][i] - 1
                     ELSE mSpans[m][i] - 1]
  <2>1. m \in {Head} \union Live
    BY <1>5
  <2>2. PICK h \in Level : mNexts[m] \in [0 .. h -> {Tail} \union Node] /\ mSpans[m] \in [0 .. h -> Nat]
    BY <2>1 DEF IInv, ListInv, Shapes
  <2> HIDE DEF x
  <2> QED BY <1>9, <2>2
<1> QED BY <1>1, <1>5, <1>6, <1>7, <1>8, <1>9, <1>10

\* The nodes behind the erased one move down by one.
LEMMA EraseAt ==
  ASSUME IInv, EraseNode(FALSE)
  PROVE  /\ At(Found) \in 1 .. mLength /\ mLength \in Nat
         /\ \A m \in {Head, Tail} \union Live' :
              /\ At(m) \in Int /\ At(m) # At(Found)
              /\ At(m)' = IF At(m) > At(Found) THEN At(m) - 1 ELSE At(m)
<1>1. /\ Arrived({"erase"}) /\ Hit /\ Live' = Live \ {Found} /\ mLength' = mLength - 1
      /\ pos' = [m \in Live' |-> IF pos[m] > pos[Found] THEN pos[m] - 1 ELSE pos[m]]
  BY EraseEffect
<1>2. Found \in Live
  BY <1>1, EraseFacts
<1>3. mLength \in Nat /\ At(Head) = 0 /\ At(Tail) = mLength + 1
      /\ \A m \in Live : At(m) = pos[m] /\ At(m) \in 1 .. mLength /\ m # Head /\ m # Tail
  BY AtFacts, NodeFacts DEF IInv, ListInv
<1>4. At(Head)' = 0 /\ At(Tail)' = mLength
  BY <1>1, <1>3 DEF At, Head, Tail
<1>5. \A m \in Live' : At(m)' = IF At(m) > At(Found) THEN At(m) - 1 ELSE At(m)
  BY <1>1, <1>2, <1>3 DEF At
<1>6. \A m \in Live' : At(m) # At(Found)
  BY <1>1, <1>2, <1>3 DEF IInv, ListInv, Positions
<1> QED BY <1>1, <1>2, <1>3, <1>4, <1>5, <1>6

\* A level after the erased node has been taken out of it.
LEMMA EraseLevel ==
  ASSUME IInv, EraseNode(FALSE), NEW i \in 0 .. mMaxLevel, NEW m \in On(i) \ {Found}
  PROVE  /\ i \in DOMAIN mNexts'[m]
         /\ mNexts[m][i] = Found =>
              /\ Found \in linked[i]
              /\ mNexts'[m][i] = mNexts[Found][i]
              /\ mSpans'[m][i] = mSpans[m][i] + mSpans[Found][i] - 1
         /\ mNexts[m][i] # Found =>
              /\ mNexts'[m][i] = mNexts[m][i]
              /\ mSpans'[m][i] = IF At(m) < At(Found) /\ At(Found) < At(mNexts[m][i])
                                 THEN mSpans[m][i] - 1 ELSE mSpans[m][i]
<1> DEFINE p == call.prevs[i]
<1>1. Arrived({"erase"}) /\ Hit /\ Live' = Live \ {Found}
  BY EraseEffect
<1>2. m \in {Head} \union Live' /\ i \in DOMAIN mNexts[m] /\ At(m) < At(mNexts[m][i])
      /\ mNexts[m][i] \in {Tail} \union Live
  BY <1>1, OnFacts, NodeFacts DEF IInv, On
<1>3. PICK h \in Level :
        /\ mNexts[m] \in [0 .. h -> {Tail} \union Node] /\ mSpans[m] \in [0 .. h -> Nat]
        /\ mNexts'[m] = [j \in 0 .. h |->
             IF j <= mMaxLevel /\ call.prevs[j] = m /\ mNexts[m][j] = Found
             THEN mNexts[Found][j] ELSE mNexts[m][j]]
        /\ mSpans'[m] = [j \in 0 .. h |->
             IF ~(j <= mMaxLevel /\ call.prevs[j] = m) THEN mSpans[m][j]
             ELSE IF mNexts[m][j] = Found THEN mSpans[m][j] + mSpans[Found][j] - 1
             ELSE mSpans[m][j] - 1]
  BY <1>2, EraseEffect
<1>4. i \in 0 .. h /\ i <= mMaxLevel
  <2>1. DOMAIN mNexts[m] = 0 .. h
    BY <1>3
  <2> QED BY <1>2, <2>1, CurrLevelFacts
<1>5. /\ mNexts'[m][i] = IF p = m /\ mNexts[m][i] = Found
                         THEN mNexts[Found][i] ELSE mNexts[m][i]
      /\ mSpans'[m][i] = IF p # m THEN mSpans[m][i]
                         ELSE IF mNexts[m][i] = Found THEN mSpans[m][i] + mSpans[Found][i] - 1
                         ELSE mSpans[m][i] - 1
      /\ i \in DOMAIN mNexts'[m]
  BY <1>3, <1>4
<1>6. /\ p \in On(i) /\ At(p) < At(Found) /\ At(Found) \in Int
      /\ mNexts[p][i] = Found <=> Found \in linked[i]
      /\ mNexts[p][i] # Found => At(Found) < At(mNexts[p][i])
      /\ At(m) < At(Found) /\ At(Found) <= At(mNexts[m][i]) => m = p
  BY <1>1, EraseFacts
<1>7. At(mNexts[m][i]) \in Int
  BY <1>2, AtFacts DEF IInv, ListInv
<1>8. CASE mNexts[m][i] = Found
  <2>1. m = p
    BY <1>2, <1>6, <1>8
  <2> QED BY <1>5, <1>6, <1>8, <2>1
<1>9. CASE mNexts[m][i] # Found
  <2>1. m = p <=> At(m) < At(Found) /\ At(Found) < At(mNexts[m][i])
    BY <1>6, <1>7, <1>9
  <2> QED BY <1>5, <1>9, <2>1
<1> QED BY <1>8, <1>9
LEMMA EraseShapes ==
  ASSUME IInv, EraseNode(FALSE)
  PROVE  Shapes'
<1> DEFINE x == Found
<1>1. /\ Arrived({"erase"}) /\ Hit
      /\ Live' = Live \ {x} /\ mLength' = mLength - 1 /\ mMaxLevel' \in 0 .. mMaxLevel
      /\ mKey' = [m \in Live' |-> mKey[m]]
      /\ linked' = [i \in Level |-> IF i <= mMaxLevel' THEN linked[i] \ {x} ELSE {}]
      /\ mBackword' = [[m \in {Tail} \union Live' |-> mBackword[m]] EXCEPT ![mNexts[x][0]] = call.nd]
      /\ DOMAIN mNexts' = {Head} \union Live' /\ DOMAIN mSpans' = {Head} \union Live'
  BY EraseEffect
<1>2. /\ Live \subseteq Node /\ linked \in [Level -> SUBSET Live]
      /\ mKey \in [Live -> Key] /\ mBackword \in [{Tail} \union Live -> {Head} \union Node]
  BY DEF IInv, ListInv, Shapes
<1>3. call.nd \in {Head} \union Live /\ mMaxLevel \in Nat
  BY <1>1, EraseFacts, CurrLevelFacts
<1>4. mKey' \in [Live' -> Key] /\ mBackword' \in [{Tail} \union Live' -> {Head} \union Node]
  BY <1>1, <1>2, <1>3
<1>5. linked' \in [Level -> SUBSET Live']
  BY <1>1, <1>2
<1>6. mMaxLevel' \in Level /\ mLength' \in Nat
  <2>1. mMaxLevel' \in Level
    BY <1>1, <1>3, CurrLevelFacts, LevelFacts
  <2> QED BY <1>1, <2>1, EraseAt
<1>7. ASSUME NEW m \in {Head} \union Live'
      PROVE  \E h \in Level : mNexts'[m] \in [0 .. h -> {Tail} \union Node] /\ mSpans'[m] \in [0 .. h -> Nat]
  <2>1. PICK h \in Level :
          /\ mNexts[m] \in [0 .. h -> {Tail} \union Node] /\ mSpans[m] \in [0 .. h -> Nat]
          /\ mNexts'[m] = [i \in 0 .. h |->
               IF i <= mMaxLevel /\ call.prevs[i] = m /\ mNexts[m][i] = x
               THEN mNexts[x][i] ELSE mNexts[m][i]]
          /\ mSpans'[m] = [i \in 0 .. h |->
               IF ~(i <= mMaxLevel /\ call.prevs[i] = m) THEN mSpans[m][i]
               ELSE IF mNexts[m][i] = x THEN mSpans[m][i] + mSpans[x][i] - 1
               ELSE mSpans[m][i] - 1]
    BY EraseEffect
  <2>2. ASSUME NEW i \in 0 .. h, i <= mMaxLevel, call.prevs[i] = m
        PROVE  /\ mNexts[m][i] = x => mNexts[x][i] \in {Tail} \union Node
                                      /\ mSpans[m][i] + mSpans[x][i] - 1 \in Nat
               /\ mNexts[m][i] # x => mSpans[m][i] - 1 \in Nat
    <3>1. i \in 0 .. mMaxLevel
      BY <1>3, <2>2
    <3>2. /\ m \in On(i) /\ At(m) < At(x)
          /\ mNexts[m][i] = x <=> x \in linked[i]
          /\ mNexts[m][i] # x => At(x) < At(mNexts[m][i])
      BY <1>1, <2>2, <3>1, EraseFacts
    <3>3. /\ m \in {Head} \union Live /\ mNexts[m][i] \in Live \union {Tail}
          /\ mSpans[m][i] = Rank(mNexts[m][i]) - At(m)
      BY <3>1, <3>2, OnFacts DEF IInv
    <3>4. At(m) \in Int /\ At(x) \in 1 .. mLength /\ Rank(Tail) = mLength /\ mLength \in Nat
          /\ \A k \in Live : At(k) \in Int /\ Rank(k) = At(k)
      BY <3>3, EraseAt, AtFacts DEF IInv, ListInv
    <3>5. CASE mNexts[m][i] = x
      <4>1. x \in On(i) /\ x \in Live
        BY <1>1, <3>2, <3>5, EraseFacts DEF On
      <4>2. /\ mNexts[x][i] \in Live \union {Tail} /\ At(x) < At(mNexts[x][i])
            /\ mSpans[x][i] = Rank(mNexts[x][i]) - At(x)
        BY <3>1, <4>1, OnFacts DEF IInv
      <4>3. Rank(mNexts[x][i]) \in Int /\ Rank(mNexts[x][i]) >= At(x)
        BY <3>4, <4>2
      <4>4. mSpans[m][i] + mSpans[x][i] - 1 \in Nat
        BY <3>2, <3>3, <3>4, <3>5, <4>1, <4>2, <4>3
      <4> QED BY <1>2, <3>5, <4>2, <4>4
    <3>6. CASE mNexts[m][i] # x
      <4>1. Rank(mNexts[m][i]) \in Int /\ Rank(mNexts[m][i]) >= At(x)
        BY <3>2, <3>3, <3>4, <3>6
      <4> QED BY <3>2, <3>3, <3>4, <3>6, <4>1
    <3> QED BY <3>5, <3>6
  <2>3. mNexts'[m] \in [0 .. h -> {Tail} \union Node]
    <3>1. \A i \in 0 .. h :
            (IF i <= mMaxLevel /\ call.prevs[i] = m /\ mNexts[m][i] = x
             THEN mNexts[x][i] ELSE mNexts[m][i]) \in {Tail} \union Node
      <4>1. \A i \in 0 .. h : mNexts[m][i] \in {Tail} \union Node
        BY <2>1
      <4> QED BY <2>2, <4>1
    <3> QED BY <2>1, <3>1
  <2>4. mSpans'[m] \in [0 .. h -> Nat]
    <3>1. \A i \in 0 .. h :
            (IF ~(i <= mMaxLevel /\ call.prevs[i] = m) THEN mSpans[m][i]
             ELSE IF mNexts[m][i] = x THEN mSpans[m][i] + mSpans[x][i] - 1
             ELSE mSpans[m][i] - 1) \in Nat
      <4>1. \A i \in 0 .. h : mSpans[m][i] \in Nat
        BY <2>1
      <4> QED BY <2>2, <4>1
    <3> QED BY <2>1, <3>1
  <2> QED BY <2>3, <2>4
<1> QED BY <1>1, <1>2, <1>4, <1>5, <1>6, <1>7 DEF Shapes

LEMMA ErasePositions ==
  ASSUME IInv, EraseNode(FALSE)
  PROVE  Positions'
<1> DEFINE x == Found
           q == pos[Found]
<1>1. /\ Arrived({"erase"}) /\ Hit /\ Live' = Live \ {x} /\ mLength' = mLength - 1
      /\ mKey' = [m \in Live' |-> mKey[m]]
      /\ pos' = [m \in Live' |-> IF pos[m] > q THEN pos[m] - 1 ELSE pos[m]]
  BY EraseEffect
<1>2. x \in Live /\ mLength \in Nat
  BY <1>1, EraseFacts, EraseAt
<1>3. /\ pos \in [Live -> 1 .. mLength]
      /\ \A m, k \in Live : pos[m] = pos[k] => m = k
      /\ \A p \in 1 .. mLength : \E m \in Live : pos[m] = p
      /\ \A m, k \in Live : pos[m] < pos[k] => mKey[m] <= mKey[k]
  BY DEF IInv, ListInv, Positions
<1>4. q \in 1 .. mLength /\ \A m \in Live' :
        /\ m \in Live /\ pos[m] \in 1 .. mLength /\ pos[m] # q
        /\ pos'[m] = IF pos[m] > q THEN pos[m] - 1 ELSE pos[m]
  BY <1>1, <1>2, <1>3
<1>5. pos' \in [Live' -> 1 .. mLength']
  <2>1. \A m \in Live' : pos'[m] \in 1 .. mLength'
    BY <1>1, <1>2, <1>4
  <2> QED BY <1>1, <2>1
<1>6. ASSUME NEW m \in Live', NEW k \in Live', pos'[m] = pos'[k] PROVE m = k
  BY <1>2, <1>3, <1>4, <1>6
<1>7. ASSUME NEW p \in 1 .. mLength' PROVE \E m \in Live' : pos'[m] = p
  <2>1. CASE p < q
    <3>1. PICK m \in Live : pos[m] = p
      BY <1>1, <1>2, <1>3
    <3> QED BY <1>1, <1>4, <2>1, <3>1
  <2>2. CASE p >= q
    <3>1. p + 1 \in 1 .. mLength /\ p + 1 > q
      BY <1>1, <1>2, <1>4, <2>2
    <3>2. PICK m \in Live : pos[m] = p + 1
      BY <1>3, <3>1
    <3> QED BY <1>1, <1>4, <3>1, <3>2
  <2> QED BY <1>1, <1>2, <1>4, <2>1, <2>2
<1>8. ASSUME NEW m \in Live', NEW k \in Live', pos'[m] < pos'[k] PROVE mKey'[m] <= mKey'[k]
  BY <1>1, <1>2, <1>3, <1>4, <1>8
<1> QED BY <1>5, <1>6, <1>7, <1>8 DEF Positions

LEMMA EraseLevelsLink ==
  ASSUME IInv, EraseNode(FALSE)
  PROVE  LevelsLinkInOrder' /\ SpansAreDistances'
<1> DEFINE x == Found
<1>1. /\ Arrived({"erase"}) /\ Hit /\ Live' = Live \ {x} /\ mLength' = mLength - 1
      /\ mMaxLevel' \in 0 .. mMaxLevel
      /\ linked' = [i \in Level |-> IF i <= mMaxLevel' THEN linked[i] \ {x} ELSE {}]
  BY EraseEffect
<1>2. mMaxLevel \in Nat /\ x \in Live
  BY <1>1, CurrLevelFacts, EraseFacts
<1> SUFFICES ASSUME NEW i \in 0 .. mMaxLevel', NEW m \in linked'[i] \union {Head}
             PROVE  /\ i \in DOMAIN mNexts'[m]
                    /\ mNexts'[m][i] \in linked'[i] \union {Tail}
                    /\ At(m)' < At(mNexts[m][i])'
                    /\ \A k \in linked'[i] : ~(At(m)' < At(k)' /\ At(k)' < At(mNexts[m][i])')
                    /\ mSpans'[m][i] =
                         (IF mNexts'[m][i] = Tail THEN mLength' ELSE pos'[mNexts'[m][i]]) - At(m)'
  BY DEF LevelsLinkInOrder, SpansAreDistances
<1> DEFINE y == mNexts[m][i]
           z == mNexts'[m][i]
<1>3. i \in 0 .. mMaxLevel /\ i \in Level /\ linked'[i] = linked[i] \ {x} /\ linked[i] \subseteq Live
  <2>1. i \in 0 .. mMaxLevel /\ i <= mMaxLevel'
    BY <1>1, <1>2
  <2>2. i \in Level
    BY <2>1, <1>2, CurrLevelFacts, LevelFacts
  <2> QED BY <1>1, <2>1, <2>2 DEF IInv, ListInv, Shapes
<1>4. m \in On(i) \ {x} /\ m \in {Head} \union Live'
  BY <1>1, <1>2, <1>3, NodeFacts DEF On, IInv, ListInv
<1>5. \A k \in On(i) : /\ mNexts[k][i] \in linked[i] \union {Tail}
                       /\ At(k) < At(mNexts[k][i])
                       /\ \A l \in linked[i] : At(l) <= At(k) \/ At(l) >= At(mNexts[k][i])
                       /\ mSpans[k][i] = Rank(mNexts[k][i]) - At(k)
  BY <1>3, OnFacts DEF IInv
<1>6. /\ At(x) \in 1 .. mLength /\ mLength \in Nat
      /\ \A k \in {Head, Tail} \union Live' :
              /\ At(k) \in Int /\ At(k) # At(x)
              /\ At(k)' = IF At(k) > At(x) THEN At(k) - 1 ELSE At(k)
  BY EraseAt
<1>7. At(Tail) = mLength + 1 /\ Rank(Tail) = mLength /\ (\A k \in Live : Rank(k) = At(k))
  BY AtFacts DEF IInv, ListInv
<1>8. z \in {Tail} \union Live' =>
        /\ At(mNexts[m][i])' = IF At(z) > At(x) THEN At(z) - 1 ELSE At(z)
        /\ (IF z = Tail THEN mLength' ELSE pos'[z]) = IF At(z) > At(x) THEN Rank(z) - 1 ELSE Rank(z)
  <2>1. \A k \in Live' : k # Head /\ k # Tail /\ k \in Live
    BY <1>1, NodeFacts DEF IInv, ListInv
  <2>2. At(mNexts[m][i])' = IF z = Head THEN 0 ELSE IF z = Tail THEN mLength' + 1 ELSE pos'[z]
    BY DEF At
  <2>3. z = Tail => At(mNexts[m][i])' = mLength
    BY <1>1, <1>6, <2>2 DEF Head, Tail
  <2>4. z \in Live' => pos'[z] = At(mNexts[m][i])'
    BY <2>1, <2>2
  <2>5. z \in Live' => At(mNexts[m][i])' = IF At(z) > At(x) THEN At(z) - 1 ELSE At(z)
    <3> SUFFICES ASSUME z \in Live'
                 PROVE  At(mNexts[m][i])' = IF At(z) > At(x) THEN At(z) - 1 ELSE At(z)
      OBVIOUS
    <3>1. At(mNexts[m][i])' = pos'[z]
      BY <2>4
    <3>2. \A k \in Live' : pos'[k] = IF At(k) > At(x) THEN At(k) - 1 ELSE At(k)
      BY <1>6, <2>1 DEF At
    <3> QED BY <3>1, <3>2
  <2> QED BY <1>1, <1>6, <1>7, <2>1, <2>3, <2>4, <2>5
<1>9. ASSUME z \in linked'[i] \union {Tail}, At(m) < At(z),
             \A k \in linked'[i] : At(k) <= At(m) \/ At(k) >= At(z)
      PROVE  /\ At(m)' < At(mNexts[m][i])'
             /\ \A k \in linked'[i] : ~(At(m)' < At(k)' /\ At(k)' < At(mNexts[m][i])')
  <2>1. z \in {Tail} \union Live' /\ linked'[i] \subseteq Live'
    BY <1>1, <1>3, <1>9
  <2>2. /\ At(m) \in Int /\ At(m) # At(x)
        /\ At(m)' = IF At(m) > At(x) THEN At(m) - 1 ELSE At(m)
        /\ At(z) \in Int /\ At(z) # At(x)
        /\ At(mNexts[m][i])' = IF At(z) > At(x) THEN At(z) - 1 ELSE At(z)
    BY <1>4, <1>6, <1>8, <2>1
  <2>3. At(m)' < At(mNexts[m][i])'
    BY <1>6, <1>9, <2>2
  <2>4. ASSUME NEW k \in linked'[i]
        PROVE  ~(At(m)' < At(k)' /\ At(k)' < At(mNexts[m][i])')
    <3>1. At(k) \in Int /\ At(k) # At(x) /\ At(k)' = IF At(k) > At(x) THEN At(k) - 1 ELSE At(k)
      BY <1>6, <2>1
    <3> QED BY <1>6, <1>9, <2>2, <3>1
  <2> QED BY <2>3, <2>4
<1>10. /\ i \in DOMAIN mNexts'[m]
       /\ y = x => x \in linked[i] /\ z = mNexts[x][i] /\ mSpans'[m][i] = mSpans[m][i] + mSpans[x][i] - 1
       /\ y # x => z = y /\ mSpans'[m][i] = IF At(m) < At(x) /\ At(x) < At(y)
                                            THEN mSpans[m][i] - 1 ELSE mSpans[m][i]
  BY <1>3, <1>4, EraseLevel
<1>11. CASE y = x
  <2>1. x \in On(i) /\ z = mNexts[x][i] /\ At(m) < At(x) /\ At(x) < At(z)
        /\ z \in linked[i] \union {Tail} /\ mSpans[x][i] = Rank(z) - At(x)
        /\ mSpans[m][i] = At(x) - At(m)
        /\ (\A l \in linked[i] : At(l) <= At(m) \/ At(l) >= At(x))
        /\ (\A l \in linked[i] : At(l) <= At(x) \/ At(l) >= At(z))
    BY <1>2, <1>4, <1>5, <1>7, <1>10, <1>11 DEF On
  <2>2. z # x /\ z \in linked'[i] \union {Tail} /\ z \in {Tail} \union Live'
    BY <1>1, <1>3, <1>6, <2>1
  <2>3. At(m) \in Int /\ At(z) \in Int /\ At(m)' = At(m)
    BY <1>4, <1>6, <2>1, <2>2
  <2>4. \A k \in linked'[i] : At(k) <= At(m) \/ At(k) >= At(z)
    <3> SUFFICES ASSUME NEW k \in linked'[i] PROVE At(k) <= At(m) \/ At(k) >= At(z)
      OBVIOUS
    <3>1. k \in Live' /\ k \in linked[i]
      BY <1>1, <1>3
    <3>2. At(k) \in Int /\ At(k) # At(x)
      BY <1>6, <3>1
    <3> QED BY <1>6, <2>1, <3>1, <3>2
  <2>5. mSpans'[m][i] = (IF z = Tail THEN mLength' ELSE pos'[z]) - At(m)'
    <3>1. Rank(z) \in Int
      BY <1>6, <1>7, <1>1, <2>2
    <3> QED BY <1>6, <1>8, <1>10, <1>11, <2>1, <2>2, <2>3, <3>1
  <2>6. At(m) < At(z)
    BY <1>6, <2>1, <2>3
  <2> QED BY <1>9, <1>10, <2>2, <2>4, <2>5, <2>6
<1>12. CASE y # x
  <2>1. /\ z = y /\ y \in linked[i] \union {Tail} /\ At(m) < At(y)
        /\ \A l \in linked[i] : At(l) <= At(m) \/ At(l) >= At(y)
        /\ mSpans[m][i] = Rank(y) - At(m)
    BY <1>4, <1>5, <1>10, <1>12
  <2>2. z \in linked'[i] \union {Tail} /\ z \in {Tail} \union Live'
    BY <1>1, <1>3, <1>12, <2>1
  <2>3. /\ At(m) \in Int /\ At(z) \in Int /\ At(m) # At(x) /\ At(z) # At(x)
        /\ At(m)' = IF At(m) > At(x) THEN At(m) - 1 ELSE At(m)
    BY <1>4, <1>6, <2>2
  <2>4. \A k \in linked'[i] : At(k) <= At(m) \/ At(k) >= At(z)
    BY <1>3, <2>1
  <2>5. mSpans'[m][i] = (IF z = Tail THEN mLength' ELSE pos'[z]) - At(m)'
    <3>1. Rank(z) \in Int
      BY <1>6, <1>7, <1>1, <2>2
    <3>2. (IF z = Tail THEN mLength' ELSE pos'[z]) = IF At(z) > At(x) THEN Rank(z) - 1 ELSE Rank(z)
      BY <1>8, <2>2
    <3>3. mSpans'[m][i] = IF At(m) < At(x) /\ At(x) < At(z)
                          THEN Rank(z) - At(m) - 1 ELSE Rank(z) - At(m)
      BY <1>10, <1>12, <2>1
    <3> QED BY <1>6, <2>1, <2>3, <3>1, <3>2, <3>3
  <2> QED BY <1>9, <1>10, <2>1, <2>2, <2>4, <2>5
<1> QED BY <1>11, <1>12

LEMMA EraseStep ==
  ASSUME IInv, EraseNode(FALSE)
  PROVE  IInv'
<1> DEFINE x == Found
<1>1. /\ Arrived({"erase"}) /\ Hit /\ call' = NoCall /\ Live' = Live \ {x}
      /\ mMaxLevel' \in 0 .. mMaxLevel
      /\ linked' = [i \in Level |-> IF i <= mMaxLevel' THEN linked[i] \ {x} ELSE {}]
      /\ mBackword' = [[m \in {Tail} \union Live' |-> mBackword[m]] EXCEPT ![mNexts[x][0]] = call.nd]
  BY EraseEffect
<1>2. mMaxLevel \in Nat /\ x \in Live /\ 0 \in 0 .. mMaxLevel
  BY <1>1, CurrLevelFacts, EraseFacts
<1>3. \A i \in 0 .. mMaxLevel' : i \in 0 .. mMaxLevel /\ linked'[i] = linked[i] \ {x}
  <2> SUFFICES ASSUME NEW i \in 0 .. mMaxLevel'
               PROVE  i \in 0 .. mMaxLevel /\ linked'[i] = linked[i] \ {x}
    OBVIOUS
  <2>1. i \in 0 .. mMaxLevel /\ i <= mMaxLevel'
    BY <1>1, <1>2
  <2>2. i \in Level
    BY <2>1, <1>2, CurrLevelFacts, LevelFacts
  <2> QED BY <1>1, <2>1, <2>2
<1>4. Nested'
  BY <1>3 DEF IInv, ListInv, Nested
<1>5. BackwardInverts'
  <2> DEFINE z == mNexts[x][0]
  <2>1. linked[0] = Live /\ On(0) = Live \union {Head} /\ 0 \in 0 .. mMaxLevel'
        /\ \A m \in Live \union {Head} : mBackword[mNexts[m][0]] = m
    BY <1>1, <1>2 DEF IInv, ListInv, BackwardInverts, On
  <2>2. \A m \in Live \union {Head} : mNexts[m][0] \in Live \union {Tail} /\ At(m) < At(mNexts[m][0])
    BY <1>2, <2>1, OnFacts DEF IInv
  <2>3. z \in {Tail} \union Live' /\ mBackword[z] = x
    <3>1. z # x
      BY <1>1, <1>2, <2>2, EraseFacts
    <3> QED BY <1>1, <1>2, <2>1, <2>2, <3>1
  <2>4. mBackword'[z] = call.nd /\ \A k \in {Tail} \union Live' : k # z => mBackword'[k] = mBackword[k]
    BY <1>1, <2>3
  <2>5. mNexts[call.nd][0] = x
    BY DEF Found
  <2>6. ASSUME NEW m \in Live' \union {Head} PROVE mBackword'[mNexts'[m][0]] = m
    <3>1. m \in On(0) \ {x} /\ m \in Live \union {Head}
      BY <1>1, <1>2, <2>1, NodeFacts DEF IInv, ListInv
    <3>2. /\ mNexts[m][0] = x => mNexts'[m][0] = z
          /\ mNexts[m][0] # x => mNexts'[m][0] = mNexts[m][0]
      BY <1>2, <3>1, EraseLevel
    <3>3. CASE mNexts[m][0] = x
      <4>1. call.nd \in Live \union {Head}
        BY <1>1, EraseFacts
      <4>2. m = call.nd
        BY <2>1, <2>5, <3>1, <3>3, <4>1
      <4> QED BY <2>4, <3>2, <3>3, <4>2
    <3>4. CASE mNexts[m][0] # x
      <4>1. mNexts[m][0] # z
        BY <2>1, <2>3, <3>1
      <4>2. mNexts[m][0] \in {Tail} \union Live'
        BY <1>1, <2>2, <3>1, <3>4
      <4> QED BY <2>1, <2>4, <3>1, <3>2, <3>4, <4>1, <4>2
    <3> QED BY <3>3, <3>4
  <2>7. linked'[0] = Live'
    BY <1>1, <1>3, <2>1
  <2> QED BY <2>6, <2>7 DEF BackwardInverts
<1> QED BY <1>1, <1>4, <1>5, EraseShapes, ErasePositions, EraseLevelsLink, ReturnStep DEF ListInv
-----------------------------------------------------------------------------
(* The theorems.                                                           *)

LEMMA NextInv == IInv /\ [Next]_vars => IInv'
<1> SUFFICES ASSUME IInv, [Next]_vars PROVE IInv'
  OBVIOUS
<1>1. ASSUME NEW k \in Key, NEW level \in Level, Search("insert", k, level) PROVE IInv'
  BY <1>1, SearchStep DEF Ops
<1>2. ASSUME NEW k \in Key, NEW op \in Ops, Search(op, k, 0) PROVE IInv'
  BY <1>2, SearchStep, LevelFacts
<1>3. ASSUME NEW op \in Ops, NEW k \in Key, Bound(op, k) PROVE IInv'
  <2>1. CASE Search(op, k, 0)
    BY <1>2, <2>1
  <2>2. CASE call = NoCall /\ UNCHANGED <<shape, call>>
    BY <2>2, QueryStep
  <2> QED BY <1>3, <2>1, <2>2 DEF Bound
<1>4. CASE Start
  <2>1. ASSUME NEW k \in Key, Insert(k) PROVE IInv'
    BY <1>1, <2>1 DEF Insert
  <2>2. ASSUME NEW k \in Key, Erase(k) \/ GetRank(k) PROVE IInv'
    BY <1>2, <2>2 DEF Erase, GetRank, Ops
  <2>3. ASSUME NEW k \in Key, Bound("lower_bound", k) \/ Bound("upper_bound", k) PROVE IInv'
    BY <1>3, <2>3 DEF Ops
  <2>4. ASSUME NEW ml \in Level, SetMaxLevel(ml) PROVE IInv'
    BY <2>4, SetMaxLevelStep
  <2> QED BY <1>4, <2>1, <2>2, <2>3, <2>4 DEF Start
<1>5. CASE Step(FALSE)
  <2>1. CASE Forward
    BY <2>1, ForwardStep
  <2>2. CASE Descend
    BY <2>2, DescendStep
  <2>3. ASSUME NEW n \in Free, InsertNode(n) PROVE IInv'
    BY <2>3, InsertStep
  <2>4. CASE EraseMiss \/ BoundFound \/ RankFound
    BY <2>4, QueryStep DEF EraseMiss, BoundFound, RankFound, Return
  <2>5. CASE EraseNode(FALSE)
    BY <2>5, EraseStep
  <2> QED BY <1>5, <2>1, <2>2, <2>3, <2>4, <2>5 DEF Step
<1>6. CASE UNCHANGED vars
  <2>1. UNCHANGED shape /\ call' = call
    BY <1>6 DEF vars
  <2>2. CallType'
    BY <2>1 DEF IInv, CallType, shape, Live
  <2>3. WalkInv'
    BY <2>1 DEF IInv, WalkInv, On, At, Passed, LeavesAt, NotBeyond, shape
  <2> QED BY <2>1, <2>2, <2>3, ListUnchanged DEF IInv
<1> QED BY <1>4, <1>5, <1>6 DEF Next

\* The list and the walk are as IInv describes them in every state.
THEOREM Invariance == Spec => []IInv
<1>1. Init => IInv
  BY InitInv
<1>2. IInv /\ [Next]_vars => IInv'
  BY NextInv
<1> QED BY <1>1, <1>2, PTL DEF Spec

\* Every variable keeps its type: pointers lead to nodes in memory, spans are not
\* negative, and mMaxLevel never leaves the levels.
THEOREM TypeCorrect == Spec => []TypeOK
<1>1. IInv => TypeOK
  <2> SUFFICES ASSUME IInv PROVE TypeOK
    OBVIOUS
  <2>1. /\ Live \subseteq Node /\ DOMAIN mKey = Live /\ mKey \in [DOMAIN mKey -> Key]
        /\ DOMAIN mNexts = {Head} \union DOMAIN mKey /\ DOMAIN mSpans = {Head} \union DOMAIN mKey
        /\ mBackword \in [{Tail} \union DOMAIN mKey -> {Head} \union Node]
        /\ mMaxLevel \in Level /\ mLength \in Nat /\ linked \in [Level -> SUBSET Live]
    BY DEF IInv, ListInv, Shapes
  <2>2. \A n \in DOMAIN mNexts :
          \E h \in Level : mNexts[n] \in [0 .. h -> {Tail} \union Node] /\ mSpans[n] \in [0 .. h -> Nat]
    BY DEF IInv, ListInv, Shapes
  <2>3. /\ call.nd \in DOMAIN mNexts /\ call.currLevel \in Level \union {-1}
        /\ call.prevs \in [Level -> {NullPtr} \union DOMAIN mNexts] /\ call.ranks \in [Level -> Nat]
    <3>1. {NullPtr, Head} \union Live = {NullPtr} \union DOMAIN mNexts
      BY <2>1
    <3> QED BY <3>1, <2>1 DEF IInv, CallType
  <2> QED BY <2>1, <2>2, <2>3 DEF TypeOK
<1> QED BY <1>1, Invariance, PTL

\* Every level links its nodes in the order of the list, whatever insert, erase and
\* a lowered level did before.
THEOREM LinksInOrder == Spec => []LevelsLinkInOrder
<1>1. IInv => LevelsLinkInOrder
  BY DEF IInv, ListInv
<1> QED BY <1>1, Invariance, PTL

\* The spans that getRank adds up are the distances between the nodes.
THEOREM SpansRight == Spec => []SpansAreDistances
<1>1. IInv => SpansAreDistances
  BY DEF IInv, ListInv
<1> QED BY <1>1, Invariance, PTL

\* The bottom level is doubly linked.
THEOREM DoublyLinked == Spec => []BackwardInverts
<1>1. IInv => BackwardInverts
  BY DEF IInv, ListInv
<1> QED BY <1>1, Invariance, PTL

\* A step of a walk along a level leads on to a node at a higher position, so no
\* walk goes round.
THEOREM WalksAdvance == Spec => WalkAdvances
<1>1. IInv => [Forward => At(call.nd) < At(call'.nd) /\ call'.nd # Tail]_vars
  <2> SUFFICES ASSUME IInv, Forward PROVE At(call.nd) < At(call'.nd) /\ call'.nd # Tail
    OBVIOUS
  <2>1. call'.nd = next
    BY DEF IInv, CallType, Forward
  <2> QED BY <2>1, ForwardFacts, NodeFacts DEF IInv, ListInv
<1> QED BY <1>1, Invariance, PTL DEF WalkAdvances

-----------------------------------------------------------------------------
(* SkipList implements SortedList.  A call takes effect in its last step;  *)
(* until then the list of entries stays what it is.  Where a walk has      *)
(* ended, the bottom level tells the positions below the key from those    *)
(* above it.                                                               *)

\* lower_bound and upper_bound walk only when the key is not outside the list.
Bounds == {"lower_bound", "upper_bound"}
RangeInv ==
  call.op \in Bounds => mLength = 0 \/ Abstract!InRange(call.key)

Inv == IInv /\ RangeInv

-----------------------------------------------------------------------------
(* The entries.                                                            *)

LEMMA EntryFacts ==
  ASSUME ListInv
  PROVE  /\ mLength \in Nat /\ DOMAIN entries = 1 .. mLength
         /\ \A n \in Live : pos[n] \in 1 .. mLength /\ entries[pos[n]] = [node |-> n, key |-> mKey[n]]
         /\ \A p \in 1 .. mLength : entries[p].node \in Live /\ pos[entries[p].node] = p
                                    /\ entries[p] = [node |-> entries[p].node, key |-> mKey[entries[p].node]]
<1> DEFINE N(p) == CHOOSE m \in Live : pos[m] = p
<1>1. /\ mLength \in Nat /\ pos \in [Live -> 1 .. mLength]
      /\ \A n, m \in Live : pos[n] = pos[m] => n = m
      /\ \A p \in 1 .. mLength : \E n \in Live : pos[n] = p
  BY DEF ListInv, Shapes, Positions
<1>2. \A p \in 1 .. mLength : N(p) \in Live /\ pos[N(p)] = p
  BY <1>1
<1>3. \A n \in Live : N(pos[n]) = n
  BY <1>1, <1>2
<1>4. entries = [p \in 1 .. mLength |-> [node |-> N(p), key |-> mKey[N(p)]]]
  BY DEF entries
<1> HIDE DEF N
<1> QED BY <1>1, <1>2, <1>3, <1>4

\* Each node is the entry at its position.
EntriesMatch == \A n \in Live : entries[pos[n]] = [node |-> n, key |-> mKey[n]]

LEMMA EntriesMatchNodes == ListInv => EntriesMatch
  BY EntryFacts DEF EntriesMatch

\* The keys rise with the positions.
LEMMA EntriesSorted ==
  ASSUME ListInv
  PROVE  /\ \A p \in 1 .. mLength : entries[p].key \in Int
         /\ \A p, q \in 1 .. mLength : p <= q => entries[p].key <= entries[q].key
<1>1. \A n \in Live : mKey[n] \in Int
  BY SkipListAssumption DEF ListInv, Shapes
<1>2. \A n, m \in Live : pos[n] < pos[m] => mKey[n] <= mKey[m]
  BY DEF ListInv, Positions
<1>3. \A p \in 1 .. mLength : entries[p].key = mKey[entries[p].node]
  <2> SUFFICES ASSUME NEW p \in 1 .. mLength PROVE entries[p].key = mKey[entries[p].node]
    OBVIOUS
  <2>1. entries[p] = [node |-> entries[p].node, key |-> mKey[entries[p].node]]
    BY EntryFacts
  <2> QED BY <2>1
<1>4. ASSUME NEW p \in 1 .. mLength, NEW q \in 1 .. mLength, p <= q
      PROVE  entries[p].key <= entries[q].key
  <2>1. entries[p].node \in Live /\ entries[q].node \in Live
        /\ pos[entries[p].node] = p /\ pos[entries[q].node] = q
    BY EntryFacts
  <2>2. p = q \/ p < q
    BY <1>4, EntryFacts
  <2> QED BY <1>1, <1>2, <1>3, <2>1, <2>2
<1> QED BY <1>1, <1>3, <1>4, EntryFacts

LEMMA EntriesUnchanged == ASSUME UNCHANGED <<mKey, mLength, pos>> PROVE entries' = entries
  BY DEF entries, Live

\* Nodes at one position are the same.
LEMMA AtInjective ==
  ASSUME ListInv, NEW m \in {Head, Tail} \union Live, NEW k \in {Head, Tail} \union Live, At(m) = At(k)
  PROVE  m = k
<1>1. At(Head) = 0 /\ At(Tail) = mLength + 1 /\ mLength \in Nat
      /\ \A n \in Live : At(n) = pos[n] /\ At(n) \in 1 .. mLength
  BY AtFacts DEF ListInv
<1> QED BY <1>1 DEF ListInv, Positions

\* The bottom level goes from each position to the next.
LEMMA BottomNext ==
  ASSUME ListInv, NEW n \in {Head} \union Live
  PROVE  /\ mNexts[n][0] \in Live \union {Tail} /\ At(mNexts[n][0]) = At(n) + 1
         /\ mNexts[n][0] = (IF At(n) = mLength THEN Tail ELSE entries[At(n) + 1].node)
<1> DEFINE y == mNexts[n][0]
<1>1. 0 \in 0 .. mMaxLevel /\ linked[0] = Live /\ n \in On(0)
  BY LevelFacts DEF ListInv, Shapes, BackwardInverts, On
<1>2. /\ y \in Live \union {Tail} /\ At(n) < At(y)
      /\ \A m \in Live : At(m) <= At(n) \/ At(m) >= At(y)
  BY <1>1, OnFacts
<1>3. At(Head) = 0 /\ At(Tail) = mLength + 1 /\ mLength \in Nat
      /\ \A m \in Live : At(m) = pos[m] /\ At(m) \in 1 .. mLength
  BY AtFacts DEF ListInv
<1>4. At(n) \in 0 .. mLength
  BY <1>3
<1>5. CASE At(n) = mLength
  BY <1>2, <1>3, <1>5
<1>6. CASE At(n) # mLength
  <2> DEFINE m == entries[At(n) + 1].node
  <2>1. At(n) + 1 \in 1 .. mLength
    BY <1>3, <1>4, <1>6
  <2>2. m \in Live /\ pos[m] = At(n) + 1
    BY <2>1, EntryFacts
  <2>3. At(m) = At(n) + 1
    BY <1>3, <2>2
  <2>4. At(y) = At(n) + 1
    BY <1>2, <1>3, <1>4, <2>2, <2>3
  <2>5. y = m
    BY <1>2, <2>2, <2>3, <2>4, AtInjective
  <2> QED BY <1>2, <1>6, <2>4, <2>5
<1> QED BY <1>5, <1>6

-----------------------------------------------------------------------------
(* Where a walk has ended.                                                 *)

\* The positions up to the node of the walk are those it has passed.
LEMMA EndSplits ==
  ASSUME IInv, call.op \in Ops, call.currLevel = -1
  PROVE  /\ call.key \in Key /\ call.key \in Int
         /\ call.nd \in {Head} \union Live /\ call.walked = At(call.nd) /\ At(call.nd) \in 0 .. mLength
         /\ call.nd # Head => Passed(call.nd)
         /\ \A q \in 1 .. mLength :
              q <= At(call.nd) <=> IF call.op \in NotLess THEN entries[q].key < call.key
                                   ELSE entries[q].key <= call.key
<1>1. call # NoCall
  BY DEF NoCall, Ops
<1>2. call.key \in Key /\ call.walked = At(call.nd) /\ LeavesAt(0, call.nd)
      /\ (call.nd # Head => Passed(call.nd))
  BY <1>1 DEF IInv, WalkInv
<1>3. call.key \in Int /\ call.nd \in {Head} \union Live
  BY DEF IInv, CallType
<1>4. 0 \in 0 .. mMaxLevel /\ linked[0] = Live
  BY CurrLevelFacts DEF IInv, ListInv, BackwardInverts
<1>5. \A m \in Live : Passed(m) <=> At(m) <= At(call.nd)
  BY <1>2, <1>3, <1>4, Separates DEF IInv
<1>6. At(Head) = 0 /\ mLength \in Nat /\ \A n \in Live : At(n) = pos[n] /\ At(n) \in 1 .. mLength
  BY AtFacts DEF IInv, ListInv
<1>7. ASSUME NEW q \in 1 .. mLength
      PROVE  q <= At(call.nd) <=> IF call.op \in NotLess THEN entries[q].key < call.key
                                  ELSE entries[q].key <= call.key
  <2>1. /\ entries[q].node \in Live /\ pos[entries[q].node] = q
        /\ entries[q] = [node |-> entries[q].node, key |-> mKey[entries[q].node]]
    BY EntryFacts DEF IInv
  <2>2. entries[q].key = mKey[entries[q].node]
    BY <2>1
  <2> QED BY <1>5, <1>6, <2>1, <2>2 DEF Passed
<1> QED BY <1>2, <1>3, <1>6, <1>7

\* Two positions that split the list alike are one.
LEMMA SplitUnique ==
  ASSUME NEW L \in Nat, NEW p \in 1 .. L + 1, NEW r \in 1 .. L + 1,
         \A q \in 1 .. L : q < p <=> q < r
  PROVE  p = r
<1>1. p < r => p \in 1 .. L
  OBVIOUS
<1>2. r < p => r \in 1 .. L
  OBVIOUS
<1> QED BY <1>1, <1>2

LEMMA EndIsFirstAbove ==
  ASSUME IInv, call.op \in Ops, call.op \notin NotLess, call.currLevel = -1
  PROVE  Abstract!FirstAbove(call.key) = At(call.nd) + 1
<1> DEFINE k == call.key
           r == At(call.nd)
           Splits(p) == \A q \in 1 .. mLength : entries[q].key <= k <=> q < p
           first == CHOOSE p \in 1 .. mLength + 1 : Splits(p)
<1>1. r \in 0 .. mLength /\ mLength \in Nat /\ \A q \in 1 .. mLength : q <= r <=> entries[q].key <= k
  BY EndSplits, EntryFacts DEF IInv
<1>2. r + 1 \in 1 .. mLength + 1 /\ Splits(r + 1)
  BY <1>1
<1>3. first \in 1 .. mLength + 1 /\ Splits(first)
  <2> HIDE DEF Splits
  <2> QED BY <1>2
<1>4. first = r + 1
  <2>1. \A q \in 1 .. mLength : q < first <=> q < r + 1
    BY <1>2, <1>3
  <2> HIDE DEF first
  <2> QED BY <1>1, <1>2, <1>3, <2>1, SplitUnique
<1>5. Abstract!FirstAbove(k) = first
  BY DEF Abstract!FirstAbove, Abstract!Position
<1> QED BY <1>4, <1>5

LEMMA EndIsFirstAtLeast ==
  ASSUME IInv, call.op \in Ops, call.op \in NotLess, call.currLevel = -1
  PROVE  Abstract!FirstAtLeast(call.key) = At(call.nd) + 1
<1> DEFINE k == call.key
           r == At(call.nd)
           Splits(p) == \A q \in 1 .. mLength : entries[q].key < k <=> q < p
           first == CHOOSE p \in 1 .. mLength + 1 : Splits(p)
<1>1. r \in 0 .. mLength /\ mLength \in Nat /\ \A q \in 1 .. mLength : q <= r <=> entries[q].key < k
  BY EndSplits, EntryFacts DEF IInv
<1>2. r + 1 \in 1 .. mLength + 1 /\ Splits(r + 1)
  BY <1>1
<1>3. first \in 1 .. mLength + 1 /\ Splits(first)
  <2> HIDE DEF Splits
  <2> QED BY <1>2
<1>4. first = r + 1
  <2>1. \A q \in 1 .. mLength : q < first <=> q < r + 1
    BY <1>2, <1>3
  <2> HIDE DEF first
  <2> QED BY <1>1, <1>2, <1>3, <2>1, SplitUnique
<1>5. Abstract!FirstAtLeast(k) = first
  BY DEF Abstract!FirstAtLeast, Abstract!Position
<1> QED BY <1>4, <1>5
-----------------------------------------------------------------------------
(* The range of a bound.                                                   *)

\* isInRange tells, in a list that has entries, whether the key is between them.
LEMMA IsInRangeFacts ==
  ASSUME ListInv, NEW k
  PROVE  /\ mLength = 0 => isInRange(k) = BOOLEAN
         /\ mLength # 0 => isInRange(k) = {Abstract!InRange(k)}
<1> DEFINE f == mNexts[Head][0]
           l == mBackword[Tail]
<1>1. At(Head) = 0 /\ mLength \in Nat /\ \A n \in Live : At(n) = pos[n] /\ At(n) \in 1 .. mLength
  BY AtFacts DEF ListInv
<1>2. f = (IF mLength = 0 THEN Tail ELSE entries[1].node)
  BY <1>1, BottomNext
<1>3. CASE mLength = 0
  BY <1>2, <1>3 DEF isInRange
<1>4. CASE mLength # 0
  <2>1. 1 \in 1 .. mLength /\ mLength \in 1 .. mLength
    BY <1>1, <1>4
  <2> DEFINE a == entries[1].node
             z == entries[mLength].node
  <2>2. /\ a \in Live /\ entries[1] = [node |-> a, key |-> mKey[a]]
        /\ z \in Live /\ pos[z] = mLength /\ entries[mLength] = [node |-> z, key |-> mKey[z]]
    BY <2>1, EntryFacts
  <2>3. entries[1].key = mKey[a] /\ entries[mLength].key = mKey[z]
    BY <2>2
  <2>4. mNexts[z][0] = Tail
    BY <1>1, <2>2, BottomNext
  <2>5. l = z
    BY <2>2, <2>4 DEF ListInv, BackwardInverts
  <2>6. f = a /\ f # Tail
    BY <1>2, <1>4, <2>2, NodeFacts DEF ListInv
  <2>7. isInRange(k) = {k >= mKey[a] /\ k <= mKey[z]}
    BY <2>5, <2>6 DEF isInRange
  <2>8. Abstract!InRange(k) <=> k >= mKey[a] /\ k <= mKey[z]
    <3>1. mLength > 0
      BY <1>1, <1>4
    <3>2. mKey[a] <= k <=> k >= mKey[a]
      OBVIOUS
    <3> QED BY <2>3, <3>1, <3>2 DEF Abstract!InRange
  <2>9. Abstract!InRange(k) \in BOOLEAN
    BY DEF Abstract!InRange
  <2> QED BY <1>4, <2>7, <2>8, <2>9
<1> QED BY <1>3, <1>4

LEMMA RangeStep == Inv /\ [Next]_vars => RangeInv'
<1> SUFFICES ASSUME Inv, [Next]_vars PROVE RangeInv'
  OBVIOUS
<1>1. \A k : UNCHANGED <<mKey, mLength, pos>> => Abstract!InRange(k)' = Abstract!InRange(k)
  BY EntriesUnchanged DEF Abstract!InRange
<1>2. ASSUME call' = NoCall PROVE RangeInv'
  BY <1>2 DEF RangeInv, Bounds, NoCall
<1>3. ASSUME UNCHANGED shape, call'.op = call.op, call'.key = call.key PROVE RangeInv'
  <2>1. mLength' = mLength /\ UNCHANGED <<mKey, mLength, pos>>
    BY <1>3 DEF shape
  <2>2. entries' = entries
    BY <2>1, EntriesUnchanged
  <2> QED BY <1>3, <2>1, <2>2 DEF Inv, RangeInv, Abstract!InRange
<1>4. ASSUME NEW op, NEW k, NEW level, op \notin Bounds, Search(op, k, level) PROVE RangeInv'
  <2>1. call'.op = op
    BY <1>4 DEF Search, NoCall
  <2> QED BY <1>4, <2>1 DEF RangeInv
<1>5. ASSUME NEW op, NEW k \in Key, Bound(op, k) PROVE RangeInv'
  <2>1. CASE TRUE \in isInRange(k) /\ Search(op, k, 0)
    <3>1. call'.key = k /\ UNCHANGED shape
      BY <2>1 DEF Search, NoCall
    <3>2. mLength = 0 \/ Abstract!InRange(k)
      BY <2>1, IsInRangeFacts DEF Inv, IInv
    <3>3. mLength' = mLength /\ entries' = entries
      BY <3>1, EntriesUnchanged DEF shape
    <3> QED BY <3>1, <3>2, <3>3 DEF RangeInv, Abstract!InRange
  <2>2. CASE UNCHANGED <<shape, call>>
    BY <1>3, <2>2
  <2> QED BY <1>5, <2>1, <2>2 DEF Bound
<1>6. CASE Start
  <2>1. ASSUME NEW k \in Key, Insert(k) \/ Erase(k) \/ GetRank(k) PROVE RangeInv'
    BY <1>4, <2>1 DEF Insert, Erase, GetRank, Bounds
  <2>2. ASSUME NEW ml \in Level, SetMaxLevel(ml) PROVE RangeInv'
    BY <1>2, <2>2 DEF SetMaxLevel
  <2> QED BY <1>5, <1>6, <2>1, <2>2 DEF Start
<1>7. CASE Step(FALSE)
  <2>1. CASE Forward \/ Descend
    <3>1. UNCHANGED shape /\ call'.op = call.op /\ call'.key = call.key
      BY <2>1 DEF Forward, Descend, Inv, IInv, CallType
    <3> QED BY <1>3, <3>1
  <2>2. ASSUME NEW n \in Free, InsertNode(n) PROVE RangeInv'
    BY <1>2, <2>2 DEF InsertNode, Return
  <2>3. CASE EraseMiss \/ BoundFound \/ RankFound
    BY <1>2, <2>3 DEF EraseMiss, BoundFound, RankFound, Return
  <2>4. CASE EraseNode(FALSE)
    BY <1>2, <2>4 DEF EraseNode, Return
  <2> QED BY <1>7, <2>1, <2>2, <2>3, <2>4 DEF Step
<1>8. CASE UNCHANGED vars
  BY <1>3, <1>8 DEF vars
<1> QED BY <1>6, <1>7, <1>8 DEF Next
-----------------------------------------------------------------------------
(* The last step of each call.                                             *)

LEMMA ReturnFacts ==
  ASSUME IInv, NEW ops, Arrived(ops), ops \subseteq Ops
  PROVE  call.op \in Ops /\ call.currLevel = -1 /\ call.key \in Key /\ call.key \in Int
  BY EndSplits DEF Arrived

\* The new entry stands where SortedList puts it, the others keep their order.
LEMMA InsertRefines ==
  ASSUME Inv, NEW n \in Free, InsertNode(n)
  PROVE  Abstract!Insert(call.key, n) /\ call.key \in Key /\ n \in Node
<1> DEFINE k == call.key
           first == Abstract!FirstAbove(k)
<1>1. /\ n \in Node \ Live /\ Arrived({"insert"}) /\ Live' = Live \union {n} /\ mLength' = mLength + 1
      /\ mKey' = [m \in Live' |-> IF m = n THEN k ELSE mKey[m]]
      /\ pos' = [m \in Live' |-> IF m = n THEN Place + 1
                                 ELSE IF pos[m] > Place THEN pos[m] + 1 ELSE pos[m]]
  BY InsertEffect DEF Inv
<1>2. call.op = "insert" /\ call.op \in Ops /\ call.op \notin NotLess /\ call.currLevel = -1 /\ k \in Key
  BY <1>1, ReturnFacts DEF Inv, Arrived, Ops, NotLess
<1>3. Place = At(call.nd) /\ Place \in 0 .. mLength /\ mLength \in Nat
  <2>1. 0 \in 0 .. mMaxLevel /\ Arrived(Updates)
    BY <1>1, CurrLevelFacts DEF Inv, Arrived, Updates
  <2> QED BY <1>2, <2>1, ArrivedFacts, InsertAt DEF Place, Inv
<1>4. first = Place + 1
  BY <1>2, <1>3, EndIsFirstAbove DEF Inv
<1>5. ret' = Abstract!Reply("insert", k, 1)
  BY <1>2 DEF InsertNode, Return, Reply, Abstract!Reply
<1>6. \A p \in 1 .. mLength : entries[p].node # n
  BY <1>1, EntryFacts DEF Inv, IInv
<1>7. ListInv' /\ ListInv
  BY InsertStep DEF Inv, IInv
<1>8. \A m \in Live' : entries'[pos'[m]] = [node |-> m, key |-> mKey'[m]]
  <2>1. EntriesMatch'
    BY <1>7, EntriesMatchNodes, PTL
  <2> QED BY <2>1 DEF EntriesMatch
<1>9. ASSUME NEW p \in 1 .. mLength + 1
      PROVE  entries'[p] = IF p < first THEN entries[p]
                           ELSE IF p = first THEN [node |-> n, key |-> k]
                           ELSE entries[p - 1]
  <2>1. CASE p < first
    <3> DEFINE m == entries[p].node
    <3>1. p \in 1 .. mLength
      BY <1>3, <1>4, <2>1
    <3>2. m \in Live /\ pos[m] = p /\ entries[p] = [node |-> m, key |-> mKey[m]]
      BY <1>7, <3>1, EntryFacts
    <3>3. m \in Live' /\ pos'[m] = p /\ mKey'[m] = mKey[m]
      BY <1>1, <1>3, <1>4, <2>1, <3>2
    <3> QED BY <1>8, <2>1, <3>2, <3>3
  <2>2. CASE p = first
    <3>1. n \in Live' /\ pos'[n] = p /\ mKey'[n] = k
      BY <1>1, <1>4, <2>2
    <3> QED BY <1>3, <1>4, <1>8, <2>2, <3>1
  <2>3. CASE p > first
    <3> DEFINE m == entries[p - 1].node
    <3>1. p - 1 \in 1 .. mLength /\ p - 1 > Place
      BY <1>3, <1>4, <2>3
    <3>2. m \in Live /\ pos[m] = p - 1 /\ entries[p - 1] = [node |-> m, key |-> mKey[m]]
      BY <1>7, <3>1, EntryFacts
    <3>3. m \in Live' /\ pos'[m] = p /\ mKey'[m] = mKey[m]
      BY <1>1, <1>3, <3>1, <3>2
    <3> QED BY <1>3, <1>4, <1>8, <2>3, <3>2, <3>3
  <2> QED BY <1>3, <1>4, <2>1, <2>2, <2>3
<1>10. entries' = [p \in 1 .. mLength + 1 |->
                     IF p < first THEN entries[p]
                     ELSE IF p = first THEN [node |-> n, key |-> k]
                     ELSE entries[p - 1]]
  <2>1. entries' = [p \in 1 .. mLength' |-> entries'[p]]
    BY DEF entries
  <2> HIDE DEF first
  <2> QED BY <1>1, <1>9, <2>1
<1> QED BY <1>1, <1>2, <1>5, <1>6, <1>10 DEF Abstract!Insert, Abstract!Position

\* The first entry of the key leaves the list.
LEMMA EraseRefines ==
  ASSUME Inv, EraseNode(FALSE)
  PROVE  Abstract!Erase(call.key) /\ call.key \in Key
<1> DEFINE k == call.key
           first == Abstract!FirstAtLeast(k)
           x == Found
<1>1. /\ Arrived({"erase"}) /\ Hit /\ Live' = Live \ {x} /\ mLength' = mLength - 1
      /\ mKey' = [m \in Live' |-> mKey[m]]
      /\ pos' = [m \in Live' |-> IF pos[m] > pos[x] THEN pos[m] - 1 ELSE pos[m]]
  BY EraseEffect DEF Inv
<1>2. call.op = "erase" /\ call.op \in Ops /\ call.op \in NotLess /\ call.currLevel = -1 /\ k \in Key
  BY <1>1, ReturnFacts DEF Inv, Arrived, Ops, NotLess
<1>3. ListInv /\ ListInv'
  BY EraseStep DEF Inv, IInv
<1>4. x \in Live /\ mKey[x] = k /\ pos[x] \in 1 .. mLength /\ mLength \in Nat
      /\ entries[pos[x]] = [node |-> x, key |-> mKey[x]]
  BY <1>1, <1>3, EraseFacts, EntryFacts DEF Inv, Hit
<1>5. first = pos[x]
  <2>1. At(x) = At(call.nd) + 1 /\ At(x) = pos[x]
    BY <1>2, <1>3, <1>4, EndSplits, BottomNext, AtFacts DEF Found, Inv, ListInv
  <2> QED BY <1>2, <2>1, EndIsFirstAtLeast DEF Inv
<1>6. ret' = Abstract!Reply("erase", k, 1)
  BY <1>2 DEF EraseNode, Return, Reply, Abstract!Reply
<1>7. Abstract!Has(k)
  <2>1. entries[pos[x]].key = k
    BY <1>4
  <2> QED BY <1>4, <2>1 DEF Abstract!Has, Abstract!Position
<1>8. \A m \in Live' : entries'[pos'[m]] = [node |-> m, key |-> mKey'[m]]
  <2>1. EntriesMatch'
    BY <1>3, EntriesMatchNodes, PTL
  <2> QED BY <2>1 DEF EntriesMatch
<1>9. ASSUME NEW p \in 1 .. mLength - 1
      PROVE  entries'[p] = IF p < first THEN entries[p] ELSE entries[p + 1]
  <2>1. CASE p < first
    <3> DEFINE m == entries[p].node
    <3>1. p \in 1 .. mLength
      BY <1>4
    <3>2. m \in Live /\ pos[m] = p /\ entries[p] = [node |-> m, key |-> mKey[m]]
      BY <1>3, <3>1, EntryFacts
    <3>3. m \in Live' /\ pos'[m] = p /\ mKey'[m] = mKey[m]
      BY <1>1, <1>4, <1>5, <2>1, <3>2
    <3> QED BY <1>8, <2>1, <3>2, <3>3
  <2>2. CASE ~(p < first)
    <3> DEFINE m == entries[p + 1].node
    <3>1. p + 1 \in 1 .. mLength /\ p + 1 > pos[x]
      BY <1>4, <1>5, <2>2
    <3>2. m \in Live /\ pos[m] = p + 1 /\ entries[p + 1] = [node |-> m, key |-> mKey[m]]
      BY <1>3, <3>1, EntryFacts
    <3>3. m \in Live' /\ pos'[m] = p /\ mKey'[m] = mKey[m]
      BY <1>1, <1>4, <3>1, <3>2
    <3> QED BY <1>8, <2>2, <3>2, <3>3
  <2> QED BY <2>1, <2>2
<1>10. entries' = [p \in 1 .. mLength - 1 |-> IF p < first THEN entries[p] ELSE entries[p + 1]]
  <2>1. entries' = [p \in 1 .. mLength' |-> entries'[p]]
    BY DEF entries
  <2> HIDE DEF first
  <2> QED BY <1>1, <1>9, <2>1
<1> QED BY <1>1, <1>2, <1>6, <1>7, <1>10 DEF Abstract!Erase

\* erase finds nothing only when no entry has the key.
LEMMA EraseMissRefines ==
  ASSUME Inv, EraseMiss
  PROVE  Abstract!Erase(call.key) /\ call.key \in Key
<1> DEFINE k == call.key
           r == At(call.nd)
<1>1. Arrived({"erase"}) /\ ~Hit /\ UNCHANGED shape
  BY DEF EraseMiss
<1>2. call.op = "erase" /\ call.op \in Ops /\ call.op \in NotLess /\ call.currLevel = -1
      /\ k \in Key /\ k \in Int
  BY <1>1, ReturnFacts DEF Inv, Arrived, Ops, NotLess
<1>3. ret' = Abstract!Reply("erase", k, 0)
  BY <1>2 DEF EraseMiss, Return, Reply, Abstract!Reply
<1>4. /\ r \in 0 .. mLength /\ mLength \in Nat /\ call.nd \in {Head} \union Live
      /\ \A q \in 1 .. mLength : q <= r <=> entries[q].key < k
  BY <1>2, EndSplits, EntryFacts DEF Inv, IInv
<1>5. ~Abstract!Has(k)
  <2> SUFFICES ASSUME NEW q \in 1 .. mLength, entries[q].key = k PROVE FALSE
    BY DEF Abstract!Has, Abstract!Position
  <2>1. ~(entries[q].key < k) /\ \A p \in 1 .. mLength : entries[p].key \in Int
    BY <1>2, EntriesSorted DEF Inv, IInv
  <2>2. r + 1 \in 1 .. mLength /\ r + 1 <= q
    BY <1>4, <2>1
  <2>3. ~(entries[r + 1].key < k) /\ entries[r + 1].key <= k
    BY <1>4, <2>2, EntriesSorted DEF Inv, IInv
  <2>4. entries[r + 1].key = k
    BY <1>2, <2>1, <2>2, <2>3
  <2>5. Found = entries[r + 1].node /\ Found \in Live
    BY <1>4, <2>2, BottomNext, EntryFacts DEF Found, Inv, IInv
  <2>6. entries[r + 1] = [node |-> Found, key |-> mKey[Found]]
    BY <2>2, <2>5, EntryFacts DEF Inv, IInv
  <2>7. mKey[Found] = k
    BY <2>4, <2>6
  <2> QED BY <1>1, <2>5, <2>7, NodeFacts DEF Hit, Inv, IInv, ListInv
<1>6. mLength' = mLength /\ entries' = entries
  BY <1>1, EntriesUnchanged DEF shape
<1> QED BY <1>2, <1>3, <1>5, <1>6 DEF Abstract!Erase
\* A bound answers the entry behind those the walk has passed.
LEMMA BoundRefines ==
  ASSUME Inv, BoundFound
  PROVE  /\ call.key \in Key
         /\ \/ Abstract!Bound("lower_bound", call.key, Abstract!FirstAtLeast(call.key))
            \/ Abstract!Bound("upper_bound", call.key, Abstract!FirstAbove(call.key))
<1> DEFINE k == call.key
           r == At(call.nd)
           y == mNexts[call.nd][0]
           first == IF call.op = "lower_bound" THEN Abstract!FirstAtLeast(k) ELSE Abstract!FirstAbove(k)
<1>1. Arrived(Bounds) /\ UNCHANGED shape /\ ret' = Reply(call.op, k, y)
  BY DEF BoundFound, Return, Bounds
<1>2. call.op \in Bounds /\ call.op \in Ops /\ call.currLevel = -1 /\ k \in Key
  BY <1>1, ReturnFacts DEF Inv, Arrived, Ops, Bounds
<1>3. /\ call.op = "lower_bound" => call.op \in NotLess
      /\ call.op = "upper_bound" => call.op \notin NotLess
      /\ call.op # "lower_bound" => call.op = "upper_bound"
  BY <1>2 DEF Bounds, NotLess
<1>4. first = r + 1
  BY <1>2, <1>3, EndIsFirstAbove, EndIsFirstAtLeast DEF Inv
<1>5. r \in 0 .. mLength /\ mLength \in Nat /\ call.nd \in {Head} \union Live
  BY <1>2, EndSplits, EntryFacts DEF Inv, IInv
<1>6. /\ y \in Live \union {Tail}
      /\ y = (IF r = mLength THEN Tail ELSE entries[r + 1].node)
  BY <1>5, BottomNext DEF Inv, IInv
<1>7. y = Abstract!NodeAt(first)
  <2>1. r = mLength <=> r + 1 = mLength + 1
    BY <1>5
  <2> QED BY <1>4, <1>6, <2>1 DEF Abstract!NodeAt
<1>8. y \in Node \union Int
  BY <1>6 DEF Inv, IInv, ListInv, Shapes, Tail
<1>9. Abstract!Query(call.op, k) /\ ret'.answer = y
  <2>1. mLength' = mLength /\ entries' = entries
    BY <1>1, EntriesUnchanged DEF shape
  <2>2. ret' = [op |-> call.op, key |-> k, answer |-> y]
    BY <1>1 DEF Reply
  <2> HIDE DEF y
  <2> QED BY <1>8, <2>1, <2>2 DEF Abstract!Query
<1>10. \/ Abstract!InRange(k)
       \/ mLength = 0
  BY <1>2 DEF Inv, RangeInv
<1>11. CASE Abstract!InRange(k)
  <2>1. Abstract!Bound(call.op, k, first)
    BY <1>7, <1>9, <1>11 DEF Abstract!Bound
  <2> QED BY <1>2, <1>3, <2>1
<1>12. CASE mLength = 0
  <2>1. y = Tail
    BY <1>5, <1>6, <1>12
  <2>2. Abstract!Bound(call.op, k, first)
    BY <1>9, <1>12, <2>1 DEF Abstract!Bound
  <2> QED BY <1>2, <1>3, <2>2
<1> QED BY <1>10, <1>11, <1>12

\* Without a walk a bound answers that the key lies outside the list.
LEMMA OutsideRefines ==
  ASSUME Inv, NEW op \in Bounds, NEW k \in Key, NEW p,
         FALSE \in isInRange(k), ret' = Reply(op, k, NullPtr), UNCHANGED shape
  PROVE  Abstract!Bound(op, k, p)
<1>1. ~Abstract!InRange(k)
  <2>1. CASE mLength = 0
    BY <2>1 DEF Abstract!InRange
  <2>2. CASE mLength # 0
    BY <2>2, IsInRangeFacts DEF Inv, IInv
  <2> QED BY <2>1, <2>2
<1>2. mLength' = mLength /\ entries' = entries
  BY EntriesUnchanged DEF shape
<1>3. Abstract!Query(op, k) /\ ret'.answer = NullPtr
  BY <1>2 DEF Abstract!Query, Reply, NullPtr
<1> QED BY <1>1, <1>3 DEF Abstract!Bound

\* getRank has counted the entries up to the last of the key.
LEMMA RankRefines ==
  ASSUME Inv, RankFound
  PROVE  Abstract!GetRank(call.key) /\ call.key \in Key
<1> DEFINE k == call.key
           r == At(call.nd)
           answer == IF call.nd # Head /\ mKey[call.nd] = k THEN call.walked ELSE 0
<1>1. Arrived({"getRank"}) /\ UNCHANGED shape /\ ret' = Reply(call.op, k, answer)
  BY DEF RankFound, Return
<1>2. call.op = "getRank" /\ call.op \in Ops /\ call.op \notin NotLess /\ call.currLevel = -1 /\ k \in Key
      /\ k \in Int
  BY <1>1, ReturnFacts DEF Inv, Arrived, Ops, NotLess
<1>3. /\ r \in 0 .. mLength /\ mLength \in Nat /\ call.nd \in {Head} \union Live /\ call.walked = r
      /\ call.nd # Head => mKey[call.nd] <= k
      /\ \A q \in 1 .. mLength : q <= r <=> entries[q].key <= k
  BY <1>2, EndSplits, EntryFacts DEF Inv, IInv, Passed
<1>4. Abstract!FirstAbove(k) = r + 1
  BY <1>2, EndIsFirstAbove DEF Inv
<1>5. At(Head) = 0 /\ \A m \in Live : /\ At(m) = pos[m] /\ pos[m] \in 1 .. mLength
                                      /\ entries[pos[m]].key = mKey[m]
  <2>1. \A m \in Live : entries[pos[m]] = [node |-> m, key |-> mKey[m]]
    BY EntryFacts DEF Inv, IInv
  <2>2. ASSUME NEW m \in Live PROVE entries[pos[m]].key = mKey[m]
    <3>1. entries[pos[m]] = [node |-> m, key |-> mKey[m]]
      BY <2>1
    <3> QED BY <3>1
  <2>3. At(Head) = 0 /\ \A m \in Live : At(m) = pos[m] /\ At(m) \in 1 .. mLength
    BY AtFacts DEF Inv, IInv, ListInv
  <2> QED BY <2>2, <2>3
<1>6. Abstract!Has(k) <=> call.nd # Head /\ mKey[call.nd] = k
  <2>1. ASSUME call.nd # Head, mKey[call.nd] = k PROVE Abstract!Has(k)
    BY <1>3, <1>5, <2>1 DEF Abstract!Has, Abstract!Position
  <2>2. ASSUME NEW q \in 1 .. mLength, entries[q].key = k PROVE call.nd # Head /\ mKey[call.nd] = k
    <3>1. q <= r
      BY <1>2, <1>3, <2>2
    <3>2. call.nd # Head /\ call.nd \in Live
      BY <1>3, <1>5, <3>1
    <3>3. r \in 1 .. mLength /\ entries[r].key = mKey[call.nd]
      BY <1>5, <3>2
    <3>4. k <= mKey[call.nd] /\ mKey[call.nd] \in Int
      BY <2>2, <3>1, <3>3, EntriesSorted DEF Inv, IInv
    <3> QED BY <1>2, <1>3, <3>2, <3>4
  <2> QED BY <2>1, <2>2 DEF Abstract!Has, Abstract!Position
<1>7. answer = IF Abstract!Has(k) THEN Abstract!FirstAbove(k) - 1 ELSE 0
  <2>1. r + 1 - 1 = r
    BY <1>3
  <2> QED BY <1>3, <1>4, <1>6, <2>1
<1>8. Abstract!Query("getRank", k) /\ ret'.answer = answer
  <2>1. mLength' = mLength /\ entries' = entries
    BY <1>1, EntriesUnchanged DEF shape
  <2>2. ret' = [op |-> "getRank", key |-> k, answer |-> answer] /\ answer \in Int
    BY <1>1, <1>2, <1>3 DEF Reply
  <2> HIDE DEF answer
  <2> QED BY <2>1, <2>2 DEF Abstract!Query
<1> QED BY <1>2, <1>7, <1>8 DEF Abstract!GetRank

-----------------------------------------------------------------------------
(* The theorem.                                                            *)

LEMMA StepRefines == Inv /\ [Next]_vars => [Abstract!Next]_(Abstract!listVars)
<1> SUFFICES ASSUME Inv, [Next]_vars PROVE Abstract!Next \/ UNCHANGED Abstract!listVars
  BY DEF Abstract!listVars
<1> USE DEF Abstract!listVars
<1>1. ASSUME UNCHANGED <<mKey, mLength, pos, ret>> PROVE UNCHANGED <<mLength, entries, ret>>
  BY <1>1, EntriesUnchanged
<1>2. ASSUME NEW op, NEW k, NEW level, Search(op, k, level) PROVE Abstract!Begin
  <2>1. mLength' = mLength /\ entries' = entries
    BY <1>2, EntriesUnchanged DEF Search, shape
  <2> QED BY <1>2, <2>1 DEF Search, Abstract!Begin, NoReply, Reply, Abstract!NoReply, Abstract!Reply
<1>3. ASSUME NEW op \in Bounds, NEW k \in Key, NEW p, Bound(op, k)
      PROVE  Abstract!Begin \/ Abstract!Bound(op, k, p)
  BY <1>2, <1>3, OutsideRefines DEF Bound
<1>4. CASE Start
  <2>1. ASSUME NEW k \in Key, Insert(k) \/ Erase(k) \/ GetRank(k) PROVE Abstract!Next
    BY <1>2, <2>1 DEF Insert, Erase, GetRank, Abstract!Next
  <2>2. ASSUME NEW k \in Key, Bound("lower_bound", k) PROVE Abstract!Next
    <3>1. Abstract!Begin \/ Abstract!Bound("lower_bound", k, Abstract!FirstAtLeast(k))
      BY <1>3, <2>2 DEF Bounds
    <3> QED BY <3>1 DEF Abstract!Next
  <2>3. ASSUME NEW k \in Key, Bound("upper_bound", k) PROVE Abstract!Next
    <3>1. Abstract!Begin \/ Abstract!Bound("upper_bound", k, Abstract!FirstAbove(k))
      BY <1>3, <2>3 DEF Bounds
    <3> QED BY <3>1 DEF Abstract!Next
  <2>4. ASSUME NEW ml \in Level, SetMaxLevel(ml) PROVE UNCHANGED <<mLength, entries, ret>>
    BY <1>1, <2>4 DEF SetMaxLevel
  <2> QED BY <1>4, <2>1, <2>2, <2>3, <2>4 DEF Start
<1>5. CASE Step(FALSE)
  <2>1. CASE Forward \/ Descend
    BY <1>1, <2>1 DEF Forward, Descend, shape
  <2>2. ASSUME NEW n \in Free, InsertNode(n) PROVE Abstract!Next
    BY <2>2, InsertRefines DEF Abstract!Next
  <2>3. CASE EraseMiss \/ EraseNode(FALSE)
    BY <2>3, EraseMissRefines, EraseRefines DEF Abstract!Next
  <2>4. CASE BoundFound
    BY <2>4, BoundRefines DEF Abstract!Next
  <2>5. CASE RankFound
    BY <2>5, RankRefines DEF Abstract!Next
  <2> QED BY <1>5, <2>1, <2>2, <2>3, <2>4, <2>5 DEF Step
<1>6. CASE UNCHANGED vars
  BY <1>1, <1>6 DEF vars, shape
<1> QED BY <1>4, <1>5, <1>6 DEF Next

\* Whatever the random levels and however many calls came before, every call does to
\* the list, and answers, what the sorted list does.
THEOREM Refinement == Spec => ImplementsSortedList
<1>1. Init => Inv
  <2>1. Init => RangeInv
    BY DEF Init, RangeInv, Bounds, NoCall
  <2> QED BY <2>1, InitInv DEF Inv
<1>2. Inv /\ [Next]_vars => Inv'
  BY NextInv, RangeStep DEF Inv
<1>3. Init => Abstract!Init
  <2> SUFFICES ASSUME Init PROVE Abstract!Init
    OBVIOUS
  <2>1. mLength = 0 /\ ret = Abstract!NoReply
    BY DEF Init, NoReply, Reply, Abstract!NoReply, Abstract!Reply
  <2>2. entries = [p \in {} |-> 0]
    BY <2>1 DEF entries
  <2> QED BY <2>1, <2>2 DEF Abstract!Init
<1>4. Inv /\ [Next]_vars => [Abstract!Next]_(Abstract!listVars)
  BY StepRefines
<1> QED BY <1>1, <1>2, <1>3, <1>4, PTL DEF Spec, ImplementsSortedList, Abstract!Spec
=============================================================================
