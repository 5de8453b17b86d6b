----------------------- MODULE SkipListIteratorProofs -----------------------
(***************************************************************************)
(* Proofs about SkipListIterator, for any keys, nodes and levels.          *)
(*                                                                         *)
(* Erased nodes that a loop may still reach stay in memory.  They make no  *)
(* difference to the list: without them, every step is one of SkipList, so *)
(* that what SkipListProofs says of the list holds while loops run.        *)
(*                                                                         *)
(* The loop itself follows the links of the bottom level in one direction, *)
(* over live and erased nodes.  What it needs to know of them is said by   *)
(* sets of nodes that no link leads out of.                                *)
(***************************************************************************)
EXTENDS SkipListIterator, TLAPS

\* The memory without the erased nodes.
LiveKey == [n \in Live |-> mKey[n]]
LiveNexts == [n \in {Head} \union Live |-> mNexts[n]]
LiveSpans == [n \in {Head} \union Live |-> mSpans[n]]
LiveBackword == [n \in {Tail} \union Live |-> mBackword[n]]

List == INSTANCE SkipListProofs
          WITH mKey <- LiveKey, mNexts <- LiveNexts, mSpans <- LiveSpans,
               mBackword <- LiveBackword

Memory ==
  /\ Live \subseteq DOMAIN mKey /\ DOMAIN mKey \subseteq Node
  /\ DOMAIN mNexts = {Head} \union DOMAIN mKey /\ DOMAIN mSpans = {Head} \union DOMAIN mKey
  /\ DOMAIN mBackword = {Tail} \union DOMAIN mKey
  /\ \A n \in DOMAIN mNexts : 0 \in DOMAIN mNexts[n]
  /\ it = NullPtr => DOMAIN mKey = Live

-----------------------------------------------------------------------------
(* The links a loop follows.                                               *)

Links == IF forward THEN [n \in DOMAIN mNexts |-> mNexts[n][0]] ELSE mBackword

Origin == IF forward THEN Head ELSE Tail

\* No link leads out of A.
Closed(A) ==
  A \in SUBSET ({End} \union DOMAIN mKey) /\ \A n \in A \ {End} : Links[n] \in A

\* Following the links never leads back.
NoCycle == \A m \in DOMAIN mKey : \E A : Closed(A) /\ Links[m] \in A /\ m \notin A

\* From where the loop is, no link leads back to a node it has met.
NoReturn == \A m \in met \ {it} : \E A : Closed(A) /\ it \in A /\ m \notin A

\* The only way on from where the loop is leads through the due nodes.
DueAhead ==
  \A d \in due :
    \E B \in SUBSET DOMAIN mKey : it \in B /\ d \notin B /\ \A n \in B : Links[n] \in B \union {d}

\* Links lead on in the order of the keys.
KeysFollow ==
  \A n \in DOMAIN mKey : Links[n] \in DOMAIN mKey =>
    IF forward THEN mKey[n] <= mKey[Links[n]] ELSE mKey[n] >= mKey[Links[n]]

LoopInv ==
  /\ forward \in BOOLEAN
  /\ it = NullPtr => due = {}
  /\ it # NullPtr =>
       /\ it \in {End} \union DOMAIN mKey /\ met \subseteq {End} \union DOMAIN mKey
       /\ \A n \in {Origin} \union DOMAIN mKey : Links[n] \in {End} \union DOMAIN mKey
       /\ due \subseteq Live
       /\ NoCycle /\ NoReturn /\ DueAhead /\ KeysFollow

IterInv == List!IInv /\ Memory /\ LoopInv

-----------------------------------------------------------------------------
(* The memory without the erased nodes is the list of SkipList.            *)

\* The names of the sentinels are the same in both.
LEMMA Sentinels ==
  List!Head = Head /\ List!Tail = Tail /\ List!NullPtr = NullPtr
  BY DEF List!Head, List!Tail, List!NullPtr, Head, Tail, NullPtr

\* So is all that does not speak of the memory.
LEMMA Names ==
  /\ List!Head = Head /\ List!Tail = Tail /\ List!NullPtr = NullPtr
  /\ List!Level = Level /\ List!NotLess = NotLess /\ List!NoCall = NoCall
  /\ List!Live = Live
  /\ \A ops : List!Arrived(ops) <=> Arrived(ops)
  /\ \A n : List!At(n) = At(n)
  /\ \A i : List!On(i) = linked[i] \union {Head}
<1>1. List!Level = Level /\ List!NotLess = NotLess /\ List!Live = Live
  BY DEF List!Level, Level, List!NotLess, NotLess, List!Live, Live
<1>2. List!NoCall = NoCall
  BY <1>1, Sentinels DEF List!NoCall, NoCall
<1> QED BY <1>1, <1>2, Sentinels
        DEF List!Arrived, Arrived, List!At, At, List!On

\* What a live node holds is what it holds in the list.
LEMMA Restricted ==
  /\ DOMAIN LiveKey = Live /\ \A n \in Live : LiveKey[n] = mKey[n]
  /\ DOMAIN LiveNexts = {Head} \union Live
  /\ DOMAIN LiveSpans = {Head} \union Live
  /\ \A n \in {Head} \union Live : LiveNexts[n] = mNexts[n] /\ LiveSpans[n] = mSpans[n]
  /\ DOMAIN LiveBackword = {Tail} \union Live
  /\ \A n \in {Tail} \union Live : LiveBackword[n] = mBackword[n]
  BY DEF LiveKey, LiveNexts, LiveSpans, LiveBackword

\* A walk is at live nodes only.
LEMMA WalkIsLive ==
  ASSUME List!IInv
  PROVE  /\ mMaxLevel \in Level /\ mMaxLevel \in Nat /\ Level \subseteq Nat /\ 0 \in Level
         /\ \A i \in 0 .. mMaxLevel : i \in Level
         /\ call # NoCall => call.nd \in {Head} \union Live /\ call.currLevel <= mMaxLevel
         /\ \A i \in 0 .. mMaxLevel : \A n \in linked[i] \union {Head} :
              n \in {Head} \union Live /\ i \in DOMAIN mNexts[n] /\ mNexts[n][i] \in Live \union {Tail}
         /\ linked[0] = Live
<1>1. /\ mMaxLevel \in Level /\ mMaxLevel \in Nat /\ Level \subseteq Nat /\ 0 \in Level
      /\ \A i \in 0 .. mMaxLevel : i \in Level
  <2>1. mMaxLevel \in Level
    BY Names DEF List!IInv, List!ListInv, List!Shapes
  <2>2. Level \subseteq Nat /\ 0 \in Level
    BY SkipListAssumption DEF Level
  <2>3. \A i \in 0 .. mMaxLevel : i \in Level
    BY <2>1, SkipListAssumption DEF Level
  <2> QED BY <2>1, <2>2, <2>3
<1>2. \A i \in 0 .. mMaxLevel : \A n \in linked[i] \union {Head} :
        n \in {Head} \union Live /\ i \in DOMAIN LiveNexts[n] /\ LiveNexts[n][i] \in Live \union {Tail}
  BY SkipListAssumption, Names, List!OnFacts DEF List!IInv
<1>3. linked[0] = Live
  BY Names DEF List!IInv, List!ListInv, List!BackwardInverts
<1>4. call # NoCall => call.nd \in {Head} \union Live /\ call.currLevel <= mMaxLevel
  BY <1>3, Names DEF List!IInv, List!WalkInv
<1> QED BY <1>1, <1>2, <1>3, <1>4, Restricted

\* Where the memory stays, the list does.
LEMMA ShapeKept == ASSUME UNCHANGED shape PROVE UNCHANGED List!shape
<1>1. UNCHANGED <<mKey, mNexts, mSpans, mBackword, Live>>
  BY DEF shape, Live
<1>2. UNCHANGED <<LiveKey, LiveNexts, LiveSpans, LiveBackword>>
  BY <1>1 DEF LiveKey, LiveNexts, LiveSpans, LiveBackword
<1> QED BY <1>2 DEF shape, List!shape

LEMMA SearchMaps ==
  ASSUME NEW op, NEW k, NEW level, Search(op, k, level)
  PROVE  List!Search(op, k, level)
  BY Names, ShapeKept DEF Search, List!Search, NoReply, List!NoReply, Reply, List!Reply

\* A walk compares the keys of live nodes only.
LEMMA WalkMaps ==
  ASSUME List!IInv, Forward \/ Descend
  PROVE  List!Forward \/ List!Descend
<1>1. call.currLevel >= 0 /\ UNCHANGED shape /\ UNCHANGED ret
  BY DEF Forward, Descend
<1>2. call # NoCall
  BY <1>1 DEF NoCall
<1>3. call.currLevel \in 0 .. mMaxLevel /\ call.nd \in {Head} \union Live
  <2>1. call.currLevel \in Level \union {-1}
    BY Names DEF List!IInv, List!CallType
  <2> QED BY <1>1, <1>2, <2>1, WalkIsLive
<1>4. call.nd \in linked[call.currLevel] \union {Head}
  BY <1>1, <1>2, Names DEF List!IInv, List!WalkInv
<1>5. next \in Live \union {Tail}
  BY <1>3, <1>4, WalkIsLive DEF next
<1>6. List!next = next /\ LiveSpans[call.nd] = mSpans[call.nd]
  BY <1>3, Restricted DEF next, List!next
<1>7. List!NotBeyond(next) <=> NotBeyond(next)
  BY <1>5, Names, Restricted DEF NotBeyond, List!NotBeyond
<1>8. ASSUME Forward PROVE List!Forward
  BY <1>6, <1>7, <1>8, ShapeKept DEF Forward, List!Forward
<1>9. ASSUME Descend PROVE List!Descend
  BY <1>6, <1>7, <1>9, ShapeKept DEF Descend, List!Descend
<1> QED BY <1>8, <1>9

\* The node that erase finds is a live one.
LEMMA FoundMaps ==
  ASSUME List!IInv, Arrived({"erase"})
  PROVE  /\ call.nd \in {Head} \union Live /\ Found \in Live \union {Tail}
         /\ List!Found = Found /\ (List!Hit <=> Hit)
<1>1. call # NoCall
  BY DEF Arrived, NoCall
<1>2. call.nd \in {Head} \union Live /\ linked[0] = Live /\ 0 \in 0 .. mMaxLevel
  BY <1>1, WalkIsLive
<1>3. Found \in Live \union {Tail}
  BY <1>2, WalkIsLive DEF Found
<1>4. List!Found = Found
  BY <1>2, Restricted DEF Found, List!Found
<1> QED BY <1>2, <1>3, <1>4, Restricted, Names DEF Hit, List!Hit

LEMMA EraseMissMaps ==
  ASSUME List!IInv, EraseMiss
  PROVE  List!EraseMiss
  BY FoundMaps, Names, ShapeKept
     DEF EraseMiss, List!EraseMiss, Return, List!Return, Reply, List!Reply

\* The nodes that lead to the place of an update are live ones.
LEMMA PrevsAreLive ==
  ASSUME List!IInv, Arrived({"insert", "erase"})
  PROVE  /\ \A i \in 0 .. mMaxLevel :
              call.prevs[i] \in linked[i] \union {Head} /\ call.prevs[i] \in {Head} \union Live
         /\ call.prevs[0] = call.nd /\ call.nd \in {Head} \union Live
<1>1. call # NoCall /\ call.op \in List!Updates /\ call.currLevel = -1
  BY DEF Arrived, NoCall, List!Updates
<1>2. \A i \in 0 .. mMaxLevel : List!LeavesAt(i, call.prevs[i])
  <2> SUFFICES ASSUME NEW i \in 0 .. mMaxLevel PROVE List!LeavesAt(i, call.prevs[i])
    OBVIOUS
  <2>1. i \in Level /\ call.currLevel < i /\ i <= mMaxLevel
    BY <1>1, WalkIsLive
  <2> QED BY <1>1, <2>1, Names DEF List!IInv, List!WalkInv
<1>3. \A i \in 0 .. mMaxLevel : call.prevs[i] \in linked[i] \union {Head}
  BY <1>2, Names DEF List!LeavesAt
<1>4. call.prevs[0] = call.nd
  BY <1>1, Names DEF List!IInv, List!WalkInv
<1> QED BY <1>1, <1>3, <1>4, WalkIsLive

\* mMaxLevel is lowered by what the head says alone.
LEMMA ShrunkMaps ==
  ASSUME NEW f, NEW g, f[Head] = g[Head]
  PROVE  List!Shrunk(f) = Shrunk(g)
  BY Sentinels DEF Shrunk, List!Shrunk

\* Whether or not a loop keeps the erased node, the list loses it.
LEMMA EraseNodeMaps ==
  ASSUME List!IInv, Memory, NEW held, EraseNode(held)
  PROVE  List!EraseNode(FALSE)
<1> DEFINE x == Found
           Leads(m, i) == i <= mMaxLevel /\ call.prevs[i] = m
           Nexts(m) == [i \in DOMAIN mNexts[m] |->
             IF Leads(m, i) /\ mNexts[m][i] = x THEN mNexts[x][i] ELSE mNexts[m][i]]
           Spans(m) == [i \in DOMAIN mSpans[m] |->
             IF ~Leads(m, i) THEN mSpans[m][i]
             ELSE IF mNexts[m][i] = x THEN mSpans[m][i] + mSpans[x][i] - 1
             ELSE mSpans[m][i] - 1]
           Kept(nodes) == IF held THEN nodes ELSE nodes \ {x}
<1>1. Arrived({"erase"}) /\ Hit
  BY DEF EraseNode
<1>2. /\ List!Arrived({"erase"}) /\ List!Hit /\ List!Found = x
      /\ x \in Live /\ x # Head /\ x # Tail /\ call.nd \in {Head} \union Live
  <2>1. List!Arrived({"erase"}) /\ List!Hit /\ List!Found = x
        /\ x \in Live \union {Tail} /\ x # Tail /\ call.nd \in {Head} \union Live
    BY <1>1, FoundMaps, Names DEF Hit
  <2> HIDE DEF x
  <2> QED BY <2>1, SkipListAssumption DEF Memory
<1>3. /\ mKey' = [m \in Kept(DOMAIN mKey) |-> mKey[m]]
      /\ mNexts' = [m \in Kept(DOMAIN mNexts) |-> Nexts(m)]
      /\ mSpans' = [m \in Kept(DOMAIN mSpans) |-> Spans(m)]
      /\ mBackword' = [[m \in Kept(DOMAIN mBackword) |-> mBackword[m]]
                         EXCEPT ![mNexts[x][0]] = call.prevs[0]]
      /\ mMaxLevel' = Shrunk(mNexts') /\ mLength' = mLength - 1
      /\ pos' = [m \in DOMAIN pos \ {x} |-> IF pos[m] > pos[x] THEN pos[m] - 1 ELSE pos[m]]
      /\ linked' = [i \in Level |-> IF i <= mMaxLevel' THEN linked[i] \ {x} ELSE {}]
      /\ Return(1)
  BY DEF EraseNode, SetBackword
<1> HIDE DEF x
<1>4. /\ Live' = Live \ {x}
      /\ {Head} \union Live' = ({Head} \union Live) \ {x}
      /\ {Tail} \union Live' = ({Tail} \union Live) \ {x}
      /\ Live' \subseteq Kept(DOMAIN mKey)
      /\ {Head} \union Live' \subseteq Kept(DOMAIN mNexts)
      /\ {Head} \union Live' \subseteq Kept(DOMAIN mSpans)
      /\ {Tail} \union Live' \subseteq Kept(DOMAIN mBackword)
  BY <1>2, <1>3 DEF Live, Memory
<1>5. /\ LiveKey[x] = mKey[x] /\ LiveNexts[x] = mNexts[x] /\ LiveSpans[x] = mSpans[x]
      /\ \A m \in {Head} \union Live' : LiveNexts[m] = mNexts[m] /\ LiveSpans[m] = mSpans[m]
      /\ \A m \in Live' : LiveKey[m] = mKey[m]
      /\ \A m \in {Tail} \union Live' : LiveBackword[m] = mBackword[m]
  BY <1>2, <1>4, Restricted
<1> HIDE DEF Nexts, Spans
<1>6. LiveKey' = [m \in DOMAIN LiveKey \ {x} |-> LiveKey[m]]
  <2>1. \A m \in Live' : mKey'[m] = LiveKey[m]
    BY <1>3, <1>4, <1>5
  <2>2. LiveKey' = [m \in Live' |-> mKey'[m]]
    BY DEF LiveKey
  <2> QED BY <2>1, <2>2, <1>4, Restricted
<1>7. LiveNexts' = [m \in DOMAIN LiveNexts \ {x} |-> [i \in DOMAIN LiveNexts[m] |->
        IF Leads(m, i) /\ LiveNexts[m][i] = x THEN LiveNexts[x][i] ELSE LiveNexts[m][i]]]
  <2>1. \A m \in {Head} \union Live' : mNexts'[m] = Nexts(m)
    BY <1>3, <1>4
  <2>2. LiveNexts' = [m \in ({Head} \union Live) \ {x} |-> Nexts(m)]
    <3>1. LiveNexts' = [m \in {Head} \union Live' |-> mNexts'[m]]
      BY DEF LiveNexts, Head
    <3> QED BY <2>1, <3>1, <1>4
  <2> QED BY <2>2, <1>4, <1>5, Restricted DEF Nexts
<1>8. LiveSpans' = [m \in DOMAIN LiveSpans \ {x} |-> [i \in DOMAIN LiveSpans[m] |->
        IF ~Leads(m, i) THEN LiveSpans[m][i]
        ELSE IF LiveNexts[m][i] = x THEN LiveSpans[m][i] + LiveSpans[x][i] - 1
        ELSE LiveSpans[m][i] - 1]]
  <2>1. \A m \in {Head} \union Live' : mSpans'[m] = Spans(m)
    BY <1>3, <1>4
  <2>2. LiveSpans' = [m \in ({Head} \union Live) \ {x} |-> Spans(m)]
    <3>1. LiveSpans' = [m \in {Head} \union Live' |-> mSpans'[m]]
      BY DEF LiveSpans, Head
    <3> QED BY <2>1, <3>1, <1>4
  <2> QED BY <2>2, <1>4, <1>5, Restricted DEF Spans
<1>9. LiveBackword' = [[m \in DOMAIN LiveBackword \ {x} |-> LiveBackword[m]]
                         EXCEPT ![LiveNexts[x][0]] = call.prevs[0]]
  <2>1. \A m \in {Tail} \union Live' :
          mBackword'[m] = IF m = mNexts[x][0] THEN call.prevs[0] ELSE LiveBackword[m]
    BY <1>3, <1>4, <1>5
  <2>2. LiveBackword' = [m \in {Tail} \union Live' |-> mBackword'[m]]
    BY DEF LiveBackword, Tail
  <2>3. DOMAIN LiveBackword \ {x} = {Tail} \union Live' /\ LiveNexts[x][0] = mNexts[x][0]
    BY <1>4, <1>5, Restricted
  <2>4. LiveBackword' = [m \in {Tail} \union Live' |->
          IF m = mNexts[x][0] THEN call.prevs[0] ELSE LiveBackword[m]]
    BY <2>1, <2>2
  <2> QED BY <2>3, <2>4
<1>10. mMaxLevel' = List!Shrunk(LiveNexts')
  <2>1. LiveNexts'[Head] = mNexts'[Head]
    BY DEF LiveNexts, Head
  <2> QED BY <2>1, <1>3, ShrunkMaps
<1>11. List!Return(1)
  BY <1>3, Names DEF Return, List!Return, Reply, List!Reply
<1> QED BY <1>2, <1>3, <1>6, <1>7, <1>8, <1>9, <1>10, <1>11, Names
        DEF List!EraseNode, List!SetBackword

\* A new node is linked between live nodes.
LEMMA InsertNodeMaps ==
  ASSUME List!IInv, Memory, NEW n \in Free, InsertNode(n)
  PROVE  n \in List!Free /\ List!InsertNode(n)
<1> DEFINE prevs == [i \in Level |-> IF i > mMaxLevel THEN Head ELSE call.prevs[i]]
           before(i) == call.ranks[0] - call.ranks[i]
           newMaxLevel == IF call.level > mMaxLevel THEN call.level ELSE mMaxLevel
           nexts == [mNexts EXCEPT ![Head] = Raised(@, Tail)]
           spans == [mSpans EXCEPT ![Head] = Raised(@, mLength)]
           liveNexts == [LiveNexts EXCEPT ![Head] = Raised(@, Tail)]
           liveSpans == [LiveSpans EXCEPT ![Head] = Raised(@, mLength)]
           NewSpan(g) == [i \in 0 .. call.level |-> g[prevs[i]][i] - before(i)]
           Nexts(f, m) == [i \in DOMAIN f |->
             IF i <= call.level /\ prevs[i] = m THEN n ELSE f[i]]
           Spans(f, m) == [i \in DOMAIN f |->
             IF i > newMaxLevel \/ prevs[i] # m THEN f[i]
             ELSE IF i <= call.level THEN before(i) + 1
             ELSE f[i] + 1]
<1>1. Arrived({"insert"}) /\ List!Arrived({"insert"})
  BY Names DEF InsertNode
<1>2. n \in Node /\ n \notin DOMAIN mKey /\ n \notin Live /\ n # Head /\ n # Tail
      /\ n \in List!Free
  BY SkipListAssumption, Restricted DEF Free, List!Free, Memory
<1>3. /\ mKey' = [m \in DOMAIN mKey \union {n} |-> IF m = n THEN call.key ELSE mKey[m]]
      /\ mNexts' = [m \in DOMAIN mNexts \union {n} |->
           IF m = n THEN [i \in 0 .. call.level |-> nexts[prevs[i]][i]] ELSE Nexts(nexts[m], m)]
      /\ mSpans' = [m \in DOMAIN mSpans \union {n} |->
           IF m = n THEN NewSpan(spans) ELSE Spans(spans[m], m)]
      /\ mBackword' = [[m \in DOMAIN mBackword \union {n} |->
                          IF m = n THEN prevs[0] ELSE mBackword[m]]
                        EXCEPT ![nexts[prevs[0]][0]] = n]
      /\ mMaxLevel' = newMaxLevel /\ mLength' = mLength + 1
      /\ pos' = [m \in DOMAIN pos \union {n} |->
                   IF m = n THEN call.ranks[0] + 1
                   ELSE IF pos[m] > call.ranks[0] THEN pos[m] + 1 ELSE pos[m]]
      /\ linked' =
           [i \in Level |-> IF i > call.level THEN linked[i]
                            ELSE IF i > mMaxLevel THEN {n}
                            ELSE linked[i] \union {n}]
      /\ Return(1)
  BY DEF InsertNode, SetBackword
<1>4. \A i \in 0 .. call.level : prevs[i] \in {Head} \union Live
  <2> SUFFICES ASSUME NEW i \in 0 .. call.level PROVE prevs[i] \in {Head} \union Live
    OBVIOUS
  <2>1. call.level \in Level
    BY Names DEF List!IInv, List!CallType
  <2>2. i \in Level /\ mMaxLevel \in Nat
    BY <2>1, WalkIsLive, SkipListAssumption DEF Level
  <2>3. ~(i > mMaxLevel) => i \in 0 .. mMaxLevel
    BY <2>2
  <2>4. Arrived({"insert", "erase"})
    BY <1>1 DEF Arrived
  <2> QED BY <2>2, <2>3, <2>4, PrevsAreLive
<1>5. call.level \in Nat
  BY Names, WalkIsLive DEF List!IInv, List!CallType
<1>6. \A m \in {Head} \union Live : nexts[m] = liveNexts[m] /\ spans[m] = liveSpans[m]
  BY Restricted DEF Memory
<1>7. Live' = Live \union {n}
  BY <1>3 DEF Live
<1>8. Live \subseteq DOMAIN mKey /\ DOMAIN mNexts = {Head} \union DOMAIN mKey
      /\ DOMAIN mSpans = {Head} \union DOMAIN mKey /\ DOMAIN mBackword = {Tail} \union DOMAIN mKey
  BY DEF Memory
<1>9. /\ {Head} \union Live' = DOMAIN LiveNexts \union {n}
      /\ {Head} \union Live' = DOMAIN LiveSpans \union {n}
      /\ {Tail} \union Live' = DOMAIN LiveBackword \union {n}
      /\ Live' = DOMAIN LiveKey \union {n}
  BY <1>7, Restricted
<1>10. LiveKey' = [m \in DOMAIN LiveKey \union {n} |-> IF m = n THEN call.key ELSE LiveKey[m]]
  <2>1. LiveKey' = [m \in Live' |-> mKey'[m]]
    BY DEF LiveKey
  <2>2. \A m \in Live' : mKey'[m] = IF m = n THEN call.key ELSE LiveKey[m]
    BY <1>3, <1>7, <1>8, Restricted
  <2> QED BY <2>1, <2>2, <1>9
<1> HIDE DEF nexts, spans, liveNexts, liveSpans, Nexts, Spans, prevs
<1>11. LiveNexts' = [m \in DOMAIN LiveNexts \union {n} |->
         IF m = n THEN [i \in 0 .. call.level |-> liveNexts[prevs[i]][i]] ELSE Nexts(liveNexts[m], m)]
  <2>1. LiveNexts' = [m \in {Head} \union Live' |-> mNexts'[m]]
    BY DEF LiveNexts, Head
  <2>2. [i \in 0 .. call.level |-> nexts[prevs[i]][i]] = [i \in 0 .. call.level |-> liveNexts[prevs[i]][i]]
    BY <1>4, <1>6
  <2>3. mNexts'[n] = [i \in 0 .. call.level |-> liveNexts[prevs[i]][i]]
    BY <1>3, <2>2
  <2>4. \A m \in {Head} \union Live : mNexts'[m] = Nexts(liveNexts[m], m)
    BY <1>2, <1>3, <1>6, <1>8
  <2> QED BY <2>1, <2>3, <2>4, <1>2, <1>7, <1>9
<1>12. LiveSpans' = [m \in DOMAIN LiveSpans \union {n} |->
         IF m = n THEN NewSpan(liveSpans) ELSE Spans(liveSpans[m], m)]
  <2>1. LiveSpans' = [m \in {Head} \union Live' |-> mSpans'[m]]
    BY DEF LiveSpans, Head
  <2>2. NewSpan(spans) = NewSpan(liveSpans)
    BY <1>4, <1>6
  <2>3. mSpans'[n] = NewSpan(liveSpans)
    BY <1>3, <2>2
  <2>4. \A m \in {Head} \union Live : mSpans'[m] = Spans(liveSpans[m], m)
    BY <1>2, <1>3, <1>6, <1>8
  <2> HIDE DEF NewSpan
  <2> QED BY <2>1, <2>3, <2>4, <1>2, <1>7, <1>9
<1>13. LiveBackword' = [[m \in DOMAIN LiveBackword \union {n} |->
                           IF m = n THEN prevs[0] ELSE LiveBackword[m]]
                         EXCEPT ![liveNexts[prevs[0]][0]] = n]
  <2>1. LiveBackword' = [m \in {Tail} \union Live' |-> mBackword'[m]]
    BY DEF LiveBackword, Tail
  <2>2. nexts[prevs[0]][0] = liveNexts[prevs[0]][0]
    BY <1>4, <1>5, <1>6
  <2>3. \A m \in {Tail} \union Live' :
          mBackword'[m] = IF m = liveNexts[prevs[0]][0] THEN n
                          ELSE IF m = n THEN prevs[0] ELSE LiveBackword[m]
    BY <1>2, <1>3, <1>7, <1>8, <2>2, Restricted
  <2>4. LiveBackword' = [m \in DOMAIN LiveBackword \union {n} |->
          IF m = liveNexts[prevs[0]][0] THEN n ELSE IF m = n THEN prevs[0] ELSE LiveBackword[m]]
    BY <1>9, <2>1, <2>3
  <2> QED BY <2>4
<1>14. List!Return(1)
  BY <1>3, Names DEF Return, List!Return, Reply, List!Reply
<1> QED BY <1>1, <1>2, <1>3, <1>10, <1>11, <1>12, <1>13, <1>14
        DEF List!InsertNode, List!SetBackword, prevs, liveNexts, liveSpans, Nexts, Spans,
            List!Raised, Raised, List!Level, Level, List!Head, Head, List!Tail, Tail

LEMMA FinishMaps ==
  ASSUME Finish
  PROVE  UNCHANGED List!vars
<1>1. UNCHANGED <<Live, mMaxLevel, mLength, pos, linked, call, ret>>
  BY DEF Finish, Live
<1>2. UNCHANGED <<LiveKey, LiveNexts, LiveSpans, LiveBackword>>
  BY <1>1 DEF Finish, LiveKey, LiveNexts, LiveSpans, LiveBackword, Head, Tail
<1> QED BY <1>1, <1>2 DEF List!vars, List!shape

\* Every step while loops run is a step of the list, or none.
LEMMA StepMaps ==
  ASSUME List!IInv, Memory, [IterNext]_<<vars, iterVars>>
  PROVE  [List!Next]_(List!vars)
<1>1. ASSUME UNCHANGED vars PROVE UNCHANGED List!vars
  BY <1>1, ShapeKept DEF vars, List!vars
<1>2. ASSUME NEW k \in Key, Insert(k) \/ Erase(k) PROVE List!Next
  <2>1. ASSUME Insert(k) PROVE List!Insert(k)
    <3>1. PICK level \in Level : Search("insert", k, level)
      BY <2>1 DEF Insert
    <3>2. List!Free # {}
      BY <2>1, Restricted DEF Insert, Free, List!Free, Memory
    <3> QED BY <3>1, <3>2, SearchMaps, Names DEF List!Insert
  <2>2. ASSUME Erase(k) PROVE List!Erase(k)
    BY <2>2, SearchMaps DEF Erase, List!Erase
  <2> QED BY <1>2, <2>1, <2>2 DEF List!Next, List!Start
<1>3. ASSUME Step(it # NullPtr) PROVE List!Step(FALSE)
  <2>1. CASE Forward \/ Descend
    BY <2>1, WalkMaps DEF List!Step
  <2>2. ASSUME NEW n \in Free, InsertNode(n) PROVE List!Step(FALSE)
    BY <2>2, InsertNodeMaps DEF List!Step
  <2>3. CASE EraseMiss
    BY <2>3, EraseMissMaps DEF List!Step
  <2>4. CASE EraseNode(it # NullPtr)
    BY <2>4, EraseNodeMaps DEF List!Step
  <2>5. CASE BoundFound \/ RankFound
    <3>1. call # NoCall /\ call.currLevel = -1
      BY <2>5 DEF BoundFound, RankFound, Arrived, NoCall
    <3>2. call.nd \in {Head} \union Live /\ 0 \in 0 .. mMaxLevel
      BY <3>1, WalkIsLive
    <3>3. LiveNexts[call.nd] = mNexts[call.nd] /\ (call.nd # Head => LiveKey[call.nd] = mKey[call.nd])
      BY <3>2, Restricted
    <3>4. ASSUME BoundFound PROVE List!BoundFound
      BY <3>3, <3>4, Names, ShapeKept
         DEF BoundFound, List!BoundFound, Return, List!Return, Reply, List!Reply
    <3>5. ASSUME RankFound PROVE List!RankFound
      BY <3>3, <3>5, Names, ShapeKept
         DEF RankFound, List!RankFound, Return, List!Return, Reply, List!Reply
    <3> QED BY <2>5, <3>4, <3>5 DEF List!Step
  <2> QED BY <1>3, <2>1, <2>2, <2>3, <2>4, <2>5 DEF Step
<1>4. CASE Begin \/ Advance \/ UNCHANGED <<vars, iterVars>>
  BY <1>1, <1>4 DEF Begin, Advance
<1>5. CASE Finish
  BY <1>5, FinishMaps
<1>6. CASE Call
  BY <1>2, <1>3, <1>6 DEF Call, List!Next
<1> QED BY <1>4, <1>5, <1>6 DEF IterNext

LEMMA InitMaps == ASSUME IterInit PROVE List!Init
<1>1. Init
  BY DEF IterInit
<1>2. Live = {} /\ {Head} \union Live = {Head} /\ {Tail} \union Live = {Tail}
  BY <1>1 DEF Init, Live
<1>3. LiveKey = [n \in {} |-> 0]
  BY <1>2 DEF LiveKey
<1>4. LiveNexts = [n \in {Head} |-> [i \in {0} |-> Tail]]
  BY <1>1, <1>2 DEF LiveNexts, Init
<1>5. LiveSpans = [n \in {Head} |-> [i \in {0} |-> 0]]
  BY <1>1, <1>2 DEF LiveSpans, Init
<1>6. LiveBackword = [n \in {Tail} |-> Head]
  BY <1>1, <1>2 DEF LiveBackword, Init
<1> QED BY <1>1, <1>3, <1>4, <1>5, <1>6, Names
        DEF Init, List!Init, NoReply, List!NoReply, Reply, List!Reply

-----------------------------------------------------------------------------
(* The links of the bottom level.                                          *)

\* How far a node is from where a loop starts.
Distance(n) == IF forward THEN At(n) ELSE mLength + 1 - At(n)

\* Where things are in the list.
LEMMA Places ==
  ASSUME List!IInv
  PROVE  /\ mLength \in Nat /\ At(Head) = 0 /\ At(Tail) = mLength + 1
         /\ \A n \in Live : At(n) \in 1 .. mLength
         /\ \A n, m \in {Head, Tail} \union Live : At(n) = At(m) => n = m
         /\ \A p \in 0 .. mLength : \E n \in {Head} \union Live : At(n) = p
<1>1. mLength \in Nat /\ At(Head) = 0 /\ At(Tail) = mLength + 1
      /\ \A n \in Live : At(n) = pos[n] /\ At(n) \in 1 .. mLength
  BY SkipListAssumption, Names, List!AtFacts DEF List!IInv, List!ListInv
<1>2. \A n, m \in {Head, Tail} \union Live : At(n) = At(m) => n = m
  BY SkipListAssumption, Names, List!AtInjective DEF List!IInv
<1>3. ASSUME NEW p \in 0 .. mLength PROVE \E n \in {Head} \union Live : At(n) = p
  <2>1. CASE p = 0
    BY <1>1, <2>1
  <2>2. CASE p # 0
    <3>1. p \in 1 .. mLength
      BY <1>1, <2>2
    <3>2. \E n \in Live : pos[n] = p
      BY <3>1, Names DEF List!IInv, List!ListInv, List!Positions
    <3> QED BY <1>1, <3>2
  <2> QED BY <2>1, <2>2
<1> QED BY <1>1, <1>2, <1>3

\* A link leads to the next node, in the direction of the loop.
LEMMA BottomLinks ==
  ASSUME List!IInv, Memory
  PROVE  /\ \A n \in {Head} \union Live :
              /\ mNexts[n][0] \in {Tail} \union Live /\ At(mNexts[n][0]) = At(n) + 1
              /\ mBackword[mNexts[n][0]] = n
         /\ \A n \in {Tail} \union Live :
              mBackword[n] \in {Head} \union Live /\ At(mBackword[n]) = At(n) - 1
<1>1. ASSUME NEW n \in {Head} \union Live
      PROVE  /\ mNexts[n][0] \in {Tail} \union Live /\ At(mNexts[n][0]) = At(n) + 1
             /\ mBackword[mNexts[n][0]] = n
  <2>1. LiveNexts[n][0] \in Live \union {Tail} /\ At(LiveNexts[n][0]) = At(n) + 1
    BY SkipListAssumption, Names, List!BottomNext DEF List!IInv
  <2>2. LiveBackword[LiveNexts[n][0]] = n
    BY Names DEF List!IInv, List!ListInv, List!BackwardInverts
  <2> QED BY <2>1, <2>2, Restricted
<1>2. ASSUME NEW n \in {Tail} \union Live
      PROVE  mBackword[n] \in {Head} \union Live /\ At(mBackword[n]) = At(n) - 1
  <2>1. mLength \in Nat /\ At(n) \in Int /\ At(n) - 1 \in 0 .. mLength
    BY Places
  <2>2. PICK m \in {Head} \union Live : At(m) = At(n) - 1
    BY <2>1, Places
  <2>3. mNexts[m][0] \in {Tail} \union Live /\ At(mNexts[m][0]) = At(n) /\ mBackword[mNexts[m][0]] = m
    BY <1>1, <2>1, <2>2
  <2>4. mNexts[m][0] = n
    BY <2>3, Places
  <2> QED BY <2>2, <2>3, <2>4
<1> QED BY <1>1, <1>2

\* In the direction of the loop, a link leads to the node next in the list, which
\* has no smaller key, or no greater one in a reverse loop.
LeadsOn ==
  /\ DOMAIN Links = {Origin} \union DOMAIN mKey
  /\ \A n \in {Origin} \union Live :
       Links[n] \in {End} \union Live /\ Distance(Links[n]) = Distance(n) + 1
  /\ \A n \in Live : Links[n] \in Live =>
       IF forward THEN mKey[n] <= mKey[Links[n]] ELSE mKey[n] >= mKey[Links[n]]

LEMMA LinksLeadOn == List!IInv /\ Memory /\ forward \in BOOLEAN => LeadsOn
<1> SUFFICES ASSUME List!IInv, Memory, forward \in BOOLEAN PROVE LeadsOn
  OBVIOUS
<1>1. DOMAIN Links = {Origin} \union DOMAIN mKey
  BY DEF Links, Origin, Memory
<1>2. \A n \in {Origin} \union Live : Links[n] = IF forward THEN mNexts[n][0] ELSE mBackword[n]
  BY DEF Links, Origin, Memory
<1>3. \A n \in {Origin} \union Live :
        Links[n] \in {End} \union Live /\ Distance(Links[n]) = Distance(n) + 1
  <2>1. CASE forward
    BY <1>2, <2>1, BottomLinks DEF Origin, End, Distance
  <2>2. CASE ~forward
    <3>1. mLength \in Int /\ \A n \in {Tail} \union Live : At(n) \in Int
      BY Places
    <3>2. ASSUME NEW n \in {Tail} \union Live
          PROVE  Links[n] \in {Head} \union Live /\ Distance(Links[n]) = Distance(n) + 1
      <4>1. Links[n] = mBackword[n]
        BY <1>2, <2>2, <3>2 DEF Origin
      <4>2. Links[n] \in {Head} \union Live /\ At(Links[n]) = At(n) - 1
        BY <4>1, BottomLinks
      <4>3. mLength + 1 - (At(n) - 1) = mLength + 1 - At(n) + 1
        BY <3>1
      <4> HIDE DEF Links
      <4> QED BY <2>2, <4>2, <4>3 DEF Distance
    <3> HIDE DEF Links
    <3> QED BY <2>2, <3>2 DEF Origin, End
  <2> QED BY <2>1, <2>2
<1>4. \A n, m \in Live : At(n) < At(m) => mKey[n] <= mKey[m]
  <2>1. \A n, m \in Live : pos[n] < pos[m] => LiveKey[n] <= LiveKey[m]
    BY Names DEF List!IInv, List!ListInv, List!Positions
  <2>2. \A n \in Live : At(n) = pos[n]
    BY SkipListAssumption, Names, List!AtFacts DEF List!IInv, List!ListInv
  <2> QED BY <2>1, <2>2, Restricted
<1>5. ASSUME NEW n \in Live, Links[n] \in Live
      PROVE  IF forward THEN mKey[n] <= mKey[Links[n]] ELSE mKey[n] >= mKey[Links[n]]
  <2>1. At(n) \in Int /\ At(Links[n]) \in Int /\ mLength \in Nat
    BY <1>5, Places
  <2>2. mKey[n] \in Int /\ mKey[Links[n]] \in Int
    <3>1. \A m \in Live : LiveKey[m] \in Key
      BY Names DEF List!IInv, List!ListInv, List!Shapes
    <3> QED BY <1>5, <3>1, Restricted, SkipListAssumption
  <2>3. Distance(Links[n]) = Distance(n) + 1
    BY <1>3
  <2> HIDE DEF Links
  <2> QED BY <1>4, <1>5, <2>1, <2>2, <2>3 DEF Distance
<1> QED BY <1>1, <1>3, <1>5 DEF LeadsOn

-----------------------------------------------------------------------------
(* What calls do to the links.                                             *)

\* On the bottom level a new node comes between the node where the walk ended
\* and the one behind it.
LEMMA InsertBottom ==
  ASSUME List!IInv, Memory, NEW n \in Free, InsertNode(n)
  PROVE  LET y == mNexts[call.nd][0] IN
         /\ call.nd \in {Head} \union Live /\ y \in {Tail} \union Live
         /\ n \in Node /\ n \notin {Head, Tail, NullPtr} \union DOMAIN mKey
         /\ mKey' = [m \in DOMAIN mKey \union {n} |-> IF m = n THEN call.key ELSE mKey[m]]
         /\ Live' = Live \union {n}
         /\ DOMAIN mNexts' = DOMAIN mNexts \union {n} /\ DOMAIN mSpans' = DOMAIN mSpans \union {n}
         /\ \A m \in DOMAIN mNexts' : 0 \in DOMAIN mNexts'[m]
         /\ \A m \in DOMAIN mNexts' :
              mNexts'[m][0] = IF m = n THEN y ELSE IF m = call.nd THEN n ELSE mNexts[m][0]
         /\ mBackword' = [m \in DOMAIN mBackword \union {n} |->
              IF m = n THEN call.nd ELSE IF m = y THEN n ELSE mBackword[m]]
<1> DEFINE prevs == [i \in Level |-> IF i > mMaxLevel THEN Head ELSE call.prevs[i]]
           nexts == [mNexts EXCEPT ![Head] = Raised(@, Tail)]
           y == mNexts[call.nd][0]
           Nexts(m) == [i \in DOMAIN nexts[m] |->
             IF i <= call.level /\ prevs[i] = m THEN n ELSE nexts[m][i]]
<1>1. /\ n \in Node /\ n \notin {Head, Tail, NullPtr} \union DOMAIN mKey
      /\ Live \subseteq DOMAIN mKey
      /\ DOMAIN mNexts = {Head} \union DOMAIN mKey /\ DOMAIN mBackword = {Tail} \union DOMAIN mKey
      /\ \A m \in DOMAIN mNexts : 0 \in DOMAIN mNexts[m]
  BY SkipListAssumption DEF Free, Memory
<1>2. Arrived({"insert"}) /\ Arrived({"insert", "erase"})
  BY DEF InsertNode, Arrived
<1>3. /\ call.level \in Nat /\ mMaxLevel \in Nat /\ 0 \in Level /\ 0 \in 0 .. mMaxLevel
      /\ ~(0 > mMaxLevel)
  BY Names, WalkIsLive DEF List!IInv, List!CallType
<1>4. prevs[0] = call.nd /\ call.nd \in {Head} \union Live
  BY <1>2, <1>3, PrevsAreLive
<1>5. y \in {Tail} \union Live
  BY <1>4, BottomLinks
<1>6. \A m \in DOMAIN mNexts : 0 \in DOMAIN nexts[m] /\ nexts[m][0] = mNexts[m][0]
  <2>1. 0 \in DOMAIN Raised(mNexts[Head], Tail) /\ Raised(mNexts[Head], Tail)[0] = mNexts[Head][0]
    BY <1>1, <1>3 DEF Raised
  <2> QED BY <1>1, <2>1
<1>7. /\ mKey' = [m \in DOMAIN mKey \union {n} |-> IF m = n THEN call.key ELSE mKey[m]]
      /\ mNexts' = [m \in DOMAIN mNexts \union {n} |->
           IF m = n THEN [i \in 0 .. call.level |-> nexts[prevs[i]][i]] ELSE Nexts(m)]
      /\ mBackword' = [[m \in DOMAIN mBackword \union {n} |->
                          IF m = n THEN prevs[0] ELSE mBackword[m]]
                        EXCEPT ![nexts[prevs[0]][0]] = n]
      /\ DOMAIN mSpans' = DOMAIN mSpans \union {n}
      /\ DOMAIN pos' = DOMAIN pos \union {n}
  BY DEF InsertNode, SetBackword
<1> HIDE DEF prevs, nexts, y
<1>8. nexts[prevs[0]][0] = y
  BY <1>1, <1>4, <1>6 DEF y
<1>9. ASSUME NEW m \in DOMAIN mNexts \union {n}
      PROVE  /\ 0 \in DOMAIN mNexts'[m]
             /\ mNexts'[m][0] = IF m = n THEN y ELSE IF m = call.nd THEN n ELSE mNexts[m][0]
  <2>1. CASE m = n
    <3>1. mNexts'[n] = [i \in 0 .. call.level |-> nexts[prevs[i]][i]]
      BY <1>7
    <3> QED BY <1>3, <1>8, <2>1, <3>1
  <2>2. CASE m # n
    <3>1. mNexts'[m] = Nexts(m)
      BY <1>7, <2>2
    <3> QED BY <1>3, <1>4, <1>6, <2>2, <3>1
  <2> QED BY <2>1, <2>2
<1>10. mBackword' = [m \in DOMAIN mBackword \union {n} |->
         IF m = n THEN call.nd ELSE IF m = y THEN n ELSE mBackword[m]]
  <2>1. n # y
    BY <1>1, <1>5
  <2>2. mBackword' = [[m \in DOMAIN mBackword \union {n} |->
                          IF m = n THEN call.nd ELSE mBackword[m]] EXCEPT ![y] = n]
    BY <1>4, <1>7, <1>8
  <2> QED BY <2>1, <2>2
<1>11. DOMAIN mNexts' = DOMAIN mNexts \union {n} /\ Live' = Live \union {n}
  BY <1>7 DEF Live
<1> HIDE DEF Nexts
<1> QED BY <1>1, <1>4, <1>5, <1>7, <1>9, <1>10, <1>11 DEF y

\* On the bottom level the node before an erased one and the node behind it are
\* linked with each other; the erased node keeps its links while it is held.
LEMMA EraseBottom ==
  ASSUME List!IInv, Memory, NEW held, EraseNode(held)
  PROVE  LET x == Found
             y == mNexts[x][0]
             Kept(nodes) == IF held THEN nodes ELSE nodes \ {x}
         IN
         /\ call.nd \in {Head} \union Live /\ x \in Live /\ y \in {Tail} \union Live
         /\ x # Head /\ x # Tail /\ mNexts[call.nd][0] = x
         /\ mKey' = [m \in Kept(DOMAIN mKey) |-> mKey[m]]
         /\ Live' = Live \ {x}
         /\ DOMAIN mNexts' = Kept(DOMAIN mNexts) /\ DOMAIN mSpans' = Kept(DOMAIN mSpans)
         /\ \A m \in DOMAIN mNexts' : DOMAIN mNexts'[m] = DOMAIN mNexts[m]
         /\ \A m \in DOMAIN mNexts' :
              mNexts'[m][0] = IF m = call.nd THEN y ELSE mNexts[m][0]
         /\ mBackword' = [m \in Kept(DOMAIN mBackword) |->
              IF m = y THEN call.nd ELSE mBackword[m]]
<1> DEFINE x == Found
           y == mNexts[x][0]
           Kept(nodes) == IF held THEN nodes ELSE nodes \ {x}
           Nexts(m) == [i \in DOMAIN mNexts[m] |->
             IF (i <= mMaxLevel /\ call.prevs[i] = m) /\ mNexts[m][i] = x
             THEN mNexts[x][i] ELSE mNexts[m][i]]
<1>1. Arrived({"erase"}) /\ Hit /\ Arrived({"insert", "erase"})
  BY DEF EraseNode, Arrived
<1>2. call.nd \in {Head} \union Live /\ call.prevs[0] = call.nd /\ mNexts[call.nd][0] = x
  BY <1>1, PrevsAreLive DEF Found
<1>3. x \in Live /\ x # Head /\ x # Tail
  <2>1. x \in Live \union {Tail} /\ x # Tail
    BY <1>1, FoundMaps DEF Hit
  <2> HIDE DEF x
  <2> QED BY <2>1, SkipListAssumption DEF Memory
<1> HIDE DEF x
<1>4. y \in {Tail} \union Live
  BY <1>3, BottomLinks
<1>5. /\ mKey' = [m \in Kept(DOMAIN mKey) |-> mKey[m]]
      /\ mNexts' = [m \in Kept(DOMAIN mNexts) |-> Nexts(m)]
      /\ DOMAIN mSpans' = Kept(DOMAIN mSpans)
      /\ mBackword' = [[m \in Kept(DOMAIN mBackword) |-> mBackword[m]]
                         EXCEPT ![y] = call.prevs[0]]
      /\ DOMAIN pos' = DOMAIN pos \ {x}
  BY DEF EraseNode, SetBackword, x
<1>6. \A m \in DOMAIN mNexts : 0 \in DOMAIN mNexts[m]
  BY DEF Memory
<1>7. mMaxLevel \in Nat
  BY WalkIsLive
<1>8. ASSUME NEW m \in Kept(DOMAIN mNexts)
      PROVE  /\ DOMAIN mNexts'[m] = DOMAIN mNexts[m]
             /\ mNexts'[m][0] = IF m = call.nd THEN y ELSE mNexts[m][0]
  <2>1. mNexts'[m] = Nexts(m) /\ 0 \in DOMAIN mNexts[m]
    BY <1>5, <1>6
  <2>2. (0 <= mMaxLevel /\ call.prevs[0] = m) /\ mNexts[m][0] = x <=> m = call.nd
    BY <1>2, <1>7
  <2>3. DOMAIN mNexts'[m] = DOMAIN mNexts[m]
    BY <2>1
  <2>4. mNexts'[m][0] = IF (0 <= mMaxLevel /\ call.prevs[0] = m) /\ mNexts[m][0] = x
                        THEN mNexts[x][0] ELSE mNexts[m][0]
    BY <2>1
  <2> QED BY <2>2, <2>3, <2>4
<1>9. Live' = Live \ {x}
  BY <1>5 DEF Live
<1>10. DOMAIN mNexts' = Kept(DOMAIN mNexts)
  BY <1>5
<1>11. mBackword' = [m \in Kept(DOMAIN mBackword) |-> IF m = y THEN call.nd ELSE mBackword[m]]
  BY <1>2, <1>5
<1> HIDE DEF Nexts, y, Kept
<1> QED BY <1>2, <1>3, <1>4, <1>5, <1>8, <1>9, <1>10, <1>11 DEF x, y, Kept

\* In the direction of a loop a new node comes behind one live node, or first.
LEMMA InsertRelinks ==
  ASSUME IterInv, UNCHANGED forward, NEW n \in Free, InsertNode(n)
  PROVE  \E p \in {Origin} \union Live :
           Links' = [m \in {Origin, n} \union DOMAIN mKey |->
             IF m = n THEN Links[p] ELSE IF m = p THEN n ELSE Links[m]]
<1> DEFINE y == mNexts[call.nd][0]
<1>1. List!IInv /\ Memory /\ forward \in BOOLEAN
  BY DEF IterInv, LoopInv
<1>2. /\ call.nd \in {Head} \union Live /\ y \in {Tail} \union Live
      /\ n \notin {Head, Tail, NullPtr} \union DOMAIN mKey
      /\ DOMAIN mNexts' = DOMAIN mNexts \union {n}
      /\ \A m \in DOMAIN mNexts' :
           mNexts'[m][0] = IF m = n THEN y ELSE IF m = call.nd THEN n ELSE mNexts[m][0]
      /\ mBackword' = [m \in DOMAIN mBackword \union {n} |->
           IF m = n THEN call.nd ELSE IF m = y THEN n ELSE mBackword[m]]
  BY <1>1, InsertBottom
<1>3. /\ DOMAIN mNexts = {Head} \union DOMAIN mKey /\ DOMAIN mBackword = {Tail} \union DOMAIN mKey
      /\ Live \subseteq DOMAIN mKey
  BY <1>1 DEF Memory
<1> HIDE DEF y
<1>4. CASE forward
  <2>1. /\ Links' = [m \in DOMAIN mNexts' |-> mNexts'[m][0]]
        /\ Links = [m \in DOMAIN mNexts |-> mNexts[m][0]] /\ Origin = Head
    BY <1>4 DEF Links, Origin
  <2>2. Links[call.nd] = y
    BY <1>2, <1>3, <2>1 DEF y
  <2>3. Links' = [m \in {Origin, n} \union DOMAIN mKey |->
          IF m = n THEN Links[call.nd] ELSE IF m = call.nd THEN n ELSE Links[m]]
    BY <1>2, <1>3, <2>1, <2>2
  <2> QED BY <1>2, <2>1, <2>3
<1>5. CASE ~forward
  <2>1. Links' = mBackword' /\ Links = mBackword /\ Origin = Tail
    BY <1>5 DEF Links, Origin
  <2>2. Links[y] = call.nd
    BY <1>1, <1>2, <2>1, BottomLinks DEF y
  <2>3. Links' = [m \in {Origin, n} \union DOMAIN mKey |->
          IF m = n THEN Links[y] ELSE IF m = y THEN n ELSE Links[m]]
    BY <1>2, <1>3, <2>1, <2>2
  <2> QED BY <1>2, <2>1, <2>3
<1> QED BY <1>4, <1>5

\* In the direction of a loop an erased node is passed over, and leads on itself.
LEMMA EraseRelinks ==
  ASSUME IterInv, UNCHANGED forward, EraseNode(TRUE)
  PROVE  \E p \in {Origin} \union Live :
           /\ Links[p] = Found
           /\ Links' = [m \in {Origin} \union DOMAIN mKey |->
                IF m = p THEN Links[Found] ELSE Links[m]]
<1> DEFINE x == Found
           y == mNexts[x][0]
<1>1. List!IInv /\ Memory /\ forward \in BOOLEAN
  BY DEF IterInv, LoopInv
<1>2. /\ call.nd \in {Head} \union Live /\ x \in Live /\ y \in {Tail} \union Live
      /\ mNexts[call.nd][0] = x
      /\ DOMAIN mNexts' = DOMAIN mNexts
      /\ \A m \in DOMAIN mNexts' : mNexts'[m][0] = IF m = call.nd THEN y ELSE mNexts[m][0]
      /\ mBackword' = [m \in DOMAIN mBackword |-> IF m = y THEN call.nd ELSE mBackword[m]]
  BY <1>1, EraseBottom
<1>3. /\ DOMAIN mNexts = {Head} \union DOMAIN mKey /\ DOMAIN mBackword = {Tail} \union DOMAIN mKey
      /\ Live \subseteq DOMAIN mKey
  BY <1>1 DEF Memory
<1>4. mBackword[x] = call.nd /\ mBackword[y] = x
  BY <1>1, <1>2, BottomLinks
<1> HIDE DEF x
<1>5. CASE forward
  <2>1. /\ Links' = [m \in DOMAIN mNexts' |-> mNexts'[m][0]]
        /\ Links = [m \in DOMAIN mNexts |-> mNexts[m][0]] /\ Origin = Head
    BY <1>5 DEF Links, Origin
  <2>2. Links[call.nd] = x /\ Links[x] = y
    BY <1>2, <1>3, <2>1
  <2> HIDE DEF y
  <2>3. Links' = [m \in {Origin} \union DOMAIN mKey |->
          IF m = call.nd THEN Links[x] ELSE Links[m]]
    BY <1>2, <1>3, <2>1, <2>2
  <2> QED BY <1>2, <2>1, <2>2, <2>3 DEF x
<1>6. CASE ~forward
  <2>1. Links' = mBackword' /\ Links = mBackword /\ Origin = Tail
    BY <1>6 DEF Links, Origin
  <2> HIDE DEF y
  <2>2. Links' = [m \in {Origin} \union DOMAIN mKey |-> IF m = y THEN Links[x] ELSE Links[m]]
    BY <1>2, <1>3, <1>4, <2>1
  <2> QED BY <1>2, <1>4, <2>1, <2>2 DEF x
<1> QED BY <1>5, <1>6

\* What is in memory is what the memory should hold, after every step.
LEMMA MemoryKept ==
  ASSUME IterInv, [IterNext]_<<vars, iterVars>>
  PROVE  Memory'
<1>1. List!IInv /\ Memory
  BY DEF IterInv
<1>2. ASSUME UNCHANGED shape, it' = NullPtr => DOMAIN mKey = Live PROVE Memory'
  BY <1>1, <1>2 DEF Memory, shape, Live
<1>3. CASE Begin
  BY <1>1, <1>2, <1>3 DEF Begin, vars, Memory
<1>4. CASE Advance
  <2>1. it' \in {End} \union DOMAIN mKey
    <3>1. it \in DOMAIN mKey /\ Links[it] \in {End} \union DOMAIN mKey
      BY <1>4 DEF Advance, IterInv, LoopInv
    <3>2. it' = Links[it]
      BY <1>1, <1>4, <3>1 DEF Advance, Links, Memory
    <3> QED BY <3>1, <3>2
  <2>2. it' # NullPtr
    BY <1>1, <2>1, SkipListAssumption DEF Memory, End, Head, Tail, NullPtr
  <2> QED BY <1>2, <1>4, <2>2 DEF Advance, vars
<1>5. CASE Finish
  BY <1>1, <1>5 DEF Finish, Memory, Live
<1>6. CASE Call
  <2>1. it' = it
    BY <1>6 DEF Call, iterVars
  <2>2. ASSUME UNCHANGED shape PROVE Memory'
    BY <1>1, <1>2, <2>1, <2>2 DEF Memory
  <2>3. ASSUME NEW n \in Free, InsertNode(n) PROVE Memory'
    <3>1. /\ n \in Node
          /\ mKey' = [m \in DOMAIN mKey \union {n} |-> IF m = n THEN call.key ELSE mKey[m]]
          /\ Live' = Live \union {n}
          /\ DOMAIN mNexts' = DOMAIN mNexts \union {n} /\ DOMAIN mSpans' = DOMAIN mSpans \union {n}
          /\ \A m \in DOMAIN mNexts' : 0 \in DOMAIN mNexts'[m]
          /\ DOMAIN mBackword' = DOMAIN mBackword \union {n}
      BY <1>1, <2>3, InsertBottom
    <3> QED BY <1>1, <2>1, <3>1 DEF Memory
  <2>4. CASE EraseNode(it # NullPtr)
    <3> DEFINE x == Found
               Kept(nodes) == IF it # NullPtr THEN nodes ELSE nodes \ {x}
    <3>1. /\ x # Head /\ x # Tail
          /\ DOMAIN mKey' = Kept(DOMAIN mKey) /\ Live' = Live \ {x}
          /\ DOMAIN mNexts' = Kept(DOMAIN mNexts) /\ DOMAIN mSpans' = Kept(DOMAIN mSpans)
          /\ \A m \in DOMAIN mNexts' : DOMAIN mNexts'[m] = DOMAIN mNexts[m]
          /\ DOMAIN mBackword' = Kept(DOMAIN mBackword)
      BY <1>1, <2>4, EraseBottom
    <3> HIDE DEF x
    <3> QED BY <1>1, <2>1, <3>1 DEF Memory
  <2>5. CASE Forward \/ Descend \/ EraseMiss \/ BoundFound \/ RankFound
             \/ \E k \in Key : Insert(k) \/ Erase(k)
    BY <2>2, <2>5 DEF Forward, Descend, EraseMiss, BoundFound, RankFound, Insert, Erase, Search
  <2> QED BY <1>6, <2>3, <2>4, <2>5 DEF Call, Step
<1>7. CASE UNCHANGED <<vars, iterVars>>
  BY <1>1, <1>2, <1>7 DEF vars, iterVars, Memory
<1> QED BY <1>3, <1>4, <1>5, <1>6, <1>7 DEF IterNext

-----------------------------------------------------------------------------
(* The loop.                                                               *)

\* The sentinels are no nodes.
LEMMA Ends ==
  ASSUME Memory
  PROVE  /\ End # Origin /\ End # NullPtr /\ Origin # NullPtr
         /\ End \notin DOMAIN mKey /\ Origin \notin DOMAIN mKey /\ NullPtr \notin DOMAIN mKey
         /\ Live \subseteq DOMAIN mKey
  BY SkipListAssumption DEF Memory, End, Origin, Head, Tail, NullPtr

\* At its start a loop has all nodes before it but the one it is at.
LEMMA FreshLoop ==
  List!IInv /\ Memory /\ forward \in BOOLEAN /\ DOMAIN mKey = Live
    /\ it = Links[Origin] /\ met = {it} /\ due = Live \ {it}
  => LoopInv
<1> SUFFICES ASSUME List!IInv, Memory, forward \in BOOLEAN, DOMAIN mKey = Live,
                    it = Links[Origin], met = {it}, due = Live \ {it}
             PROVE  LoopInv
  OBVIOUS
<1>1. /\ DOMAIN Links = {Origin} \union Live
      /\ \A n \in {Origin} \union Live :
           Links[n] \in {End} \union Live /\ Distance(Links[n]) = Distance(n) + 1
  BY LinksLeadOn DEF LeadsOn
<1>2. /\ mLength \in Nat /\ Distance(Origin) = 0 /\ Distance(End) = mLength + 1
      /\ \A n \in Live : Distance(n) \in 1 .. mLength
      /\ \A n, m \in {End} \union Live : Distance(n) = Distance(m) => n = m
  <2>1. /\ mLength \in Nat /\ At(Head) = 0 /\ At(Tail) = mLength + 1
        /\ \A n \in Live : At(n) \in 1 .. mLength
        /\ \A n, m \in {Head, Tail} \union Live : At(n) = At(m) => n = m
    BY Places
  <2>2. CASE forward
    BY <2>1, <2>2 DEF Distance, Origin, End
  <2>3. CASE ~forward
    <3>1. \A n, m \in {Head} \union Live : mLength + 1 - At(n) = mLength + 1 - At(m) => n = m
      BY <2>1
    <3> QED BY <2>1, <2>3, <3>1 DEF Distance, Origin, End
  <2> QED BY <2>2, <2>3
<1>3. /\ End # Origin /\ End # NullPtr /\ End \notin Live /\ Origin \notin Live /\ NullPtr \notin Live
  BY Ends
<1>4. it \in {End} \union Live /\ Distance(it) = 1
  BY <1>1, <1>2
<1> HIDE DEF Links
<1>5. \A A : Closed(A) <=> A \in SUBSET ({End} \union Live) /\ \A n \in A \ {End} : Links[n] \in A
  BY DEF Closed
<1>6. NoCycle
  <2> SUFFICES ASSUME NEW m \in Live PROVE \E A : Closed(A) /\ Links[m] \in A /\ m \notin A
    BY DEF NoCycle
  <2> DEFINE A == {n \in {End} \union Live : Distance(n) > Distance(m)}
  <2>1. \A n \in A \ {End} : Links[n] \in {End} \union Live /\ Distance(Links[n]) > Distance(m)
    BY <1>1, <1>2
  <2>2. Links[m] \in A /\ m \notin A
    BY <1>1, <1>2
  <2>3. Closed(A)
    <3> HIDE DEF Distance
    <3> QED BY <1>5, <2>1
  <2> QED BY <2>2, <2>3
<1>7. NoReturn
  BY DEF NoReturn
<1>8. DueAhead
  <2> SUFFICES ASSUME NEW d \in Live \ {it}
               PROVE  \E B \in SUBSET DOMAIN mKey :
                        it \in B /\ d \notin B /\ \A n \in B : Links[n] \in B \union {d}
    BY DEF DueAhead
  <2> DEFINE B == {n \in Live : Distance(n) < Distance(d)}
  <2>1. Distance(d) \in 1 .. mLength /\ Distance(d) # 1
    BY <1>2, <1>4
  <2>2. it \in B /\ d \notin B
    BY <1>2, <1>4, <2>1
  <2>3. ASSUME NEW n \in B PROVE Links[n] \in B \union {d}
    <3>1. Links[n] \in {End} \union Live /\ Distance(Links[n]) <= Distance(d)
      BY <1>1, <1>2, <2>1
    <3>2. CASE Distance(Links[n]) = Distance(d)
      BY <1>2, <3>1, <3>2
    <3>3. CASE Distance(Links[n]) # Distance(d)
      BY <1>2, <2>1, <3>1, <3>3
    <3> QED BY <3>2, <3>3
  <2> QED BY <2>2, <2>3
<1>9. KeysFollow
  BY LinksLeadOn DEF LeadsOn, KeysFollow
<1>10. it # NullPtr /\ met \subseteq {End} \union Live /\ due \subseteq Live
  BY <1>3, <1>4
<1>11. \A n \in {Origin} \union Live : Links[n] \in {End} \union Live
  BY <1>1
<1> QED BY <1>4, <1>6, <1>7, <1>8, <1>9, <1>10, <1>11 DEF LoopInv

\* Going on keeps clear of the nodes met, and skips no due one.
LEMMA AdvanceKeeps ==
  ASSUME IterInv, Advance
  PROVE  LoopInv' /\ it' \notin met
         /\ (it' \in Node => IF forward THEN mKey[it] <= mKey[it'] ELSE mKey[it] >= mKey[it'])
<1>1. /\ Memory /\ forward \in BOOLEAN
      /\ it \in DOMAIN mKey /\ it # End /\ it # NullPtr /\ met \subseteq {End} \union DOMAIN mKey
      /\ \A n \in {Origin} \union DOMAIN mKey : Links[n] \in {End} \union DOMAIN mKey
      /\ due \subseteq Live /\ NoCycle /\ NoReturn /\ DueAhead /\ KeysFollow
  BY DEF IterInv, LoopInv, Advance
<1>2. /\ End # NullPtr /\ NullPtr \notin DOMAIN mKey /\ End \notin Node
  BY <1>1, Ends, SkipListAssumption DEF End
<1>3. it' = Links[it]
  BY <1>1 DEF Advance, Links, Memory
<1>4. /\ UNCHANGED <<mKey, Live, forward, Links, End, Origin>>
      /\ met' = met \union {it'} /\ due' = due \ {it'}
  BY DEF Advance, vars, shape, Links, Live, End, Origin
<1>5. \A A : Closed(A)' <=> Closed(A)
  BY <1>4 DEF Closed
<1> HIDE DEF Links
<1>6. \A m \in met : \E A : Closed(A) /\ Links[it] \in A /\ m \notin A
  <2> SUFFICES ASSUME NEW m \in met PROVE \E A : Closed(A) /\ Links[it] \in A /\ m \notin A
    OBVIOUS
  <2>1. CASE m = it
    BY <1>1, <2>1 DEF NoCycle
  <2>2. CASE m # it
    <3>1. PICK A : Closed(A) /\ it \in A /\ m \notin A
      BY <1>1, <2>2 DEF NoReturn
    <3> QED BY <1>1, <3>1 DEF Closed
  <2> QED BY <2>1, <2>2
<1>7. it' \notin met
  BY <1>3, <1>6
<1>8. it' \in {End} \union DOMAIN mKey
  BY <1>1, <1>3
<1>9. NoReturn'
  BY <1>3, <1>4, <1>5, <1>6 DEF NoReturn
<1>10. DueAhead'
  <2> SUFFICES ASSUME NEW d \in due'
               PROVE  \E B \in SUBSET DOMAIN mKey :
                        it' \in B /\ d \notin B /\ \A n \in B : Links[n] \in B \union {d}
    BY <1>4 DEF DueAhead
  <2>1. d \in due /\ d # it'
    BY <1>4
  <2>2. PICK B \in SUBSET DOMAIN mKey :
          it \in B /\ d \notin B /\ \A n \in B : Links[n] \in B \union {d}
    BY <1>1, <2>1 DEF DueAhead
  <2> QED BY <1>3, <2>1, <2>2
<1>11. NoCycle' /\ KeysFollow'
  BY <1>1, <1>4, <1>5 DEF NoCycle, KeysFollow
<1>12. it' \in Node => IF forward THEN mKey[it] <= mKey[it'] ELSE mKey[it] >= mKey[it']
  BY <1>1, <1>2, <1>3, <1>8 DEF KeysFollow
<1>13. LoopInv'
  <2>1. met' \subseteq ({End} \union DOMAIN mKey)' /\ due' \subseteq Live'
    BY <1>1, <1>4, <1>8
  <2>2. it' \in ({End} \union DOMAIN mKey)' /\ it' # NullPtr
    BY <1>2, <1>4, <1>8
  <2>3. \A n \in ({Origin} \union DOMAIN mKey)' : Links'[n] \in ({End} \union DOMAIN mKey)'
    BY <1>1, <1>4
  <2> QED BY <1>1, <1>4, <1>9, <1>10, <1>11, <2>1, <2>2, <2>3 DEF LoopInv
<1> QED BY <1>7, <1>12, <1>13

\* An inserted node comes into the way of the loop or not; the due nodes stay on it.
LEMMA InsertKeeps ==
  ASSUME IterInv, it # NullPtr, UNCHANGED <<it, forward, met>>, due' = due \intersect Live',
         NEW n \in Free, InsertNode(n), LeadsOn'
  PROVE  LoopInv'
<1>1. /\ List!IInv /\ Memory /\ forward \in BOOLEAN
      /\ it \in {End} \union DOMAIN mKey /\ met \subseteq {End} \union DOMAIN mKey
      /\ \A m \in {Origin} \union DOMAIN mKey : Links[m] \in {End} \union DOMAIN mKey
      /\ due \subseteq Live /\ NoCycle /\ NoReturn /\ DueAhead /\ KeysFollow
  BY DEF IterInv, LoopInv
<1>2. /\ End # Origin /\ End \notin DOMAIN mKey /\ Origin \notin DOMAIN mKey
      /\ Live \subseteq DOMAIN mKey
  BY <1>1, Ends
<1>3. /\ n \notin {Origin, End, NullPtr} \union DOMAIN mKey
      /\ mKey' = [m \in DOMAIN mKey \union {n} |-> IF m = n THEN call.key ELSE mKey[m]]
      /\ Live' = Live \union {n}
  BY <1>1, InsertBottom DEF Origin, End
<1>4. End' = End /\ Origin' = Origin
  BY DEF End, Origin
<1>5. PICK p \in {Origin} \union Live :
        Links' = [m \in {Origin, n} \union DOMAIN mKey |->
          IF m = n THEN Links[p] ELSE IF m = p THEN n ELSE Links[m]]
  BY InsertRelinks
<1>6. p \in {Origin} \union DOMAIN mKey /\ p # End /\ p # n
  BY <1>2, <1>3
<1>7. DOMAIN mKey' = DOMAIN mKey \union {n}
  BY <1>3
<1> HIDE DEF Links
<1>8. /\ Links'[n] = Links[p] /\ Links'[p] = n
      /\ \A m \in {Origin} \union DOMAIN mKey : m # p => Links'[m] = Links[m]
  BY <1>3, <1>5, <1>6
<1> DEFINE With(A) == IF p \in A THEN A \union {n} ELSE A
<1>9. ASSUME NEW A, Closed(A)
      PROVE  Closed(With(A))' /\ n \notin A
  <2>1. A \in SUBSET ({End} \union DOMAIN mKey) /\ \A a \in A \ {End} : Links[a] \in A
    BY <1>9 DEF Closed
  <2>2. With(A) \in SUBSET ({End} \union DOMAIN mKey') /\ n \notin A
    BY <1>3, <1>7, <2>1
  <2>3. \A a \in With(A) \ {End} : Links'[a] \in With(A)
    BY <1>3, <1>6, <1>8, <2>1
  <2> QED BY <1>4, <2>2, <2>3 DEF Closed
<1>10. NoCycle'
  <2> SUFFICES ASSUME NEW m \in DOMAIN mKey'
               PROVE  \E A : Closed(A)' /\ Links'[m] \in A /\ m \notin A
    BY DEF NoCycle
  <2>1. CASE m = n /\ p = Origin
    <3>0. PICK A : A = {End} \union DOMAIN mKey
      OBVIOUS
    <3>1. Closed(A)
      BY <1>1, <3>0 DEF Closed
    <3>2. p \notin A
      BY <1>2, <2>1, <3>0
    <3>3. Closed(A)' /\ n \notin A
      BY <1>9, <3>1, <3>2
    <3>4. Links'[m] \in A
      BY <1>1, <1>8, <2>1, <3>0
    <3> QED BY <2>1, <3>3, <3>4
  <2>2. CASE m = n /\ p # Origin
    <3>1. PICK A : Closed(A) /\ Links[p] \in A /\ p \notin A
      BY <1>1, <1>6, <2>2 DEF NoCycle
    <3>2. Closed(A)' /\ n \notin A
      BY <1>9, <3>1
    <3> QED BY <1>8, <2>2, <3>1, <3>2
  <2>3. CASE m # n
    <3>1. PICK A : Closed(A) /\ Links[m] \in A /\ m \notin A
      BY <1>1, <1>7, <2>3 DEF NoCycle
    <3>2. CASE m = p
      <4> DEFINE C == A \union {n}
      <4>1. Closed(A)' /\ n \notin A
        BY <1>9, <3>1, <3>2
      <4>2. Closed(C)'
        <5>1. A \in SUBSET ({End} \union DOMAIN mKey)' /\ \A a \in A \ {End} : Links'[a] \in A
          BY <1>4, <4>1 DEF Closed
        <5>2. C \in SUBSET ({End} \union DOMAIN mKey)' /\ \A a \in C \ {End} : Links'[a] \in C
          BY <1>4, <1>7, <1>8, <3>1, <3>2, <5>1
        <5> HIDE DEF C
        <5> QED BY <1>4, <5>2 DEF Closed
      <4>3. Links'[m] \in C /\ m \notin C
        BY <1>8, <2>3, <3>1, <3>2
      <4> HIDE DEF C
      <4> QED BY <4>2, <4>3
    <3>3. CASE m # p
      <4>1. Closed(With(A))' /\ Links'[m] \in With(A) /\ m \notin With(A)
        BY <1>7, <1>8, <1>9, <2>3, <3>1, <3>3
      <4> HIDE DEF With
      <4> QED BY <4>1
    <3> QED BY <3>2, <3>3
  <2> QED BY <2>1, <2>2, <2>3
<1>11. NoReturn'
  <2> SUFFICES ASSUME NEW m \in met \ {it}
               PROVE  \E A : Closed(A)' /\ it \in A /\ m \notin A
    BY DEF NoReturn
  <2>1. PICK A : Closed(A) /\ it \in A /\ m \notin A
    BY <1>1 DEF NoReturn
  <2>2. m # n
    BY <1>1, <1>3
  <2>3. Closed(With(A))' /\ it \in With(A) /\ m \notin With(A)
    BY <1>9, <2>1, <2>2
  <2> HIDE DEF With
  <2> QED BY <2>3
<1>12. DueAhead'
  <2> SUFFICES ASSUME NEW d \in due
               PROVE  \E B \in SUBSET DOMAIN mKey' :
                        it \in B /\ d \notin B /\ \A m \in B : Links'[m] \in B \union {d}
    BY DEF DueAhead
  <2>1. PICK B \in SUBSET DOMAIN mKey :
          it \in B /\ d \notin B /\ \A m \in B : Links[m] \in B \union {d}
    BY <1>1 DEF DueAhead
  <2>2. d # n /\ With(B) \in SUBSET DOMAIN mKey' /\ it \in With(B) /\ d \notin With(B)
    BY <1>1, <1>2, <1>3, <1>7, <2>1
  <2>3. \A m \in With(B) : Links'[m] \in With(B) \union {d}
    BY <1>3, <1>8, <2>1
  <2> HIDE DEF With
  <2> QED BY <2>2, <2>3
<1>13. KeysFollow'
  <2> SUFFICES ASSUME NEW m \in DOMAIN mKey', Links'[m] \in DOMAIN mKey'
               PROVE  IF forward THEN mKey'[m] <= mKey'[Links'[m]] ELSE mKey'[m] >= mKey'[Links'[m]]
    BY DEF KeysFollow
  <2>1. CASE m \in Live'
    <3>1. Links'[m] \in Live'
      <4>1. Links'[m] \in {End} \union Live'
        BY <1>4, <2>1 DEF LeadsOn
      <4> QED BY <1>2, <1>3, <1>7, <4>1
    <3> QED BY <2>1, <3>1 DEF LeadsOn
  <2>2. CASE m \notin Live'
    <3>1. m # n /\ m # p /\ m \in DOMAIN mKey
      BY <1>2, <1>3, <1>5, <1>7, <2>2
    <3>2. Links'[m] = Links[m] /\ Links[m] \in {End} \union DOMAIN mKey
      BY <1>1, <1>8, <3>1
    <3>3. Links[m] \in DOMAIN mKey
      BY <1>2, <1>3, <1>7, <3>2
    <3>4. mKey'[m] = mKey[m] /\ mKey'[Links[m]] = mKey[Links[m]]
      BY <1>3, <3>1, <3>3
    <3> QED BY <1>1, <3>1, <3>2, <3>3, <3>4 DEF KeysFollow
  <2> QED BY <2>1, <2>2
<1>14. /\ it' \in ({End} \union DOMAIN mKey)' /\ met' \subseteq ({End} \union DOMAIN mKey)'
       /\ due' \subseteq Live'
       /\ \A m \in ({Origin} \union DOMAIN mKey)' : Links'[m] \in ({End} \union DOMAIN mKey)'
  <2>1. \A m \in {Origin} \union DOMAIN mKey \union {n} : Links'[m] \in {End} \union DOMAIN mKey \union {n}
    BY <1>1, <1>6, <1>8
  <2> QED BY <1>1, <1>4, <1>7, <2>1
<1> QED BY <1>1, <1>10, <1>11, <1>12, <1>13, <1>14 DEF LoopInv

\* An erased node still leads to the due nodes behind it, and is led past.
LEMMA EraseKeeps ==
  ASSUME IterInv, it # NullPtr, UNCHANGED <<it, forward, met>>, due' = due \intersect Live',
         EraseNode(TRUE), LeadsOn'
  PROVE  LoopInv'
<1> DEFINE x == Found
<1>1. /\ List!IInv /\ Memory /\ forward \in BOOLEAN
      /\ it \in {End} \union DOMAIN mKey /\ met \subseteq {End} \union DOMAIN mKey
      /\ \A m \in {Origin} \union DOMAIN mKey : Links[m] \in {End} \union DOMAIN mKey
      /\ due \subseteq Live /\ NoCycle /\ NoReturn /\ DueAhead /\ KeysFollow
  BY DEF IterInv, LoopInv
<1>2. /\ End # Origin /\ End \notin DOMAIN mKey /\ Origin \notin DOMAIN mKey
      /\ Live \subseteq DOMAIN mKey
  BY <1>1, Ends
<1>3. /\ x \in Live /\ mKey' = [m \in DOMAIN mKey |-> mKey[m]] /\ Live' = Live \ {x}
  BY <1>1, EraseBottom
<1>4. End' = End /\ Origin' = Origin
  BY DEF End, Origin
<1>5. PICK p \in {Origin} \union Live :
        /\ Links[p] = x
        /\ Links' = [m \in {Origin} \union DOMAIN mKey |-> IF m = p THEN Links[x] ELSE Links[m]]
  BY EraseRelinks
<1>6. p \in {Origin} \union DOMAIN mKey /\ p # End /\ x # End /\ x \in DOMAIN mKey
  BY <1>2, <1>3
<1>7. DOMAIN mKey' = DOMAIN mKey
  BY <1>3
<1> HIDE DEF Links, x
<1>8. \A m \in {Origin} \union DOMAIN mKey : Links'[m] = IF m = p THEN Links[x] ELSE Links[m]
  BY <1>5
<1>9. ASSUME NEW A, Closed(A)
      PROVE  Closed(A)' /\ \A m \in {Origin} \union DOMAIN mKey : Links[m] \in A => Links'[m] \in A
  <2>1. A \in SUBSET ({End} \union DOMAIN mKey) /\ \A a \in A \ {End} : Links[a] \in A
    BY <1>9 DEF Closed
  <2>2. \A m \in {Origin} \union DOMAIN mKey : Links[m] \in A => Links'[m] \in A
    BY <1>5, <1>6, <1>8, <2>1
  <2>3. \A a \in A \ {End} : Links'[a] \in A
    BY <2>1, <2>2
  <2> QED BY <1>4, <1>7, <2>1, <2>2, <2>3 DEF Closed
<1>10. NoCycle'
  <2> SUFFICES ASSUME NEW m \in DOMAIN mKey
               PROVE  \E A : Closed(A)' /\ Links'[m] \in A /\ m \notin A
    BY <1>7 DEF NoCycle
  <2>1. PICK A : Closed(A) /\ Links[m] \in A /\ m \notin A
    BY <1>1 DEF NoCycle
  <2> QED BY <1>9, <2>1
<1>11. NoReturn'
  <2> SUFFICES ASSUME NEW m \in met \ {it}
               PROVE  \E A : Closed(A)' /\ it \in A /\ m \notin A
    BY DEF NoReturn
  <2>1. PICK A : Closed(A) /\ it \in A /\ m \notin A
    BY <1>1 DEF NoReturn
  <2> QED BY <1>9, <2>1
<1>12. DueAhead'
  <2> SUFFICES ASSUME NEW d \in due \intersect Live'
               PROVE  \E B \in SUBSET DOMAIN mKey :
                        it \in B /\ d \notin B /\ \A m \in B : Links'[m] \in B \union {d}
    BY <1>7 DEF DueAhead
  <2>1. PICK B \in SUBSET DOMAIN mKey :
          it \in B /\ d \notin B /\ \A m \in B : Links[m] \in B \union {d}
    BY <1>1 DEF DueAhead
  <2>2. d # x
    BY <1>3
  <2>3. \A m \in B : Links'[m] \in B \union {d}
    BY <1>5, <1>8, <2>1, <2>2
  <2> QED BY <2>1, <2>3
<1>13. KeysFollow'
  <2> SUFFICES ASSUME NEW m \in DOMAIN mKey, Links'[m] \in DOMAIN mKey
               PROVE  IF forward THEN mKey[m] <= mKey[Links'[m]] ELSE mKey[m] >= mKey[Links'[m]]
    BY <1>3 DEF KeysFollow
  <2>1. CASE m \in Live'
    <3>1. Links'[m] \in Live'
      <4>1. Links'[m] \in {End} \union Live'
        BY <1>4, <2>1 DEF LeadsOn
      <4> QED BY <1>2, <4>1
    <3>2. mKey'[m] = mKey[m] /\ mKey'[Links'[m]] = mKey[Links'[m]]
      BY <1>3
    <3> QED BY <2>1, <3>1, <3>2 DEF LeadsOn
  <2>2. CASE m \notin Live' /\ m # p
    <3>1. Links'[m] = Links[m]
      BY <1>8, <2>2
    <3> QED BY <1>1, <3>1 DEF KeysFollow
  <2>3. CASE m \notin Live' /\ m = p
    <3>1. m = x
      BY <1>2, <1>3, <1>5, <2>3
    <3>2. Links[m] = m
      BY <1>5, <2>3, <3>1
    <3>3. PICK A : Closed(A) /\ Links[m] \in A /\ m \notin A
      BY <1>1 DEF NoCycle
    <3> QED BY <3>2, <3>3
  <2> QED BY <2>1, <2>2, <2>3
<1>14. /\ it' \in ({End} \union DOMAIN mKey)' /\ met' \subseteq ({End} \union DOMAIN mKey)'
       /\ due' \subseteq Live'
       /\ \A m \in ({Origin} \union DOMAIN mKey)' : Links'[m] \in ({End} \union DOMAIN mKey)'
  <2>1. \A m \in {Origin} \union DOMAIN mKey : Links'[m] \in {End} \union DOMAIN mKey
    BY <1>1, <1>6, <1>8
  <2> QED BY <1>1, <1>4, <1>7, <2>1
<1> QED BY <1>1, <1>10, <1>11, <1>12, <1>13, <1>14 DEF LoopInv

\* Other steps of calls do not touch what the loop reads.
LEMMA WalkKeeps ==
  ASSUME IterInv, UNCHANGED <<it, forward, met, due, shape>>
  PROVE  LoopInv'
<1>1. UNCHANGED <<mKey, mNexts, mBackword, Live>>
  BY DEF shape, Live
<1>2. UNCHANGED <<Links, Origin, End>>
  BY <1>1 DEF Links, Origin, End
<1>3. LoopInv
  BY DEF IterInv
<1>4. \A A : Closed(A)' <=> Closed(A)
  BY <1>1, <1>2 DEF Closed
<1> HIDE DEF Links
<1>5. (NoCycle' <=> NoCycle) /\ (NoReturn' <=> NoReturn) /\ (DueAhead' <=> DueAhead)
      /\ (KeysFollow' <=> KeysFollow)
  BY <1>1, <1>2, <1>4 DEF NoCycle, NoReturn, DueAhead, KeysFollow
<1> QED BY <1>1, <1>2, <1>3, <1>5 DEF LoopInv

\* Every step keeps what is known of the loop.
LEMMA LoopKept ==
  ASSUME IterInv, [IterNext]_<<vars, iterVars>>, List!IInv', Memory'
  PROVE  LoopInv'
<1>1. List!IInv /\ Memory /\ forward \in BOOLEAN /\ (it = NullPtr => due = {})
  BY DEF IterInv, LoopInv
<1>2. forward' \in BOOLEAN => LeadsOn'
  <2>1. (List!IInv /\ Memory /\ forward \in BOOLEAN)' => LeadsOn'
    BY LinksLeadOn, PTL
  <2> QED BY <2>1
<1>3. CASE Begin
  <2>1. (List!IInv /\ Memory /\ forward \in BOOLEAN /\ DOMAIN mKey = Live
          /\ it = Links[Origin] /\ met = {it} /\ due = Live \ {it})' => LoopInv'
    BY FreshLoop, PTL
  <2>2. forward' \in BOOLEAN /\ UNCHANGED <<mKey, mNexts, mBackword, Live>> /\ DOMAIN mKey = Live
        /\ met' = {it'} /\ due' = Live \ {it'}
    BY <1>1, <1>3 DEF Begin, vars, shape, Live, Memory
  <2>3. it' = Links'[Origin']
    BY <1>1, <1>3, <2>2 DEF Begin, Links, Origin, Memory
  <2> QED BY <2>1, <2>2, <2>3
<1>4. CASE Advance
  BY <1>4, AdvanceKeeps
<1>5. CASE Finish
  BY <1>5 DEF Finish, LoopInv
<1>6. CASE Call
  <2>1. UNCHANGED <<it, forward, met>> /\ due' = due \intersect Live'
    BY <1>6 DEF Call, Live
  <2>2. ASSUME UNCHANGED shape PROVE LoopInv'
    <3>1. due' = due
      BY <1>1, <2>1, <2>2 DEF IterInv, LoopInv, shape, Live
    <3> QED BY <2>1, <2>2, <3>1, WalkKeeps
  <2>3. CASE it = NullPtr
    BY <1>1, <2>1, <2>3 DEF LoopInv
  <2>4. ASSUME it # NullPtr, NEW n \in Free, InsertNode(n) PROVE LoopInv'
    BY <1>1, <1>2, <2>1, <2>4, InsertKeeps
  <2>5. ASSUME it # NullPtr, EraseNode(it # NullPtr) PROVE LoopInv'
    <3>1. EraseNode(TRUE)
      <4>1. (it # NullPtr) = TRUE
        BY <2>5
      <4> QED BY <2>5, <4>1
    <3> QED BY <1>1, <1>2, <2>1, <2>5, <3>1, EraseKeeps
  <2>6. CASE Forward \/ Descend \/ EraseMiss \/ BoundFound \/ RankFound
             \/ \E k \in Key : Insert(k) \/ Erase(k)
    BY <2>2, <2>6 DEF Forward, Descend, EraseMiss, BoundFound, RankFound, Insert, Erase, Search
  <2> QED BY <1>6, <2>3, <2>4, <2>5, <2>6 DEF Call, Step
<1>7. CASE UNCHANGED <<vars, iterVars>>
  BY <1>7, WalkKeeps DEF vars, iterVars
<1> QED BY <1>3, <1>4, <1>5, <1>6, <1>7 DEF IterNext

-----------------------------------------------------------------------------
(* The theorems.                                                           *)

LEMMA IterInvKept == IterInv /\ [IterNext]_<<vars, iterVars>> => IterInv'
<1> SUFFICES ASSUME IterInv, [IterNext]_<<vars, iterVars>> PROVE IterInv'
  OBVIOUS
<1>1. List!IInv'
  <2>1. [List!Next]_(List!vars)
    BY StepMaps DEF IterInv
  <2> QED BY <2>1, List!NextInv, SkipListAssumption, Sentinels DEF IterInv
<1> QED BY <1>1, MemoryKept, LoopKept DEF IterInv

\* IterInv is inductive: from where a loop is, the links lead to every due node
\* and to none it has met, over whatever was inserted and erased meanwhile.
THEOREM IterInvariant == IterSpec => []IterInv
<1>1. IterInit => IterInv
  <2> SUFFICES ASSUME IterInit PROVE IterInv
    OBVIOUS
  <2>1. List!IInv
    BY InitMaps, List!InitInv, SkipListAssumption, Sentinels
  <2>2. Memory
    BY DEF IterInit, Init, Memory, Live
  <2>3. LoopInv
    BY DEF IterInit, LoopInv
  <2> QED BY <2>1, <2>2, <2>3 DEF IterInv
<1> QED BY <1>1, IterInvKept, PTL DEF IterSpec

\* Under loops the list, without the erased nodes that a loop may still reach, is
\* the list of SkipList: they never come back into it.
THEOREM ListUnderLoops == IterSpec => List!Spec
<1>1. IterInit => List!Init
  BY InitMaps
<1>2. IterInv /\ [IterNext]_<<vars, iterVars>> => [List!Next]_(List!vars)
  BY StepMaps DEF IterInv
<1> QED BY <1>1, <1>2, IterInvariant, PTL DEF IterSpec, List!Spec

\* So the calls made while loops run do what those of the sorted list do.
THEOREM SortedUnderLoops == IterSpec => List!ImplementsSortedList
<1>1. SkipListAssumption /\ Sentinels
  BY SkipListAssumption, Sentinels
<1>2. List!Spec => List!ImplementsSortedList
  BY <1>1, List!Refinement
<1> QED BY <1>2, ListUnderLoops

\* A loop that has come to its end has met every node that was in the list from
\* its beginning to its end.
THEOREM LoopMeetsAllHolds == IterSpec => []LoopMeetsAll
<1>1. IterInv => LoopMeetsAll
  BY Ends DEF IterInv, LoopInv, DueAhead, LoopMeetsAll
<1> QED BY <1>1, IterInvariant, PTL

\* No loop meets a node twice or a key out of order, even over erased nodes.
THEOREM LoopKeepsOrderHolds == IterSpec => LoopKeepsOrder
<1>1. IterInv => [Advance =>
                    /\ it' \notin met
                    /\ it' \in Node => IF forward THEN mKey[it] <= mKey[it'] ELSE mKey[it] >= mKey[it']
                 ]_<<vars, iterVars>>
  BY AdvanceKeeps
<1> QED BY <1>1, IterInvariant, PTL DEF LoopKeepsOrder
=============================================================================
