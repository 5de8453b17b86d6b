------------------------------ MODULE SkipList ------------------------------
(***************************************************************************)
(* SkipList of src/src/SkipList.h: a sorted list that allows equal keys.   *)
(* Every node has a forward pointer per level and the distance it skips,   *)
(* its span; the bottom level links every node, in both directions.        *)
(*                                                                         *)
(* All five searches walk alike: from the head, down from mMaxLevel,       *)
(* forward while the next node is not beyond the key.  A step of that loop *)
(* is an action (Forward, Descend), and so is what a method does at the    *)
(* place it found (InsertNode, EraseNode, ...).  The list has no lock: one *)
(* call runs at a time.                                                    *)
(*                                                                         *)
(* erase unlinks a node and never deletes it.  An erased node that nothing *)
(* reaches any more is forgotten here, so that its name may be used again. *)
(***************************************************************************)
EXTENDS Integers

CONSTANTS
  Key,
  Node,      (* Names of nodes; as many are in memory at most.             *)
  ZSKIPLIST_MAXLEVEL

Head == 0
Tail == -1
NullPtr == -2

ASSUME SkipListAssumption ==
  /\ Key \subseteq Int
  /\ {Head, Tail, NullPtr} \intersect Node = {}
  /\ ZSKIPLIST_MAXLEVEL \in Nat \ {0}

Level == 0 .. ZSKIPLIST_MAXLEVEL - 1

VARIABLES
  mKey,      (* The keys of the nodes; the constructor sets no sentinel's. *)
  mNexts,    (* mNexts[n][i] is the node behind n on level i.              *)
  mSpans,
  mBackword,
  mMaxLevel,
  mLength,
  pos,       (* History: the positions of the nodes in the list.           *)
  linked,    (* History: the nodes linked on each level up to mMaxLevel.   *)
  call,      (* The call that runs, with its local variables.              *)
  ret        (* The reply to the last call, NoReply while one is running.  *)

shape == <<mKey, mNexts, mSpans, mBackword, mMaxLevel, mLength, pos, linked>>
vars == <<shape, call, ret>>

Reply(op, k, answer) == [op |-> op, key |-> k, answer |-> answer]
NoReply == Reply("none", 0, 0)

\* The searches that stop before the nodes of the key; the others pass them.
NotLess == {"erase", "lower_bound"}

NoCall ==
  [op |-> "none", key |-> 0, level |-> 0, nd |-> Head, currLevel |-> -1, walked |-> 0,
   prevs |-> [i \in Level |-> NullPtr], ranks |-> [i \in Level |-> 0]]

Init ==
  /\ mKey = [n \in {} |-> 0]
  /\ mNexts = [n \in {Head} |-> [i \in {0} |-> Tail]]
  /\ mSpans = [n \in {Head} |-> [i \in {0} |-> 0]]
  /\ mBackword = [n \in {Tail} |-> Head]
  /\ mMaxLevel = 0 /\ mLength = 0
  /\ pos = [n \in {} |-> 0] /\ linked = [i \in Level |-> {}]
  /\ call = NoCall /\ ret = NoReply

-----------------------------------------------------------------------------
(* The walk.                                                               *)

\* Entering the search loop of a method.
Search(op, k, level) ==
  /\ call = NoCall
  /\ call' = [NoCall EXCEPT !.op = op, !.key = k, !.level = level, !.currLevel = mMaxLevel]
  /\ ret' = NoReply
  /\ UNCHANGED shape

\* Mutant: insert stops before the nodes of its key.
NotBeyond_Less(n) == n # Tail /\ mKey[n] < call.key

\* Mutant: insert's comparison turned round.
NotBeyond_Swapped(n) ==
  /\ n # Tail
  /\ IF call.op = "insert" THEN mKey[n] > call.key ELSE mKey[n] <= call.key

\* The test that ends the walk on a level, the other way round.
NotBeyond(n) ==
  /\ n # Tail
  /\ IF call.op \in NotLess THEN mKey[n] < call.key ELSE mKey[n] <= call.key

next == mNexts[call.nd][call.currLevel]

\* Mutant: nd stays where it is.
Forward_SameNode ==
  /\ call.currLevel >= 0
  /\ NotBeyond(next)
  /\ call' = [call EXCEPT !.walked = @ + mSpans[call.nd][call.currLevel]]
  /\ UNCHANGED <<shape, ret>>

\* insert and getRank add up the spans passed; the other methods ignore them.
Forward ==
  /\ call.currLevel >= 0
  /\ NotBeyond(next)
  /\ call' = [call EXCEPT !.nd = next,
                          !.walked = @ + mSpans[call.nd][call.currLevel]]
  /\ UNCHANGED <<shape, ret>>

\* Mutant: a level does not start with the rank of the level above.
Descend_RankLost ==
  /\ call.currLevel >= 0
  /\ ~NotBeyond(next)
  /\ call' =
       [call EXCEPT
          !.currLevel = @ - 1,
          !.walked = 0,
          !.prevs = [@ EXCEPT ![call.currLevel] = call.nd],
          !.ranks = [@ EXCEPT ![call.currLevel] = call.walked]]
  /\ UNCHANGED <<shape, ret>>

\* insert and erase keep the node where they leave a level, insert its rank too.
Descend ==
  /\ call.currLevel >= 0
  /\ ~NotBeyond(next)
  /\ call' =
       [call EXCEPT
          !.currLevel = @ - 1,
          !.prevs = IF call.op \in {"insert", "erase"}
                    THEN [@ EXCEPT ![call.currLevel] = call.nd] ELSE @,
          !.ranks = IF call.op = "insert"
                    THEN [@ EXCEPT ![call.currLevel] = call.walked] ELSE @]
  /\ UNCHANGED <<shape, ret>>

Arrived(ops) == call.op \in ops /\ call.currLevel = -1

Return(answer) ==
  /\ call' = NoCall
  /\ ret' = Reply(call.op, call.key, answer)

-----------------------------------------------------------------------------
(* insert.                                                                 *)

Free == Node \ DOMAIN mKey

\* Any level may come out of the random choice.
Insert(k) == Free # {} /\ \E level \in Level : Search("insert", k, level)

\* Mutant: levels the head has already are not reset.
Raised_Kept(levels, new) ==
  IF call.level > mMaxLevel
  THEN [i \in 0 .. call.level |-> IF i \notin DOMAIN levels THEN new ELSE levels[i]]
  ELSE levels

\* The head with a level for each of the new node's: resize cuts off the levels
\* above, which mMaxLevel has left.
Raised(levels, new) ==
  IF call.level > mMaxLevel
  THEN [i \in 0 .. call.level |-> IF i > mMaxLevel THEN new ELSE levels[i]]
  ELSE levels

\* Mutant: not for the tail, as if it had no mBackword.
SetBackword_NotTail(backs, to, n) == IF to = Tail THEN backs ELSE [backs EXCEPT ![to] = n]

\* Mutant: for the tail only.
SetBackword_TailOnly(backs, to, n) == IF to = Tail THEN [backs EXCEPT ![to] = n] ELSE backs

\* Node n comes before node `to'.
SetBackword(backs, to, n) == [backs EXCEPT ![to] = n]

\* n is the address of the new node.
InsertNode(n) ==
  LET prevs == [i \in Level |-> IF i > mMaxLevel THEN Head ELSE call.prevs[i]]
      nexts == [mNexts EXCEPT ![Head] = Raised(@, Tail)]
      spans == [mSpans EXCEPT ![Head] = Raised(@, mLength)]
      before(i) == call.ranks[0] - call.ranks[i]
      newMaxLevel == IF call.level > mMaxLevel THEN call.level ELSE mMaxLevel
      Relink(m, i) == IF i <= call.level /\ prevs[i] = m THEN n ELSE nexts[m][i]
      Respan(m, i) ==
        IF i > newMaxLevel \/ prevs[i] # m THEN spans[m][i]
        ELSE IF i <= call.level THEN before(i) + 1
        ELSE spans[m][i] + 1
  IN
  /\ Arrived({"insert"})
  /\ mKey' = [m \in DOMAIN mKey \union {n} |-> IF m = n THEN call.key ELSE mKey[m]]
  /\ mNexts' =
       [m \in DOMAIN mNexts \union {n} |->
          IF m = n THEN [i \in 0 .. call.level |-> nexts[prevs[i]][i]]
          ELSE [i \in DOMAIN nexts[m] |-> Relink(m, i)]]
  /\ mSpans' =
       [m \in DOMAIN mSpans \union {n} |->
          IF m = n THEN [i \in 0 .. call.level |-> spans[prevs[i]][i] - before(i)]
          ELSE [i \in DOMAIN spans[m] |-> Respan(m, i)]]
  /\ mBackword' =
       SetBackword([m \in DOMAIN mBackword \union {n} |-> IF m = n THEN prevs[0] ELSE mBackword[m]],
                   nexts[prevs[0]][0], n)
  /\ mMaxLevel' = newMaxLevel
  /\ mLength' = mLength + 1
  /\ pos' = [m \in DOMAIN pos \union {n} |->
               IF m = n THEN call.ranks[0] + 1
               ELSE IF pos[m] > call.ranks[0] THEN pos[m] + 1 ELSE pos[m]]
  /\ linked' =
       [i \in Level |-> IF i > call.level THEN linked[i]
                        ELSE IF i > mMaxLevel THEN {n}
                        ELSE linked[i] \union {n}]
  /\ Return(1)

-----------------------------------------------------------------------------
(* erase.                                                                  *)

Erase(k) == Search("erase", k, 0)

Found == mNexts[call.nd][0]
Hit == Found # Tail /\ mKey[Found] = call.key

EraseMiss ==
  /\ Arrived({"erase"})
  /\ ~Hit
  /\ Return(0)
  /\ UNCHANGED shape

\* Mutant: the loop does not stop at level 0.
Shrunk_BelowZero(nexts) ==
  CHOOSE l \in -1 .. mMaxLevel :
    /\ l = -1 \/ nexts[Head][l] # Tail
    /\ \A i \in l + 1 .. mMaxLevel : nexts[Head][i] = Tail

\* The highest level that still links a node, from mMaxLevel down.
Shrunk(nexts) ==
  CHOOSE l \in 0 .. mMaxLevel :
    /\ l = 0 \/ nexts[Head][l] # Tail
    /\ \A i \in l + 1 .. mMaxLevel : nexts[Head][i] = Tail

\* `held': the client has an iterator, which may reach the erased node.
EraseNode(held) ==
  LET x == Found
      Kept(nodes) == IF held THEN nodes ELSE nodes \ {x}
      Leads(m, i) == i <= mMaxLevel /\ call.prevs[i] = m
      Relink(m, i) ==
        IF Leads(m, i) /\ mNexts[m][i] = x THEN mNexts[x][i] ELSE mNexts[m][i]
      Respan(m, i) ==
        IF ~Leads(m, i) THEN mSpans[m][i]
        ELSE IF mNexts[m][i] = x THEN mSpans[m][i] + mSpans[x][i] - 1
        ELSE mSpans[m][i] - 1
  IN
  /\ Arrived({"erase"})
  /\ Hit
  /\ mKey' = [m \in Kept(DOMAIN mKey) |-> mKey[m]]
  /\ mNexts' = [m \in Kept(DOMAIN mNexts) |-> [i \in DOMAIN mNexts[m] |-> Relink(m, i)]]
  /\ mSpans' = [m \in Kept(DOMAIN mSpans) |-> [i \in DOMAIN mSpans[m] |-> Respan(m, i)]]
  /\ mBackword' = SetBackword([m \in Kept(DOMAIN mBackword) |-> mBackword[m]],
                              mNexts[x][0], call.prevs[0])
  /\ mMaxLevel' = Shrunk(mNexts')
  /\ mLength' = mLength - 1
  /\ pos' = [m \in DOMAIN pos \ {x} |-> IF pos[m] > pos[x] THEN pos[m] - 1 ELSE pos[m]]
  /\ linked' = [i \in Level |-> IF i <= mMaxLevel' THEN linked[i] \ {x} ELSE {}]
  /\ Return(1)

-----------------------------------------------------------------------------
(* Queries and setMaxLevel.                                                *)

\* What isInRange may return: in an empty list it compares with the keys of the
\* sentinels, which no one has set.
isInRange(k) ==
  IF mNexts[Head][0] = Tail THEN BOOLEAN
  ELSE {k >= mKey[mNexts[Head][0]] /\ k <= mKey[mBackword[Tail]]}

Bound(op, k) ==
  \/ TRUE \in isInRange(k) /\ Search(op, k, 0)
  \/ /\ call = NoCall
     /\ FALSE \in isInRange(k)
     /\ ret' = Reply(op, k, NullPtr)
     /\ UNCHANGED <<shape, call>>

BoundFound ==
  /\ Arrived({"lower_bound", "upper_bound"})
  /\ Return(mNexts[call.nd][0])
  /\ UNCHANGED shape

GetRank(k) == Search("getRank", k, 0)

\* At the head nothing was passed, whatever the key of the head is.
RankFound ==
  /\ Arrived({"getRank"})
  /\ Return(IF call.nd # Head /\ mKey[call.nd] = call.key THEN call.walked ELSE 0)
  /\ UNCHANGED shape

\* Clients lower the level at most: the head has no pointers above it.
SetMaxLevel(ml) ==
  /\ call = NoCall
  /\ ml <= mMaxLevel
  /\ mMaxLevel' = ml
  /\ linked' = [i \in Level |-> IF i <= ml THEN linked[i] ELSE {}]
  /\ UNCHANGED <<mKey, mNexts, mSpans, mBackword, mLength, pos, call, ret>>

-----------------------------------------------------------------------------

Start ==
  \/ \E k \in Key :
       Insert(k) \/ Erase(k) \/ Bound("lower_bound", k) \/ Bound("upper_bound", k) \/ GetRank(k)
  \/ \E ml \in Level : SetMaxLevel(ml)

Step(held) ==
  \/ Forward \/ Descend
  \/ \E n \in Free : InsertNode(n)
  \/ EraseMiss \/ EraseNode(held)
  \/ BoundFound \/ RankFound

Next == Start \/ Step(FALSE)

Spec == Init /\ [][Next]_vars

-----------------------------------------------------------------------------
(* Properties.                                                             *)

Live == DOMAIN pos

TypeOK ==
  /\ DOMAIN mKey \subseteq Node
  /\ mKey \in [DOMAIN mKey -> Key]
  /\ DOMAIN mNexts = {Head} \union DOMAIN mKey
  /\ DOMAIN mSpans = {Head} \union DOMAIN mKey
  /\ \A n \in DOMAIN mNexts :
       \E h \in Level : mNexts[n] \in [0 .. h -> {Tail} \union Node] /\ mSpans[n] \in [0 .. h -> Nat]
  /\ mBackword \in [{Tail} \union DOMAIN mKey -> {Head} \union Node]
  /\ mMaxLevel \in Level
  /\ mLength \in Nat
  /\ Live \subseteq DOMAIN mKey
  /\ linked \in [Level -> SUBSET Live]
  /\ call.nd \in DOMAIN mNexts
  /\ call.currLevel \in Level \union {-1}
  /\ call.prevs \in [Level -> {NullPtr} \union DOMAIN mNexts]
  /\ call.ranks \in [Level -> Nat]

\* The list is sorted, and equal keys keep the order of their insertion (SortedList).
At(n) == IF n = Head THEN 0 ELSE IF n = Tail THEN mLength + 1 ELSE pos[n]

\* Between calls and during walks, each level links its nodes in the order of the
\* list, on a level the next node has.  Lowering mMaxLevel and erasing leave stale
\* links and spans above it and in erased nodes; none of them is linked in again.
LevelsLinkInOrder ==
  \A i \in 0 .. mMaxLevel : \A n \in linked[i] \union {Head} :
    /\ i \in DOMAIN mNexts[n]
    /\ mNexts[n][i] \in linked[i] \union {Tail}
    /\ At(n) < At(mNexts[n][i])
    /\ \A m \in linked[i] : ~(At(n) < At(m) /\ At(m) < At(mNexts[n][i]))

\* A span is the distance its pointer goes, where the tail does not count.
SpansAreDistances ==
  \A i \in 0 .. mMaxLevel : \A n \in linked[i] \union {Head} :
    mSpans[n][i] = (IF mNexts[n][i] = Tail THEN mLength ELSE pos[mNexts[n][i]]) - At(n)

\* On the bottom level, which links every node, prev() undoes next().
BackwardInverts ==
  /\ linked[0] = Live
  /\ \A n \in Live \union {Head} : mBackword[mNexts[n][0]] = n

\* What the list holds at each position.
entries ==
  [p \in 1 .. mLength |->
     LET n == CHOOSE m \in Live : pos[m] = p IN [node |-> n, key |-> mKey[n]]]

\* Calls do to the list, and answer, what the sorted list of SortedList does.
Abstract == INSTANCE SortedList WITH length <- mLength, at <- entries
ImplementsSortedList == Abstract!Spec

\* Every walk ends: a step along a level leads on in the list, so after at most
\* mLength of them, and one step down per level, the walk has arrived.
WalkAdvances ==
  [][Forward => At(call.nd) < At(call'.nd) /\ call'.nd # Tail]_vars
=============================================================================
