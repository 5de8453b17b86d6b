------------------------- MODULE QueueProgramProofs -------------------------
(***************************************************************************)
(* Proofs about ConcurrentQueue and QueueProgram.                          *)
(*                                                                         *)
(* The first part is about the queue, for any finite number of threads,    *)
(* any values and sizes and any clients.  Its inductive invariant is IInv: *)
(* the types, who may own the mutex or sleep, and that no wakeup is lost.  *)
(* The refinement of FifoQueue needs its first two parts only.  Nothing of *)
(* the program is used there, and the assumption of QueueProgram leaves    *)
(* the constants of the queue free (no producers, no consumers, no items). *)
(*                                                                         *)
(* The second part is about the program, for any number of producers,      *)
(* consumers and values.  EveryValueOnce and ProducerOrder follow from     *)
(* ProgramInv: the invariant of the queue, what each thread may be         *)
(* calling, the order of the values of one producer, and that the values   *)
(* received or queued are just those pushed.                               *)
(***************************************************************************)
EXTENDS QueueProgram, FiniteSetTheorems, TLAPS

-----------------------------------------------------------------------------
(* The queue.                                                              *)

IInv == TypeOK /\ OwnersAndSleepers /\ NoLostWakeup

-----------------------------------------------------------------------------
(* Facts about calls, sequences and sets of threads.                       *)

\* The argument of a call fits its method.
LEMMA CallArguments ==
  ASSUME NEW c \in AllCalls
  PROVE  /\ c.op \in {"tryPush", "waitPush"} => c.arg \in Value
         /\ c.op = "setMaxSize" => c.arg \in MaxSize
         /\ c.op \in {d.op : d \in AllCalls}
  BY DEF AllCalls

\* What an append and a pop do to a sequence of values.
LEMMA SequenceFacts ==
  /\ <<>> \in Seq(Value) /\ Len(<<>>) = 0
  /\ \A s \in Seq(Value) :
       /\ Len(s) \in Nat
       /\ \A v \in Value : Append(s, v) \in Seq(Value) /\ Len(Append(s, v)) = Len(s) + 1
       /\ s # <<>> => /\ Head(s) \in Value
                      /\ Tail(s) \in Seq(Value) /\ Len(Tail(s)) = Len(s) - 1
  OBVIOUS

\* Sets of threads are finite, so that Awake can be counted.
LEMMA ThreadSets ==
  ASSUME NEW S, S \subseteq Thread
  PROVE  IsFiniteSet(S) /\ Cardinality(S) \in Nat
  BY QueueAssumption, FS_Subset, FS_CardinalityType

\* In particular the awake threads.
LEMMA AwakeFinite == IsFiniteSet(Awake) /\ Cardinality(Awake) \in Nat
<1>1. Awake \subseteq Thread
  BY DEF Awake
<1> QED BY <1>1, ThreadSets

\* Of two sets of threads, the larger one has no fewer members.
LEMMA ThreadSetsGrow ==
  ASSUME NEW S, NEW T, T \subseteq Thread, S \subseteq T
  PROVE  Cardinality(S) <= Cardinality(T)
  BY ThreadSets, FS_Subset

\* The owner of the mutex is in a method, and in a body of just that method.
LEMMA OwnerInCall ==
  ASSUME TypeOK, OwnersAndSleepers, NEW t \in Thread, mMutex = t
  PROVE  call[t] \in AllCalls /\ t \notin mCond /\ mMutex # NoThread
  BY QueueAssumption DEF TypeOK, OwnersAndSleepers

-----------------------------------------------------------------------------
(* Type correctness, and who owns and who sleeps.                          *)

\* The invariant holds at first: nobody sleeps and nobody owns the mutex.
LEMMA InitIInv == ASSUME Init PROVE IInv
<1>1. TypeOK
  BY SequenceFacts DEF Init, TypeOK, Answer
<1> QED BY <1>1, QueueAssumption DEF Init, IInv, OwnersAndSleepers, NoLostWakeup

\* A return leaves a well-typed answer.
LEMMA ReturnType ==
  ASSUME TypeOK, OwnersAndSleepers, NEW t \in Thread, mMutex = t,
         NEW ok \in BOOLEAN, NEW v \in Value \union Nat \union {NoValue},
         Return(t, ok, v)
  PROVE  /\ mMutex' \in Thread \union {NoThread}
         /\ call' \in [Thread -> AllCalls \union {NoCall}]
         /\ ret' \in [thread : Thread \union {NoThread},
                      op : {c.op : c \in AllCalls} \union {"none"},
                      ok : BOOLEAN, value : Value \union Nat \union {NoValue}]
<1>1. call[t].op \in {c.op : c \in AllCalls}
  BY OwnerInCall, CallArguments
<1> QED BY <1>1 DEF Return, Answer, TypeOK

\* A push leaves a sequence of values, and wakes at most one sleeper.
LEMMA EmplaceType ==
  ASSUME TypeOK, NEW v \in Value, Emplace(v)
  PROVE  mData' \in Seq(Value) /\ mCond' \subseteq mCond
  BY SequenceFacts DEF TypeOK, Emplace, NotifyOne

\* Every method keeps the types.
LEMMA BodyType ==
  ASSUME TypeOK, OwnersAndSleepers, NEW t \in Thread, Body(t)
  PROVE  TypeOK'
<1> USE OwnerInCall, CallArguments DEF Holds
<1>1. CASE tryPush(t)
  BY <1>1, ReturnType, EmplaceType DEF tryPush, TypeOK
<1>2. CASE waitPush(t)
  BY <1>2, ReturnType, EmplaceType DEF waitPush, TypeOK
<1>3. CASE waitPop(t)
  BY <1>3, ReturnType, SequenceFacts DEF waitPop, TypeOK
<1>4. CASE tryPop(t)
  BY <1>4, ReturnType, SequenceFacts DEF tryPop, TypeOK
<1>5. CASE setMaxSize(t)
  BY <1>5, ReturnType DEF setMaxSize, TypeOK
<1>6. CASE observe(t)
  <2> SUFFICES ASSUME NEW ok \in BOOLEAN, NEW v \in Value \union Nat \union {NoValue},
                      mMutex = t, Return(t, ok, v), UNCHANGED <<mData, mMaxSize, mCond>>
               PROVE  TypeOK'
    <3>1. Len(mData) \in Nat /\ mMaxSize \in Nat /\ (mData # <<>> => Head(mData) \in Value)
      BY SequenceFacts, QueueAssumption DEF TypeOK
    <3> QED BY <1>6, <3>1 DEF observe, front, empty, getSize, getMaxSize
  <2> QED BY ReturnType DEF TypeOK
<1> QED BY <1>1, <1>2, <1>3, <1>4, <1>5, <1>6 DEF Body

\* A body releases the mutex, and only that of waitPop puts its thread to sleep.
LEMMA BodyOwners ==
  ASSUME TypeOK, OwnersAndSleepers, NEW t \in Thread, Body(t)
  PROVE  OwnersAndSleepers'
<1>1. t \notin mCond /\ call[t] \in AllCalls /\ mMutex = t
  BY OwnerInCall DEF Body, Holds, tryPush, waitPush, waitPop, tryPop, setMaxSize,
     observe, front, empty, getSize, getMaxSize
<1>2. CASE waitPop(t) /\ mData = <<>>
  BY <1>1, <1>2, QueueAssumption DEF waitPop, Holds, OwnersAndSleepers, TypeOK
<1>3. CASE waitPush(t) /\ UNCHANGED <<mCond, call>> /\ mMutex' = NoThread
  BY <1>3 DEF OwnersAndSleepers
<1>4. CASE mCond' \subseteq mCond /\ call' = [call EXCEPT ![t] = NoCall]
           /\ mMutex' = NoThread
  BY <1>1, <1>4 DEF OwnersAndSleepers, TypeOK
<1> QED BY <1>2, <1>3, <1>4 DEF Body, tryPush, waitPush, waitPop, tryPop, setMaxSize,
        observe, front, empty, getSize, getMaxSize, Return, Emplace, NotifyOne

-----------------------------------------------------------------------------
(* No wakeup is lost.                                                      *)

\* A push that finds a sleeper makes one more thread awake for its value.
LEMMA EmplaceWakes ==
  ASSUME IInv, NEW t \in Thread, mMutex = t, call[t].op # "waitPop",
         NEW v \in Value, Emplace(v), NEW ok, Return(t, ok, NoValue)
  PROVE  NoLostWakeup'
<1>1. CASE mCond = {}
  BY <1>1 DEF Emplace, NotifyOne, NoLostWakeup
<1>2. CASE mCond # {}
  <2>1. PICK s \in mCond : mCond' = mCond \ {s}
    BY <1>2 DEF Emplace, NotifyOne
  <2>2. Awake' = Awake \union {s} /\ s \notin Awake
    BY <2>1 DEF IInv, TypeOK, OwnersAndSleepers, Awake, Return
  <2>3. Cardinality(Awake') = Cardinality(Awake) + 1
    BY <2>2, AwakeFinite, FS_AddElement
  <2>4. Cardinality(Awake) \in Nat
    BY AwakeFinite
  <2>5. Len(mData') = Len(mData) + 1 /\ Len(mData) \in Nat
    BY SequenceFacts DEF Emplace, IInv, TypeOK
  <2> QED BY <1>2, <2>3, <2>4, <2>5 DEF IInv, NoLostWakeup
<1> QED BY <1>1, <1>2

\* Steps that make no value, put nobody to sleep and take no thread out of Awake.
LEMMA AwakeGrows ==
  ASSUME IInv, TypeOK', mCond' \subseteq mCond, Awake \subseteq Awake',
         Len(mData') <= Len(mData)
  PROVE  NoLostWakeup'
<1>1. Cardinality(Awake) <= Cardinality(Awake') /\ Cardinality(Awake) \in Nat
      /\ Cardinality(Awake') \in Nat
  BY ThreadSets, ThreadSetsGrow DEF Awake
<1>2. Len(mData) \in Nat /\ Len(mData') \in Nat
  BY SequenceFacts DEF IInv, TypeOK
<1> QED BY <1>1, <1>2 DEF IInv, NoLostWakeup

\* No method loses a wakeup.
LEMMA BodyWakeup ==
  ASSUME IInv, NEW t \in Thread, Body(t)
  PROVE  NoLostWakeup'
<1>1. /\ TypeOK /\ OwnersAndSleepers /\ TypeOK'
      /\ Len(mData) \in Nat
  BY BodyType, SequenceFacts DEF IInv, TypeOK
<1>2. CASE (tryPush(t) \/ waitPush(t)) /\ ~ Full
  BY <1>1, <1>2, EmplaceWakes, OwnerInCall, CallArguments DEF tryPush, waitPush, Holds
<1>3. CASE waitPush(t) /\ Full
  BY <1>1, <1>3, AwakeGrows DEF waitPush, Awake
<1>4. CASE waitPop(t) /\ mData = <<>>
  <2>1. Len(mData') = 0
    BY <1>4, SequenceFacts DEF waitPop
  <2>2. Cardinality(Awake') \in Nat
    BY ThreadSets DEF Awake
  <2> QED BY <2>1, <2>2 DEF NoLostWakeup
<1>5. CASE waitPop(t) /\ mData # <<>>
  <2>1. Awake' = Awake \ {t} /\ t \in Awake
    <3>1. call[t].op = "waitPop" /\ mMutex = t /\ mCond' = mCond
          /\ call' = [call EXCEPT ![t] = NoCall]
      BY <1>5 DEF waitPop, Holds, Return
    <3>2. call[t] \in AllCalls /\ t \notin mCond
      BY <1>1, <3>1, OwnerInCall
    <3>3. \A u \in Thread : call'[u] = IF u = t THEN NoCall ELSE call[u]
      BY <1>1, <3>1 DEF TypeOK
    <3> QED BY <3>1, <3>2, <3>3, QueueAssumption DEF Awake
  <2>2. Cardinality(Awake') = Cardinality(Awake) - 1 /\ Cardinality(Awake) \in Nat
    BY <2>1, AwakeFinite, FS_RemoveElement
  <2>3. Len(mData') = Len(mData) - 1 /\ mCond' = mCond
    BY <1>1, <1>5, SequenceFacts DEF waitPop, TypeOK
  <2> QED BY <1>1, <2>2, <2>3 DEF IInv, NoLostWakeup
<1>6. CASE \/ tryPop(t) \/ setMaxSize(t) \/ observe(t)
           \/ tryPush(t) /\ Full
  <2>1. call[t].op # "waitPop" /\ call' = [call EXCEPT ![t] = NoCall] /\ mCond' = mCond
    BY <1>6 DEF tryPop, setMaxSize, observe, front, empty, getSize, getMaxSize, tryPush,
       Holds, Return
  <2>2. Awake \subseteq Awake'
    BY <1>1, <2>1 DEF Awake, TypeOK
  <2>3. Len(mData') <= Len(mData)
    <3>1. CASE mData' = mData
      BY <1>1, <3>1
    <3>2. CASE mData # <<>> /\ mData' = Tail(mData)
      BY <1>1, <3>2, SequenceFacts DEF TypeOK
    <3> QED BY <1>6, <3>1, <3>2 DEF tryPop, setMaxSize, observe, tryPush, Full
  <2> QED BY <1>1, <2>1, <2>2, <2>3, AwakeGrows
<1> QED BY <1>2, <1>3, <1>4, <1>5, <1>6 DEF Body, tryPush, waitPush

-----------------------------------------------------------------------------
(* Theorems.                                                               *)

\* Entering a method, whichever it is, keeps the invariant.
LEMMA InvokeKeeps ==
  ASSUME IInv, NEW t \in Thread, NEW c \in AllCalls, Invoke(t, c)
  PROVE  IInv'
<1> USE DEF IInv
<1>1. TypeOK' /\ OwnersAndSleepers'
  BY QueueAssumption DEF Invoke, TypeOK, OwnersAndSleepers
<1>2. Awake \subseteq Awake'
  BY QueueAssumption DEF Invoke, Awake, TypeOK
<1>3. Len(mData') <= Len(mData)
  BY SequenceFacts DEF Invoke, TypeOK
<1> QED BY <1>1, <1>2, <1>3, AwakeGrows DEF Invoke

\* So do taking the mutex, running a body and waking up.
LEMMA ThreadKeeps ==
  ASSUME IInv, NEW t \in Thread, Lock(t) \/ Body(t) \/ SpuriousWakeup(t)
  PROVE  IInv'
<1> USE DEF IInv
<1>1. CASE Lock(t)
  BY <1>1 DEF Lock, TypeOK, OwnersAndSleepers, NoLostWakeup, Awake
<1>2. CASE Body(t)
  BY <1>2, BodyType, BodyOwners, BodyWakeup
<1>3. CASE SpuriousWakeup(t)
  <2>1. TypeOK' /\ OwnersAndSleepers'
    BY <1>3 DEF SpuriousWakeup, TypeOK, OwnersAndSleepers
  <2>2. Awake \subseteq Awake'
    BY <1>3 DEF SpuriousWakeup, Awake
  <2>3. Len(mData') <= Len(mData)
    BY <1>3, SequenceFacts DEF SpuriousWakeup, TypeOK
  <2> QED BY <1>3, <2>1, <2>2, <2>3, AwakeGrows DEF SpuriousWakeup
<1> QED BY <1>1, <1>2, <1>3

\* And a step that changes nothing.
LEMMA StutterKeeps == ASSUME IInv, UNCHANGED vars PROVE IInv'
  BY DEF IInv, vars, TypeOK, OwnersAndSleepers, NoLostWakeup, Awake

\* The invariant is inductive.
THEOREM QueueInvariant == Spec => []IInv
<1>1. ASSUME IInv, [Next]_vars PROVE IInv'
  BY <1>1, QueueAssumption, InvokeKeeps, ThreadKeeps, StutterKeeps DEF Next
<1> QED BY <1>1, InitIInv, PTL DEF Spec

\* Whatever is called by however many threads, the members of the queue and its
\* answers keep their types.
THEOREM QueueTypeCorrect == Spec => []TypeOK
  BY QueueInvariant, PTL DEF IInv

\* The owner of the mutex is awake and in a method; sleepers are in waitPop.
THEOREM OwnersHold == Spec => []OwnersAndSleepers
  BY QueueInvariant, PTL DEF IInv

\* One notify_one per push is enough for any number of waiting threads: while
\* a thread sleeps, each value in the queue has an awake thread coming for it.
THEOREM NoLostWakeupHolds == Spec => []NoLostWakeup
  BY QueueInvariant, PTL DEF IInv

\* Every call that returns took effect in one instant, as the FIFO queue of
\* module FifoQueue has it, and no other step changes the queue.
THEOREM QueueRefinement == Spec => ImplementsFifo
<1>1. Init => F!Init
  BY DEF Init, F!Init, Answer, F!Answer
<1>2. ASSUME IInv, [Next]_vars
      PROVE  F!Next \/ UNCHANGED <<mData, mMaxSize, ret>>
  <2> USE DEF Holds, Return, Answer, F!Answer
  <2>1. TypeOK /\ OwnersAndSleepers
    BY <1>2 DEF IInv
  <2>2. ASSUME NEW t \in Thread, tryPush(t) \/ waitPush(t)
        PROVE  F!Push(t) \/ F!Refuse(t) \/ UNCHANGED <<mData, mMaxSize, ret>>
    <3>1. call[t].arg \in Value /\ Len(mData) \in Nat /\ mMaxSize \in Nat
      BY <2>1, <2>2, OwnerInCall, CallArguments, SequenceFacts, QueueAssumption
         DEF tryPush, waitPush, TypeOK
    <3>2. CASE Full
      BY <2>2, <3>1, <3>2 DEF tryPush, waitPush, Full, F!Refuse
    <3>3. CASE ~ Full
      BY <2>2, <3>1, <3>3 DEF tryPush, waitPush, Full, Emplace, F!Push
    <3> QED BY <3>2, <3>3
  <2>3. ASSUME NEW t \in Thread, waitPop(t) \/ tryPop(t)
        PROVE  F!Pop(t) \/ F!Refuse(t) \/ UNCHANGED <<mData, mMaxSize, ret>>
    BY <2>3 DEF waitPop, tryPop, F!Pop, F!Refuse
  <2>4. ASSUME NEW t \in Thread, setMaxSize(t) PROVE F!SetMaxSize(t)
    BY <2>1, <2>4, OwnerInCall, CallArguments DEF setMaxSize, F!SetMaxSize
  <2>5. ASSUME NEW t \in Thread, observe(t) PROVE F!Observe(t)
    BY <2>5 DEF observe, front, empty, getSize, getMaxSize, F!Observe
  <2>6. ASSUME NEW t \in Thread,
               (\E c \in Call : Invoke(t, c)) \/ Lock(t) \/ SpuriousWakeup(t)
        PROVE  UNCHANGED <<mData, mMaxSize, ret>>
    BY <2>6 DEF Invoke, Lock, SpuriousWakeup
  <2> QED BY <1>2, <2>2, <2>3, <2>4, <2>5, <2>6 DEF Next, Body, vars, F!Next
<1> QED BY <1>1, <1>2, QueueInvariant, PTL
        DEF Spec, ImplementsFifo, F!Spec, F!fifoVars

-----------------------------------------------------------------------------
(* The program.                                                            *)

\* The values that the producers make.
Produced == Producer \X (0 .. Items - 1)

\* A producer waits with its newest value; a consumer pops or asks the size; no
\* other thread calls anything.
ThreadCalls ==
  /\ mData \in Seq(Produced)
  /\ \A t \in Thread : t \in Producer \union Consumer \/ call[t] = NoCall
  /\ sent \in [Producer -> 0 .. Items]
  /\ received \in [Consumer -> Seq(Produced)]
  /\ \A p \in Producer : call[p] # NoCall =>
       sent[p] > 0 /\ call[p] = [op |-> "waitPush", arg |-> <<p, sent[p] - 1>>]
  /\ \A c \in Consumer : call[c] # NoCall => call[c].op \in {"waitPop", "getSize"}

\* Of two values of one producer, v was pushed before w.
Before(v, w) == v[1] = w[1] => v[2] < w[2]

QueueOrder ==
  \A i, j \in DOMAIN mData : i < j => Before(mData[i], mData[j])

ConsumerOrder ==
  \A c \in Consumer : \A i, j \in DOMAIN received[c] :
    i < j => Before(received[c][i], received[c][j])

ReceivedFirst ==
  \A c \in Consumer : \A i \in DOMAIN received[c], j \in DOMAIN mData :
    Before(received[c][i], mData[j])

\* No two consumers received the same value.
ConsumersApart ==
  \A c, d \in Consumer : c # d =>
    \A i \in DOMAIN received[c], j \in DOMAIN received[d] :
      received[c][i] # received[d][j]

\* What was pushed is what was received and what is queued.
NothingLost ==
  \A p \in Producer :
    ReceivedBy(p) \union Numbers(p, mData) = 0 .. (Pushed(p) - 1)

ProgramInv ==
  /\ IInv /\ ThreadCalls
  /\ QueueOrder /\ ConsumerOrder /\ ReceivedFirst /\ ConsumersApart
  /\ NothingLost
  /\ Len(mData) <= mMaxSize

-----------------------------------------------------------------------------
(* Facts about values and sequences of them.                               *)

\* A value is the pair of its producer and its number.
LEMMA ValueParts ==
  ASSUME NEW v \in Produced
  PROVE  v[1] \in Producer /\ v[2] \in Nat /\ v = <<v[1], v[2]>>
  BY ProgramAssumption DEF Produced

\* Where the elements of a sequence are after an append.
LEMMA AppendAt ==
  ASSUME NEW s \in Seq(Produced), NEW v \in Produced
  PROVE  /\ Append(s, v) \in Seq(Produced)
         /\ DOMAIN s = 1 .. Len(s) /\ Len(s) \in Nat
         /\ Len(Append(s, v)) = Len(s) + 1
         /\ DOMAIN Append(s, v) = 1 .. (Len(s) + 1)
         /\ \A i \in DOMAIN Append(s, v) :
              \/ i \in DOMAIN s /\ i \in Nat /\ i <= Len(s) /\ Append(s, v)[i] = s[i]
              \/ i = Len(s) + 1 /\ Append(s, v)[i] = v
         /\ \A i \in DOMAIN s : i \in DOMAIN Append(s, v) /\ Append(s, v)[i] = s[i]
         /\ Len(s) + 1 \in DOMAIN Append(s, v) /\ Append(s, v)[Len(s) + 1] = v
  OBVIOUS

\* And when the first is taken away.
LEMMA TailAt ==
  ASSUME NEW s \in Seq(Produced), s # <<>>
  PROVE  /\ Tail(s) \in Seq(Produced) /\ Head(s) \in Produced
         /\ 1 \in DOMAIN s /\ s[1] = Head(s)
         /\ Len(Tail(s)) = Len(s) - 1 /\ Len(s) \in Nat
         /\ \A i \in DOMAIN Tail(s) :
              i \in Nat /\ i > 0 /\ i + 1 \in DOMAIN s /\ Tail(s)[i] = s[i + 1]
         /\ \A i \in DOMAIN s : i \in Nat /\ (i = 1 \/ (i > 1 /\ i - 1 \in DOMAIN Tail(s)))
  OBVIOUS

\* Numbers(p, s) has n just when the pair of p and n is in s.
LEMMA NumbersMember ==
  ASSUME NEW p, NEW n, NEW s \in Seq(Produced)
  PROVE  n \in Numbers(p, s) <=> \E i \in DOMAIN s : s[i] = <<p, n>>
<1>1. \A i \in DOMAIN s : s[i] \in Produced
  OBVIOUS
<1> QED BY <1>1, ValueParts DEF Numbers

\* A value appended adds its number to those of its producer.
LEMMA NumbersAppend ==
  ASSUME NEW p, NEW s \in Seq(Produced), NEW v \in Produced
  PROVE  Numbers(p, Append(s, v)) = Numbers(p, s) \union (IF v[1] = p THEN {v[2]} ELSE {})
<1> SUFFICES ASSUME NEW n
             PROVE  n \in Numbers(p, Append(s, v)) <=>
                      n \in Numbers(p, s) \/ v = <<p, n>>
  BY ValueParts
<1>1. (\E i \in DOMAIN Append(s, v) : Append(s, v)[i] = <<p, n>>) <=>
        (\E i \in DOMAIN s : s[i] = <<p, n>>) \/ v = <<p, n>>
  <2>1. ASSUME NEW i \in DOMAIN Append(s, v), Append(s, v)[i] = <<p, n>>
        PROVE  (\E k \in DOMAIN s : s[k] = <<p, n>>) \/ v = <<p, n>>
    <3>1. \/ i \in DOMAIN s /\ Append(s, v)[i] = s[i]
          \/ Append(s, v)[i] = v
      BY AppendAt
    <3> QED BY <2>1, <3>1
  <2>2. ASSUME NEW i \in DOMAIN s, s[i] = <<p, n>>
        PROVE  \E k \in DOMAIN Append(s, v) : Append(s, v)[k] = <<p, n>>
    <3>1. i \in DOMAIN Append(s, v) /\ Append(s, v)[i] = <<p, n>>
      BY <2>2, AppendAt
    <3> QED BY <3>1
  <2>3. ASSUME v = <<p, n>>
        PROVE  \E k \in DOMAIN Append(s, v) : Append(s, v)[k] = <<p, n>>
    <3>1. Len(s) + 1 \in DOMAIN Append(s, v) /\ Append(s, v)[Len(s) + 1] = <<p, n>>
      BY <2>3, AppendAt
    <3> QED BY <3>1
  <2> QED BY <2>1, <2>2, <2>3
<1> QED BY <1>1, AppendAt, NumbersMember

\* A value taken from the front takes its number away at most.
LEMMA NumbersTail ==
  ASSUME NEW p, NEW s \in Seq(Produced), s # <<>>
  PROVE  Numbers(p, s) = Numbers(p, Tail(s)) \union (IF Head(s)[1] = p THEN {Head(s)[2]} ELSE {})
<1> SUFFICES ASSUME NEW n
             PROVE  n \in Numbers(p, s) <=>
                      n \in Numbers(p, Tail(s)) \/ Head(s) = <<p, n>>
  BY TailAt, ValueParts
<1>1. (\E i \in DOMAIN s : s[i] = <<p, n>>) <=>
        (\E i \in DOMAIN Tail(s) : Tail(s)[i] = <<p, n>>) \/ Head(s) = <<p, n>>
  <2>1. ASSUME NEW i \in DOMAIN s, s[i] = <<p, n>>
        PROVE  (\E k \in DOMAIN Tail(s) : Tail(s)[k] = <<p, n>>) \/ Head(s) = <<p, n>>
    <3>1. i = 1 \/ (i - 1 \in DOMAIN Tail(s) /\ Tail(s)[i - 1] = s[i])
      BY TailAt
    <3> QED BY <2>1, <3>1, TailAt
  <2> QED BY <2>1, TailAt
<1> QED BY <1>1, TailAt, NumbersMember

\* Pushed(p) is the number of the value a waiting producer waits with.
LEMMA PushedType ==
  ASSUME ThreadCalls, NEW p \in Producer
  PROVE  Pushed(p) \in Nat /\ sent[p] \in Nat
<1>1. sent[p] \in 0 .. Items /\ (call[p] # NoCall => sent[p] > 0)
  BY DEF ThreadCalls
<1>2. sent[p] \in Nat /\ (call[p] # NoCall => sent[p] - 1 \in Nat)
  BY <1>1, ProgramAssumption
<1> QED BY <1>2 DEF Pushed

\* A value that is queued or was received had been pushed.
LEMMA InUse ==
  ASSUME IInv, ThreadCalls, NothingLost
  PROVE  /\ \A j \in DOMAIN mData : mData[j] \in Produced /\ mData[j][2] < Pushed(mData[j][1])
         /\ \A c \in Consumer : \A i \in DOMAIN received[c] :
              received[c][i] \in Produced /\ received[c][i][2] < Pushed(received[c][i][1])
<1>1. mData \in Seq(Produced)
  BY DEF ThreadCalls
<1>2. ASSUME NEW v \in Produced, v[2] \in ReceivedBy(v[1]) \union Numbers(v[1], mData)
      PROVE  v[2] < Pushed(v[1])
  BY <1>2, ValueParts, PushedType DEF NothingLost
<1>3. ASSUME NEW j \in DOMAIN mData
      PROVE  mData[j] \in Produced /\ mData[j][2] < Pushed(mData[j][1])
  <2>1. mData[j] \in Produced
    BY <1>1
  <2> QED BY <1>1, <1>2, <2>1, NumbersMember, ValueParts
<1>4. ASSUME NEW c \in Consumer, NEW i \in DOMAIN received[c]
      PROVE  received[c][i] \in Produced /\ received[c][i][2] < Pushed(received[c][i][1])
  <2>1. received[c] \in Seq(Produced) /\ received[c][i] \in Produced
    BY DEF ThreadCalls
  <2>2. received[c][i][2] \in Numbers(received[c][i][1], received[c])
    BY <2>1, NumbersMember, ValueParts
  <2> QED BY <1>2, <2>1, <2>2 DEF ReceivedBy
<1> QED BY <1>3, <1>4

-----------------------------------------------------------------------------
(* ProgramInv is inductive.                                                *)

\* The program starts with nothing pushed.
LEMMA InitProgram == ASSUME ProgramInit PROVE ProgramInv
<1>1. IInv /\ mData = <<>> /\ Len(mData) <= mMaxSize
  BY InitIInv, QueueAssumption DEF ProgramInit, Init
<1>2. ThreadCalls
  BY ProgramAssumption DEF ProgramInit, Init, ThreadCalls
<1>3. \A p : Numbers(p, <<>>) = {}
  BY DEF Numbers
<1>4. NothingLost
  BY <1>1, <1>3, ProgramAssumption DEF ProgramInit, Init, NothingLost, ReceivedBy, Pushed
<1>5. QueueOrder /\ ConsumerOrder /\ ReceivedFirst /\ ConsumersApart
  BY <1>1 DEF ProgramInit, QueueOrder, ConsumerOrder, ReceivedFirst, ConsumersApart
<1> QED BY <1>1, <1>2, <1>4, <1>5 DEF ProgramInv

\* Steps that touch neither the queue nor what was received, nor the number of
\* values pushed.
LEMMA NothingMoves ==
  ASSUME ProgramInv, IInv', ThreadCalls',
         UNCHANGED <<mData, mMaxSize, received>>,
         \A p \in Producer : Pushed(p)' = Pushed(p)
  PROVE  ProgramInv'
<1>1. QueueOrder' /\ ConsumerOrder' /\ ReceivedFirst' /\ ConsumersApart'
  BY DEF ProgramInv, QueueOrder, ConsumerOrder, ReceivedFirst, ConsumersApart
<1>2. NothingLost'
  BY DEF ProgramInv, NothingLost, ReceivedBy
<1> QED BY <1>1, <1>2 DEF ProgramInv

\* A value that is appended comes after all others of its producer.
LEMMA ValuePushed ==
  ASSUME ProgramInv, IInv', ThreadCalls',
         NEW p \in Producer, NEW v \in Produced, v = <<p, Pushed(p)>>,
         Len(mData) < mMaxSize, mData' = Append(mData, v),
         UNCHANGED <<mMaxSize, received>>,
         \A q \in Producer : Pushed(q)' = IF q = p THEN Pushed(q) + 1 ELSE Pushed(q)
  PROVE  ProgramInv'
<1> USE DEF ProgramInv
<1>1. mData \in Seq(Produced) /\ mMaxSize \in Nat
  BY QueueAssumption DEF IInv, TypeOK, ThreadCalls
<1>2. /\ \A j \in DOMAIN mData : Before(mData[j], v)
      /\ \A c \in Consumer : \A i \in DOMAIN received[c] : Before(received[c][i], v)
  BY InUse DEF Before
<1>3. QueueOrder'
  <2> SUFFICES ASSUME NEW i \in DOMAIN mData', NEW j \in DOMAIN mData', i < j
               PROVE  Before(mData'[i], mData'[j])
    BY DEF QueueOrder
  <2>1. i \in DOMAIN mData /\ mData'[i] = mData[i]
    BY <1>1, AppendAt
  <2>2. CASE j \in DOMAIN mData /\ mData'[j] = mData[j]
    BY <2>1, <2>2 DEF QueueOrder
  <2>3. CASE mData'[j] = v
    BY <1>2, <2>1, <2>3
  <2> QED BY <1>1, <2>2, <2>3, AppendAt
<1>4. ReceivedFirst'
  <2> SUFFICES ASSUME NEW c \in Consumer, NEW i \in DOMAIN received[c], NEW j \in DOMAIN mData'
               PROVE  Before(received[c][i], mData'[j])
    BY DEF ReceivedFirst
  <2>1. CASE j \in DOMAIN mData /\ mData'[j] = mData[j]
    BY <2>1 DEF ReceivedFirst
  <2>2. CASE mData'[j] = v
    BY <1>2, <2>2
  <2> QED BY <1>1, <2>1, <2>2, AppendAt
<1>5. NothingLost'
  <2> SUFFICES ASSUME NEW q \in Producer
               PROVE  ReceivedBy(q) \union Numbers(q, mData') = 0 .. (Pushed(q)' - 1)
    BY DEF NothingLost, ReceivedBy
  <2>1. ReceivedBy(q) \union Numbers(q, mData) = 0 .. (Pushed(q) - 1)
    BY DEF NothingLost
  <2>2. Numbers(q, mData') = Numbers(q, mData) \union (IF p = q THEN {Pushed(q)} ELSE {})
    BY <1>1, NumbersAppend
  <2>3. Pushed(q) \in Nat
    BY PushedType
  <2> QED BY <2>1, <2>2, <2>3
<1>6. ConsumerOrder' /\ ConsumersApart'
  BY DEF ConsumerOrder, ConsumersApart
<1>7. Len(mData') <= mMaxSize'
  BY <1>1, AppendAt
<1> QED BY <1>3, <1>4, <1>5, <1>6, <1>7

\* A value that leaves the queue for a consumer is new to all consumers, comes
\* after what they received, and before what stays.
LEMMA ValuePopped ==
  ASSUME ProgramInv, IInv', ThreadCalls', NEW c \in Consumer,
         mData # <<>>, mData' = Tail(mData),
         received' = [received EXCEPT ![c] = Append(@, Head(mData))],
         UNCHANGED mMaxSize, \A q \in Producer : Pushed(q)' = Pushed(q)
  PROVE  ProgramInv'
<1> USE DEF ProgramInv
<1> DEFINE v == Head(mData)
<1>1. /\ mData \in Seq(Produced) /\ mMaxSize \in Nat /\ v \in Produced
      /\ mData[1] = v /\ 1 \in DOMAIN mData
      /\ \A d \in Consumer : received[d] \in Seq(Produced)
  BY QueueAssumption, TailAt DEF IInv, TypeOK, ThreadCalls
<1>2. \A d \in Consumer : received'[d] = IF d = c THEN Append(received[c], v) ELSE received[d]
  BY DEF ThreadCalls
<1>3. \A d \in Consumer : \A i \in DOMAIN received[d] : Before(received[d][i], v)
  BY <1>1 DEF ReceivedFirst
<1>4. \A j \in DOMAIN mData' : Before(v, mData'[j])
  BY <1>1, TailAt DEF QueueOrder
<1>5. ~ Before(v, v)
  BY <1>1, ValueParts DEF Before
<1> HIDE DEF v
<1>6. QueueOrder'
  BY <1>1, TailAt DEF QueueOrder
<1>7. ConsumerOrder'
  BY <1>1, <1>2, <1>3, AppendAt DEF ConsumerOrder
<1>8. ReceivedFirst'
  <2>1. ASSUME NEW d \in Consumer, NEW i \in DOMAIN received[d], NEW j \in DOMAIN mData'
        PROVE  Before(received[d][i], mData'[j])
    BY <1>1, TailAt DEF ReceivedFirst
  <2> QED BY <1>1, <1>2, <1>4, <2>1, AppendAt DEF ReceivedFirst
<1>9. ConsumersApart'
  BY <1>1, <1>2, <1>3, <1>5, AppendAt DEF ConsumersApart
<1>10. NothingLost'
  <2> SUFFICES ASSUME NEW q \in Producer
               PROVE  ReceivedBy(q)' \union Numbers(q, mData') = 0 .. (Pushed(q) - 1)
    BY DEF NothingLost
  <2> DEFINE new == IF v[1] = q THEN {v[2]} ELSE {}
  <2>1. ReceivedBy(q) \union Numbers(q, mData) = 0 .. (Pushed(q) - 1)
    BY DEF NothingLost
  <2>2. Numbers(q, mData) = Numbers(q, mData') \union new
    BY <1>1, NumbersTail DEF v
  <2>3. \A d \in Consumer :
          Numbers(q, received'[d]) = Numbers(q, received[d]) \union (IF d = c THEN new ELSE {})
    <3> TAKE d \in Consumer
    <3>1. CASE d = c
      <4>1. Numbers(q, Append(received[c], v)) = Numbers(q, received[c]) \union new
        BY <1>1, NumbersAppend
      <4> HIDE DEF new
      <4> QED BY <1>2, <3>1, <4>1
    <3>2. CASE d # c
      BY <1>1, <1>2, <3>2
    <3> QED BY <3>1, <3>2
  <2>4. ReceivedBy(q)' = ReceivedBy(q) \union new
    <3> HIDE DEF new
    <3> QED BY <2>3 DEF ReceivedBy
  <2> HIDE DEF new
  <2> QED BY <2>1, <2>2, <2>4
<1>11. Len(mData') <= mMaxSize'
  BY <1>1, TailAt
<1> QED BY <1>6, <1>7, <1>8, <1>9, <1>10, <1>11

\* A return of an answer ends the call; a body that does not return leaves the
\* calls alone.
LEMMA BodyEnds ==
  ASSUME NEW t, Body(t)
  PROVE  /\ mMutex = t
         /\ \/ call' = [call EXCEPT ![t] = NoCall] /\ ret'.op = call[t].op
            \/ call' = call /\ ~ tryPop(t)
  BY DEF Body, Holds, tryPush, waitPush, waitPop, tryPop, setMaxSize, observe, front,
     empty, getSize, getMaxSize, Return, Answer

\* A producer's body pushes its newest value, or finds the queue full.
LEMMA ProducerBody ==
  ASSUME ProgramInv, NEW p \in Producer, BodyStep(p)
  PROVE  ProgramInv'
<1> USE DEF ProgramInv
<1>1. p \in Thread /\ p \notin Consumer /\ mMutex = p
  BY ProgramAssumption, BodyEnds DEF BodyStep
<1>2. call[p] \in AllCalls /\ call[p] # NoCall
  BY <1>1, OwnerInCall, QueueAssumption DEF IInv
<1>3. call[p].op = "waitPush" /\ call[p].arg = <<p, sent[p] - 1>> /\ sent[p] > 0
  <2>1. call[p] = [op |-> "waitPush", arg |-> <<p, sent[p] - 1>>] /\ sent[p] > 0
    BY <1>2 DEF ThreadCalls
  <2> QED BY <2>1
<1>4. waitPush(p)
  BY <1>1, <1>3 DEF BodyStep, Body, Holds, tryPush, waitPop, tryPop, setMaxSize, observe,
     front, empty, getSize, getMaxSize
<1>5. IInv'
  BY <1>1, ThreadKeeps DEF BodyStep
<1>6. received' = received
  <2>1. CASE call' = call
    BY <1>2, <2>1 DEF BodyStep
  <2>2. CASE ret'.op = call[p].op
    BY <1>3, <2>2 DEF BodyStep
  <2> QED BY <2>1, <2>2, BodyEnds DEF BodyStep
<1>7. \A u \in Thread : call'[u] # NoCall => call'[u] = call[u]
  BY BodyEnds DEF BodyStep, IInv, TypeOK
<1>8. ASSUME mData' \in Seq(Produced) PROVE ThreadCalls'
  <2>1. sent' = sent
    BY DEF BodyStep
  <2> QED BY <1>6, <1>7, <1>8, <2>1, ProgramAssumption DEF ThreadCalls
<1>9. CASE Full
  <2>1. UNCHANGED <<mData, mMaxSize, received, call, sent>>
    BY <1>4, <1>6, <1>9 DEF waitPush, Full, Emplace, BodyStep
  <2>2. \A q \in Producer : Pushed(q)' = Pushed(q)
    BY <2>1 DEF Pushed
  <2>3. ThreadCalls'
    BY <1>8, <2>1 DEF ThreadCalls
  <2> QED BY <1>5, <2>1, <2>2, <2>3, NothingMoves
<1>10. CASE ~ Full
  <2>1. /\ mData' = Append(mData, <<p, sent[p] - 1>>) /\ UNCHANGED <<mMaxSize, sent>>
        /\ call' = [call EXCEPT ![p] = NoCall]
    BY <1>3, <1>4, <1>10 DEF waitPush, Emplace, Return, BodyStep
  <2>2. Len(mData) < mMaxSize
    BY <1>10, QueueAssumption, SequenceFacts DEF Full, IInv, TypeOK
  <2>3. Pushed(p) = sent[p] - 1 /\ <<p, sent[p] - 1>> \in Produced
    <3>1. sent[p] \in 0 .. Items /\ sent[p] > 0
      BY <1>3 DEF ThreadCalls
    <3>2. sent[p] - 1 \in 0 .. (Items - 1)
      BY <3>1, ProgramAssumption
    <3> QED BY <1>2, <3>2 DEF Pushed, Produced
  <2>4. \A q \in Producer : Pushed(q)' = IF q = p THEN Pushed(q) + 1 ELSE Pushed(q)
    <3>1. \A q \in Producer : call'[q] = IF q = p THEN NoCall ELSE call[q]
      BY <2>1, ProgramAssumption DEF IInv, TypeOK
    <3>2. sent[p] \in Nat
      BY PushedType
    <3> QED BY <2>1, <2>3, <3>1, <3>2 DEF Pushed
  <2>5. ThreadCalls'
    BY <1>8, <2>1, <2>3, AppendAt DEF ThreadCalls
  <2> QED BY <1>5, <1>6, <2>1, <2>2, <2>3, <2>4, <2>5, ValuePushed
<1> QED BY <1>9, <1>10

\* A consumer's body takes the first value, goes to sleep, or reads the size.
LEMMA ConsumerBody ==
  ASSUME ProgramInv, NEW c \in Consumer, BodyStep(c)
  PROVE  ProgramInv'
<1> USE DEF ProgramInv
<1>1. c \in Thread /\ c \notin Producer /\ mMutex = c
  BY ProgramAssumption, BodyEnds DEF BodyStep
<1>2. call[c] \in AllCalls /\ call[c] # NoCall
  BY <1>1, OwnerInCall, QueueAssumption DEF IInv
<1>3. call[c].op \in {"waitPop", "getSize"}
  BY <1>2 DEF ThreadCalls
<1>4. waitPop(c) \/ (getSize(c) /\ UNCHANGED <<mData, mMaxSize, mCond>>)
  BY <1>1, <1>3 DEF BodyStep, Body, Holds, tryPush, waitPush, tryPop, setMaxSize, observe,
     front, empty, getMaxSize
<1>5. IInv' /\ UNCHANGED <<sent, mMaxSize>>
  BY <1>1, <1>4, ThreadKeeps DEF BodyStep, waitPop
<1>6. call' = call \/ call' = [call EXCEPT ![c] = NoCall]
  BY BodyEnds DEF BodyStep
<1>7. \A q \in Producer : call'[q] = call[q]
  BY <1>1, <1>6, ProgramAssumption DEF IInv, TypeOK
<1>8. \A q \in Producer : Pushed(q)' = Pushed(q)
  BY <1>5, <1>7 DEF Pushed
<1>9. \A d \in Thread : call'[d] # NoCall => call'[d] = call[d]
  BY <1>1, <1>6 DEF IInv, TypeOK
<1>10. CASE waitPop(c) /\ mData # <<>>
  <2>1. /\ mData' = Tail(mData)
        /\ received' = [received EXCEPT ![c] = Append(@, Head(mData))]
    <3>1. mData' = Tail(mData) /\ Return(c, TRUE, Head(mData)) /\ call[c].op = "waitPop"
      BY <1>10 DEF waitPop, Holds
    <3>2. call'[c] = NoCall /\ ret'.op = "waitPop" /\ ret'.value = Head(mData)
      BY <1>1, <3>1 DEF Return, Answer, IInv, TypeOK
    <3> QED BY <3>1, <3>2 DEF BodyStep
  <2>2. received' \in [Consumer -> Seq(Produced)]
    BY <1>10, <2>1, TailAt, AppendAt DEF ThreadCalls
  <2>3. mData' \in Seq(Produced)
    BY <1>10, <2>1, TailAt DEF ThreadCalls
  <2>4. ThreadCalls'
    BY <1>5, <1>7, <1>9, <2>2, <2>3, ProgramAssumption DEF ThreadCalls
  <2> QED BY <1>5, <1>8, <1>10, <2>1, <2>4, ValuePopped
<1>11. CASE ~ (waitPop(c) /\ mData # <<>>)
  <2>1. UNCHANGED <<mData, received>>
    BY <1>1, <1>2, <1>4, <1>11 DEF waitPop, getSize, Return, Answer, BodyStep, Holds
  <2>2. ThreadCalls'
    BY <1>5, <1>7, <1>9, <2>1, ProgramAssumption DEF ThreadCalls
  <2> QED BY <1>5, <1>8, <2>1, <2>2, NothingMoves
<1> QED BY <1>10, <1>11

\* A call is made with the newest value of a producer, or to pop, or to ask.
LEMMA CallStep ==
  ASSUME ProgramInv, NEW t \in Thread,
         (t \in Producer /\ Push(t)) \/ (t \in Consumer /\ (Pop(t) \/ Report(t)))
  PROVE  ProgramInv'
<1> USE DEF ProgramInv
<1>1. CASE t \in Producer /\ Push(t)
  <2>1. sent[t] \in 0 .. (Items - 1)
    BY <1>1, PushedType, ProgramAssumption DEF Push
  <2>2. <<t, sent[t]>> \in Produced
    BY <1>1, <2>1 DEF Produced
  <2>3. [op |-> "waitPush", arg |-> <<t, sent[t]>>] \in AllCalls
    BY <2>2, ProgramAssumption DEF AllCalls, Produced
  <2>4. IInv'
    BY <1>1, <2>3, InvokeKeeps DEF Push
  <2>5. /\ call[t] = NoCall /\ UNCHANGED <<mData, mMaxSize, received>>
        /\ \A u \in Thread : call'[u] = IF u = t THEN [op |-> "waitPush", arg |-> <<t, sent[t]>>]
                                                ELSE call[u]
        /\ call'[t] # NoCall
        /\ sent' = [sent EXCEPT ![t] = @ + 1]
    BY <1>1, <2>3, QueueAssumption DEF Push, Invoke, IInv, TypeOK
  <2>6. \A p \in Producer : sent'[p] = IF p = t THEN sent[p] + 1 ELSE sent[p]
    BY <2>5 DEF ThreadCalls
  <2>7. sent' \in [Producer -> 0 .. Items]
    BY <1>1, <2>1, <2>5, ProgramAssumption DEF ThreadCalls
  <2>8. ThreadCalls'
    <3>1. sent'[t] > 0 /\ sent'[t] - 1 = sent[t] /\ call'[t] = [op |-> "waitPush", arg |-> <<t, sent[t]>>]
      BY <1>1, <2>1, <2>5, <2>6
    <3>2. \A p \in Producer : p # t => sent'[p] = sent[p] /\ call'[p] = call[p]
      BY <2>5, <2>6, ProgramAssumption
    <3>3. \A c \in Consumer : call'[c] = call[c]
      BY <1>1, <2>5, ProgramAssumption
    <3> QED BY <2>5, <2>7, <3>1, <3>2, <3>3 DEF ThreadCalls
  <2>9. \A p \in Producer : Pushed(p)' = Pushed(p)
    BY <1>1, <2>1, <2>5, <2>6, ProgramAssumption DEF Pushed
  <2> QED BY <2>4, <2>5, <2>8, <2>9, NothingMoves
<1>2. CASE t \in Consumer /\ (Pop(t) \/ Report(t))
  <2>1. PICK op \in {"waitPop", "getSize"} : Invoke(t, [op |-> op, arg |-> NoValue])
    BY <1>2 DEF Pop, Report
  <2>2. [op |-> op, arg |-> NoValue] \in AllCalls
    BY DEF AllCalls
  <2>3. IInv'
    BY <2>1, <2>2, InvokeKeeps
  <2>4. /\ UNCHANGED <<mData, mMaxSize, received, sent>>
        /\ \A u \in Thread : call'[u] = IF u = t THEN [op |-> op, arg |-> NoValue] ELSE call[u]
    BY <1>2, <2>1 DEF Pop, Report, Invoke, IInv, TypeOK
  <2>5. t \notin Producer
    BY <1>2, ProgramAssumption
  <2>6. ThreadCalls'
    <3>1. \A p \in Producer : call'[p] = call[p]
      BY <2>4, <2>5, ProgramAssumption
    <3>2. \A c \in Consumer : c # t => call'[c] = call[c]
      BY <2>4, ProgramAssumption
    <3>3. call'[t].op = op
      BY <2>4
    <3> QED BY <2>4, <3>1, <3>2, <3>3 DEF ThreadCalls
  <2>7. \A p \in Producer : Pushed(p)' = Pushed(p)
    BY <2>4, <2>5, ProgramAssumption DEF Pushed
  <2> QED BY <2>3, <2>4, <2>6, <2>7, NothingMoves
<1> QED BY <1>1, <1>2

\* Taking the mutex and waking up move no value.
LEMMA MutexStep ==
  ASSUME ProgramInv, NEW t \in Thread, LockStep(t) \/ WakeStep(t)
  PROVE  ProgramInv'
<1>1. IInv'
  BY ThreadKeeps DEF ProgramInv, LockStep, WakeStep
<1>2. UNCHANGED <<mData, mMaxSize, received, sent, call>>
  BY DEF LockStep, WakeStep, Lock, SpuriousWakeup
<1>3. ThreadCalls'
  BY <1>2 DEF ProgramInv, ThreadCalls
<1>4. \A p \in Producer : Pushed(p)' = Pushed(p)
  BY <1>2 DEF Pushed
<1> QED BY <1>1, <1>2, <1>3, <1>4, NothingMoves

\* A step that changes nothing.
LEMMA ProgramStutter == ASSUME ProgramInv, UNCHANGED programVars PROVE ProgramInv'
<1>1. IInv'
  BY StutterKeeps DEF ProgramInv, programVars
<1>2. UNCHANGED <<mData, mMaxSize, received, sent, call>>
  BY DEF programVars, vars
<1>3. ThreadCalls'
  BY <1>2 DEF ProgramInv, ThreadCalls
<1>4. \A p \in Producer : Pushed(p)' = Pushed(p)
  BY <1>2 DEF Pushed
<1> QED BY <1>1, <1>2, <1>3, <1>4, NothingMoves

-----------------------------------------------------------------------------
(* Theorems.                                                               *)

\* ProgramInv holds however the producers and consumers interleave.
THEOREM ProgramInvariant == ProgramSpec => []ProgramInv
<1>1. ASSUME ProgramInv, [ProgramNext]_programVars PROVE ProgramInv'
  <2>1. Producer \union Consumer \subseteq Thread
    BY ProgramAssumption
  <2>2. ASSUME NEW t \in Thread, BodyStep(t) PROVE t \in Producer \union Consumer
    BY <1>1, <2>2, BodyEnds, OwnerInCall, QueueAssumption
       DEF BodyStep, ProgramInv, IInv, ThreadCalls
  <2> QED BY <1>1, <2>1, <2>2, CallStep, MutexStep, ProducerBody, ConsumerBody, ProgramStutter
          DEF ProgramNext, Joined
<1> QED BY <1>1, InitProgram, PTL DEF ProgramSpec

\* No value is lost or delivered twice, and the queue keeps its bound, for any
\* number of producers and consumers.
THEOREM EveryValueDelivered == ProgramSpec => []EveryValueOnce
<1>1. ASSUME ProgramInv PROVE EveryValueOnce
  <2> USE <1>1 DEF ProgramInv
  <2>1. mData \in Seq(Produced) /\ \A c \in Consumer : received[c] \in Seq(Produced)
    BY DEF IInv, TypeOK, ThreadCalls
  <2>2. \A v \in Produced : ~ Before(v, v)
    BY ValueParts DEF Before
  <2>3. ASSUME NEW i \in DOMAIN mData, NEW j \in DOMAIN mData, mData[i] = mData[j]
        PROVE  i = j
    <3>1. mData[i] \in Produced /\ i \in Nat /\ j \in Nat
      BY <2>1
    <3>2. ~ (i < j) /\ ~ (j < i)
      BY <2>2, <2>3, <3>1 DEF QueueOrder
    <3> QED BY <3>1, <3>2
  <2>4. ASSUME NEW c \in Consumer, NEW i \in DOMAIN received[c], NEW j \in DOMAIN mData
        PROVE  received[c][i] # mData[j]
    BY <2>1, <2>2 DEF ReceivedFirst
  <2>5. ASSUME NEW c \in Consumer, NEW i \in DOMAIN received[c],
               NEW d \in Consumer, NEW j \in DOMAIN received[d], received[c][i] = received[d][j]
        PROVE  c = d /\ i = j
    <3>1. c = d
      BY <2>5 DEF ConsumersApart
    <3>2. received[c][i] \in Produced /\ i \in Nat /\ j \in Nat
      BY <2>1, <3>1
    <3>3. ~ (i < j) /\ ~ (j < i)
      BY <2>2, <2>5, <3>1, <3>2 DEF ConsumerOrder
    <3> QED BY <3>1, <3>2, <3>3
  <2> QED BY <2>3, <2>4, <2>5 DEF EveryValueOnce, NothingLost
<1> QED BY <1>1, ProgramInvariant, PTL

\* Each consumer receives the values of one producer in the order they were
\* pushed, and what is queued is newer than what anyone has received.
THEOREM ProducerOrderKept == ProgramSpec => []ProducerOrder
<1>1. ASSUME ProgramInv PROVE ProducerOrder
  <2> USE <1>1 DEF ProgramInv
  <2> SUFFICES ASSUME NEW c \in Consumer, NEW i \in DOMAIN received[c]
               PROVE  /\ \A j \in 1 .. (i - 1) : received[c][j][1] = received[c][i][1] =>
                                                  received[c][j][2] < received[c][i][2]
                      /\ \A m \in Numbers(received[c][i][1], mData) : received[c][i][2] < m
    BY DEF ProducerOrder
  <2>1. mData \in Seq(Produced) /\ received[c] \in Seq(Produced)
    BY DEF IInv, TypeOK, ThreadCalls
  <2>2. \A j \in 1 .. (i - 1) : j \in DOMAIN received[c] /\ j < i
    BY <2>1
  <2>3. ASSUME NEW m \in Numbers(received[c][i][1], mData) PROVE received[c][i][2] < m
    <3>1. PICK j \in DOMAIN mData : mData[j] = <<received[c][i][1], m>>
      BY <2>1, NumbersMember
    <3>2. Before(received[c][i], mData[j])
      BY DEF ReceivedFirst
    <3> QED BY <3>1, <3>2 DEF Before
  <2> QED BY <2>2, <2>3 DEF ConsumerOrder, Before
<1> QED BY <1>1, ProgramInvariant, PTL
=============================================================================
