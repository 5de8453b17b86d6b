-------------------------- MODULE ConcurrentQueue --------------------------
(***************************************************************************)
(* ConcurrentQueueWithLock of src/src/threadPool.h: a bounded queue shared *)
(* by threads, guarded by one mutex, with a condition variable for the     *)
(* threads that wait for a value and a spin loop for those that wait for   *)
(* room.                                                                   *)
(*                                                                         *)
(* A thread that has called a method waits for mMutex, runs the body of    *)
(* the method while it owns it, and releases it on return, in the spin     *)
(* loop of waitPush, or when mCond.wait puts it to sleep.  No thread reads *)
(* or writes a member without owning mMutex, so the body is one action.    *)
(***************************************************************************)
EXTENDS Integers, Sequences, FiniteSets

CONSTANTS
  Thread,
  Value,
  MaxSize,   (* The sizes given to the constructor and to setMaxSize.      *)
  Call,      (* The calls the clients make, some of AllCalls.              *)
  NoThread,
  NoCall,
  NoValue

AllCalls ==
  [op : {"tryPush", "waitPush"}, arg : Value]
    \union [op : {"waitPop", "tryPop", "empty", "front", "getSize", "getMaxSize"},
            arg : {NoValue}]
    \union [op : {"setMaxSize"}, arg : MaxSize]

ASSUME QueueAssumption ==
  /\ IsFiniteSet(Thread)
  /\ NoThread \notin Thread
  /\ MaxSize \subseteq Nat
  /\ Call \subseteq AllCalls
  /\ NoCall \notin AllCalls

VARIABLES
  mData,
  mMaxSize,
  mMutex,    (* The thread that owns the mutex, or NoThread.               *)
  mCond,     (* The threads asleep in mCond.wait.                          *)
  call,      (* call[t] is the call thread t is in, NoCall in none.        *)
  ret        (* The answer to the last call that returned.                 *)

vars == <<mData, mMaxSize, mMutex, mCond, call, ret>>

Answer(t, op, ok, v) == [thread |-> t, op |-> op, ok |-> ok, value |-> v]

Init ==
  /\ mData = <<>> /\ mMaxSize \in MaxSize
  /\ mMutex = NoThread /\ mCond = {}
  /\ call = [t \in Thread |-> NoCall]
  /\ ret = Answer(NoThread, "none", FALSE, NoValue)

-----------------------------------------------------------------------------
(* Entering a method, and the mutex.                                       *)

Invoke(t, c) ==
  /\ call[t] = NoCall
  /\ call' = [call EXCEPT ![t] = c]
  /\ UNCHANGED <<mData, mMaxSize, mMutex, mCond, ret>>

\* lock_guard, unique_lock, lock.lock() after yield(), and the lock that wait
\* takes again when it has been woken.
Lock(t) ==
  /\ call[t] # NoCall /\ t \notin mCond
  /\ mMutex = NoThread
  /\ mMutex' = t
  /\ UNCHANGED <<mData, mMaxSize, mCond, call, ret>>

Holds(t, op) == mMutex = t /\ call[t].op = op

Return(t, ok, v) ==
  /\ mMutex' = NoThread
  /\ call' = [call EXCEPT ![t] = NoCall]
  /\ ret' = Answer(t, call[t].op, ok, v)

NotifyOne ==
  \/ mCond = {} /\ UNCHANGED mCond
  \/ \E t \in mCond : mCond' = mCond \ {t}

\* wait may return although nobody called notify_one.
SpuriousWakeup(t) ==
  /\ t \in mCond
  /\ mCond' = mCond \ {t}
  /\ UNCHANGED <<mData, mMaxSize, mMutex, call, ret>>

-----------------------------------------------------------------------------
(* The methods' bodies.                                                    *)

\* Mutant: the size is compared with > instead of >=.
Full_OffByOne == Len(mData) > mMaxSize

Full == Len(mData) >= mMaxSize

\* Mutant: only a push into an empty queue notifies.
Emplace_NotifyIfEmpty(v) ==
  /\ mData' = Append(mData, v)
  /\ IF mData = <<>> THEN NotifyOne ELSE UNCHANGED mCond

Emplace(v) == mData' = Append(mData, v) /\ NotifyOne

tryPush(t) ==
  /\ Holds(t, "tryPush")
  /\ \/ Full /\ Return(t, FALSE, NoValue) /\ UNCHANGED <<mData, mCond>>
     \/ ~ Full /\ Emplace(call[t].arg) /\ Return(t, TRUE, NoValue)
  /\ UNCHANGED mMaxSize

\* Mutant: the spin loop does not release the mutex.
waitPush_SpinLocked(t) ==
  /\ Holds(t, "waitPush")
  /\ \/ Full /\ UNCHANGED <<mMutex, mData, mCond, call, ret>>
     \/ ~ Full /\ Emplace(call[t].arg) /\ Return(t, TRUE, NoValue)
  /\ UNCHANGED mMaxSize

\* With a full queue, waitPush releases the mutex, yields and locks again.
waitPush(t) ==
  /\ Holds(t, "waitPush")
  /\ \/ Full /\ mMutex' = NoThread /\ UNCHANGED <<mData, mCond, call, ret>>
     \/ ~ Full /\ Emplace(call[t].arg) /\ Return(t, TRUE, NoValue)
  /\ UNCHANGED mMaxSize

\* Mutants: a thread goes to sleep with the mutex; the newest value is popped.
waitPop_SleepLocked(t) ==
  /\ Holds(t, "waitPop")
  /\ \/ mData = <<>> /\ mCond' = mCond \union {t} /\ UNCHANGED <<mMutex, mData, call, ret>>
     \/ /\ mData # <<>>
        /\ mData' = Tail(mData) /\ Return(t, TRUE, Head(mData))
        /\ UNCHANGED mCond
  /\ UNCHANGED mMaxSize

waitPop_Newest(t) ==
  /\ Holds(t, "waitPop")
  /\ \/ /\ mData = <<>>
        /\ mCond' = mCond \union {t} /\ mMutex' = NoThread
        /\ UNCHANGED <<mData, call, ret>>
     \/ /\ mData # <<>>
        /\ mData' = SubSeq(mData, 1, Len(mData) - 1)
        /\ Return(t, TRUE, mData[Len(mData)])
        /\ UNCHANGED mCond
  /\ UNCHANGED mMaxSize

\* wait(lock, pred): as long as pred is false, sleep; a thread that is woken
\* locks the mutex and tests pred again.
waitPop(t) ==
  /\ Holds(t, "waitPop")
  /\ \/ /\ mData = <<>>
        /\ mCond' = mCond \union {t} /\ mMutex' = NoThread
        /\ UNCHANGED <<mData, call, ret>>
     \/ /\ mData # <<>>
        /\ mData' = Tail(mData) /\ Return(t, TRUE, Head(mData))
        /\ UNCHANGED mCond
  /\ UNCHANGED mMaxSize

tryPop(t) ==
  /\ Holds(t, "tryPop")
  /\ \/ mData = <<>> /\ Return(t, FALSE, NoValue) /\ UNCHANGED mData
     \/ mData # <<>> /\ mData' = Tail(mData) /\ Return(t, TRUE, NoValue)
  /\ UNCHANGED <<mMaxSize, mCond>>

\* Mutant: the argument is taken for an increment.
setMaxSize_Adds(t) ==
  /\ Holds(t, "setMaxSize")
  /\ mMaxSize' = mMaxSize + call[t].arg
  /\ Return(t, TRUE, NoValue)
  /\ UNCHANGED <<mData, mCond>>

setMaxSize(t) ==
  /\ Holds(t, "setMaxSize")
  /\ mMaxSize' = call[t].arg
  /\ Return(t, TRUE, NoValue)
  /\ UNCHANGED <<mData, mCond>>

\* front does not test for an empty queue: its reference is then to no value.
front(t) ==
  /\ Holds(t, "front")
  /\ \E v \in IF mData = <<>> THEN Value ELSE {Head(mData)} : Return(t, TRUE, v)

empty(t) == Holds(t, "empty") /\ Return(t, mData = <<>>, NoValue)
getSize(t) == Holds(t, "getSize") /\ Return(t, TRUE, Len(mData))
getMaxSize(t) == Holds(t, "getMaxSize") /\ Return(t, TRUE, mMaxSize)

observe(t) ==
  /\ front(t) \/ empty(t) \/ getSize(t) \/ getMaxSize(t)
  /\ UNCHANGED <<mData, mMaxSize, mCond>>

\* What the owner of the mutex does with it.
Body(t) ==
  \/ tryPush(t) \/ waitPush(t) \/ waitPop(t) \/ tryPop(t)
  \/ setMaxSize(t) \/ observe(t)

Next ==
  \E t \in Thread :
    \/ \E c \in Call : Invoke(t, c)
    \/ Lock(t)
    \/ Body(t)
    \/ SpuriousWakeup(t)

Spec == Init /\ [][Next]_vars

\* A thread in a body is not stopped for ever, and a mutex that keeps being
\* released is not withheld from a thread for ever: the spin loop of waitPush
\* releases it with a yield() in between for just that purpose.
Fairness == \A t \in Thread : WF_vars(Body(t)) /\ SF_vars(Lock(t))

FairSpec == Spec /\ Fairness

-----------------------------------------------------------------------------
(* Correctness.                                                            *)

\* The type invariant.
TypeOK ==
  /\ mData \in Seq(Value)
  /\ mMaxSize \in MaxSize
  /\ mMutex \in Thread \union {NoThread}
  /\ mCond \subseteq Thread
  /\ call \in [Thread -> AllCalls \union {NoCall}]
  /\ ret \in [thread : Thread \union {NoThread},
              op : {c.op : c \in AllCalls} \union {"none"},
              ok : BOOLEAN,
              value : Value \union Nat \union {NoValue}]

\* Who owns the mutex is in a method and awake; who sleeps is in waitPop.
OwnersAndSleepers ==
  /\ mMutex # NoThread => call[mMutex] # NoCall /\ mMutex \notin mCond
  /\ \A t \in mCond : call[t] # NoCall /\ call[t].op = "waitPop"

\* The threads in waitPop that are awake: they will test the queue.
Awake == {t \in Thread \ mCond : call[t] # NoCall /\ call[t].op = "waitPop"}

\* No wakeup is lost: while a thread sleeps in waitPop, every value in the queue
\* has an awake thread that comes for it.  notify_one once per push is enough,
\* whichever thread it wakes, whoever takes the value first, and however the
\* notification falls between the unlock and the lock of other threads.
NoLostWakeup == mCond # {} => Len(mData) <= Cardinality(Awake)

\* Each call that returns took effect in one instant as the client expects of
\* a bounded FIFO queue; sleeping, spinning and waking up change nothing.
F == INSTANCE FifoQueue WITH data <- mData, bound <- mMaxSize
ImplementsFifo == F!Spec

\* Sleepers are served: values and sleepers do not sit side by side for ever.
SleepersServed ==
  (mCond # {} /\ mData # <<>>) ~> (mCond = {} \/ mData = <<>>)
=============================================================================
