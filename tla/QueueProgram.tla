---------------------------- MODULE QueueProgram ----------------------------
(***************************************************************************)
(* Producers and consumers that share a ConcurrentQueueWithLock, as in     *)
(* test/threadPool_test.cpp:28-48 (there, one of each):                    *)
(*   producer: for i in 0 .. Items - 1: q.waitPush(i)                      *)
(*   consumer: Quota times: t = q.waitPop(); print *t and q.getSize()      *)
(* A value is the pair of its producer and its number.                     *)
(***************************************************************************)
EXTENDS ConcurrentQueue

CONSTANTS
  Producer, Consumer,
  Items,     (* Values pushed by each producer.                            *)
  Quota      (* Values popped by each consumer.                            *)

ASSUME ProgramAssumption ==
  /\ Producer \union Consumer \subseteq Thread /\ Producer \intersect Consumer = {}
  /\ Items \in Nat /\ Quota \in Nat
  /\ Producer \X (0 .. Items - 1) \subseteq Value
  /\ Cardinality(Producer) * Items = Cardinality(Consumer) * Quota

VARIABLES
  sent,      (* sent[p] is the producer's i: its calls of waitPush.        *)
  received,  (* received[c] is what waitPop returned to c, in order.       *)
  reported    (* reported[c] is how often c has called getSize.              *)

programVars == <<vars, sent, received, reported>>

ProgramInit ==
  /\ Init
  /\ sent = [p \in Producer |-> 0]
  /\ received = [c \in Consumer |-> <<>>]
  /\ reported = [c \in Consumer |-> 0]

Push(p) ==
  /\ sent[p] < Items
  /\ Invoke(p, [op |-> "waitPush", arg |-> <<p, sent[p]>>])
  /\ sent' = [sent EXCEPT ![p] = @ + 1]
  /\ UNCHANGED <<received, reported>>

Pop(c) ==
  /\ Len(received[c]) = reported[c] /\ reported[c] < Quota
  /\ Invoke(c, [op |-> "waitPop", arg |-> NoValue])
  /\ UNCHANGED <<sent, received, reported>>

Report(c) ==
  /\ Len(received[c]) > reported[c]
  /\ Invoke(c, [op |-> "getSize", arg |-> NoValue])
  /\ reported' = [reported EXCEPT ![c] = @ + 1]
  /\ UNCHANGED <<sent, received>>

LockStep(t) == Lock(t) /\ UNCHANGED <<sent, received, reported>>

\* A body; the answer waitPop returns is kept.
BodyStep(t) ==
  /\ Body(t)
  /\ received' = IF call'[t] = NoCall /\ ret'.op = "waitPop"
                 THEN [received EXCEPT ![t] = Append(@, ret'.value)]
                 ELSE received
  /\ UNCHANGED <<sent, reported>>

WakeStep(t) == SpuriousWakeup(t) /\ UNCHANGED <<sent, received, reported>>

Finished ==
  /\ \A p \in Producer : sent[p] = Items
  /\ \A c \in Consumer : reported[c] = Quota
  /\ \A t \in Thread : call[t] = NoCall

\* Every join() has returned.
Joined == Finished /\ UNCHANGED programVars

ProgramNext ==
  \/ \E p \in Producer : Push(p)
  \/ \E c \in Consumer : Pop(c) \/ Report(c)
  \/ \E t \in Thread : LockStep(t) \/ BodyStep(t) \/ WakeStep(t)
  \/ Joined

ProgramSpec == ProgramInit /\ [][ProgramNext]_programVars

\* Threads run, and a mutex that keeps being released is not withheld for ever.
ProgramFairness ==
  /\ \A p \in Producer : WF_programVars(Push(p))
  /\ \A c \in Consumer : WF_programVars(Pop(c) \/ Report(c))
  /\ \A t \in Thread : WF_programVars(BodyStep(t)) /\ SF_programVars(LockStep(t))

FairProgramSpec == ProgramSpec /\ ProgramFairness

-----------------------------------------------------------------------------

\* The values of producer p in a sequence, and all those that were received.
Numbers(p, s) == {s[i][2] : i \in {j \in DOMAIN s : s[j][1] = p}}
ReceivedBy(p) == UNION {Numbers(p, received[c]) : c \in Consumer}

\* How many of its values producer p has pushed, the calls it waits in aside.
Pushed(p) == IF call[p] = NoCall THEN sent[p] ELSE sent[p] - 1

\* No value is lost or delivered twice, however pushes and pops of several
\* threads interleave: every pushed value was received or is in the queue, no
\* value is in two of the places where it could be, and the queue never holds
\* more than the bound.
EveryValueOnce ==
  /\ \A p \in Producer :
       ReceivedBy(p) \union Numbers(p, mData) = 0 .. (Pushed(p) - 1)
  /\ \A i, j \in DOMAIN mData : mData[i] = mData[j] => i = j
  /\ \A c \in Consumer : \A i \in DOMAIN received[c] :
       /\ \A j \in DOMAIN mData : received[c][i] # mData[j]
       /\ \A d \in Consumer : \A j \in DOMAIN received[d] :
            received[c][i] = received[d][j] => c = d /\ i = j
  /\ Len(mData) <= mMaxSize

\* Each consumer gets the values of one producer in the order they were pushed,
\* and none that is older than what any consumer has already got.
ProducerOrder ==
  \A c \in Consumer : \A i \in DOMAIN received[c] :
    LET p == received[c][i][1]
        n == received[c][i][2]
    IN  /\ \A j \in 1 .. (i - 1) : received[c][j][1] = p => received[c][j][2] < n
        /\ \A m \in Numbers(p, mData) : n < m

\* The threads of the program end, so that join returns: producers that spin on
\* a full queue do not starve the consumers they wait for, and no consumer stays
\* asleep.
Terminates == <>Finished
=============================================================================
