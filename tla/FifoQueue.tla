----------------------------- MODULE FifoQueue -----------------------------
(***************************************************************************)
(* What ConcurrentQueueWithLock promises its clients: a bounded first-in   *)
(* first-out queue whose methods each take effect in one instant.          *)
(*                                                                         *)
(*  - a push that succeeds finds the queue below the bound in force;       *)
(*  - a refusal is justified: tryPush fails only at or above the bound,    *)
(*    tryPop only on an empty queue; waitPush and waitPop never fail;      *)
(*  - a pop takes the oldest value.                                        *)
(*                                                                         *)
(* How long a call waits for its instant is not part of this module.       *)
(***************************************************************************)
EXTENDS Integers, Sequences

CONSTANTS Thread, Value, MaxSize, NoThread, NoValue

VARIABLES
  data,      (* The values in the queue, the oldest first.                 *)
  bound,     (* The largest number of values, as far as pushes go.         *)
  ret        (* The answer to the last call that returned.                 *)

fifoVars == <<data, bound, ret>>

Answer(t, op, ok, v) == [thread |-> t, op |-> op, ok |-> ok, value |-> v]

Init ==
  /\ data = <<>> /\ bound \in MaxSize
  /\ ret = Answer(NoThread, "none", FALSE, NoValue)

Push(t) ==
  /\ Len(data) < bound
  /\ \E v \in Value : data' = Append(data, v)
  /\ \E op \in {"tryPush", "waitPush"} : ret' = Answer(t, op, TRUE, NoValue)
  /\ UNCHANGED bound

Pop(t) ==
  /\ data # <<>>
  /\ data' = Tail(data)
  /\ \/ ret' = Answer(t, "waitPop", TRUE, Head(data))
     \/ ret' = Answer(t, "tryPop", TRUE, NoValue)
  /\ UNCHANGED bound

Refuse(t) ==
  /\ \/ Len(data) >= bound /\ ret' = Answer(t, "tryPush", FALSE, NoValue)
     \/ data = <<>> /\ ret' = Answer(t, "tryPop", FALSE, NoValue)
  /\ UNCHANGED <<data, bound>>

SetMaxSize(t) ==
  /\ bound' \in MaxSize
  /\ ret' = Answer(t, "setMaxSize", TRUE, NoValue)
  /\ UNCHANGED data

\* front of an empty queue returns a reference to nothing: any value.
Observe(t) ==
  /\ \/ ret' = Answer(t, "empty", data = <<>>, NoValue)
     \/ ret' = Answer(t, "getSize", TRUE, Len(data))
     \/ ret' = Answer(t, "getMaxSize", TRUE, bound)
     \/ data # <<>> /\ ret' = Answer(t, "front", TRUE, Head(data))
     \/ data = <<>> /\ \E v \in Value : ret' = Answer(t, "front", TRUE, v)
  /\ UNCHANGED <<data, bound>>

Next ==
  \E t \in Thread : Push(t) \/ Pop(t) \/ Refuse(t) \/ SetMaxSize(t) \/ Observe(t)

Spec == Init /\ [][Next]_fifoVars
=============================================================================
