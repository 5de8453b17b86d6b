------------------------- MODULE MCConcurrentQueue -------------------------
(***************************************************************************)
(* Instances of ConcurrentQueue for TLC.  Values and sizes are integers,   *)
(* which front and getSize both answer.                                    *)
(***************************************************************************)
EXTENDS ConcurrentQueue, TLC

\* Clients that call every method.
EveryCall == AllCalls

ThreadSymmetry == Permutations(Thread)
=============================================================================
