--------------------------- MODULE MCQueueProgram ---------------------------
(***************************************************************************)
(* Instances of QueueProgram for TLC.                                      *)
(***************************************************************************)
EXTENDS QueueProgram

MCThread == Producer \union Consumer
MCValue == Producer \X (0 .. Items - 1)
MCCall ==
  [op : {"waitPush"}, arg : Value] \union [op : {"waitPop", "getSize"}, arg : {NoValue}]
=============================================================================
