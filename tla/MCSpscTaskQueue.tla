-------------------------- MODULE MCSpscTaskQueue ---------------------------
(* Model-checking instance of SpscTaskQueue.                               *)
EXTENDS SpscTaskQueue
=============================================================================
