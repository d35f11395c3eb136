---------------------------- MODULE MCQueueServer ----------------------------
(***************************************************************************)
(* QueueServer for TLC: the threads, and the processes other than the      *)
(* service, are interchangeable.                                           *)
(***************************************************************************)
EXTENDS QueueServer, TLC

Symmetry == Permutations(Threads) \cup Permutations(Pids \ {Svc})
=============================================================================
