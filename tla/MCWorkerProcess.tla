----------------------------- MODULE MCWorkerProcess ---------------------------
(***************************************************************************)
(* An instance of the Worker process for TLC.                              *)
(***************************************************************************)
EXTENDS WorkerProcess

CONSTANTS l1, l2, g1, g2, s1, s2

================================================================================
