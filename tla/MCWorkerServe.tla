--------------------------- MODULE MCWorkerServe ----------------------------
(* Instances of WorkerServe for TLC. *)
EXTENDS WorkerServe
=============================================================================
