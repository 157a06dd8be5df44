--------------------------- MODULE MCWorkerProtocol ---------------------------
(* Two calls of one instance, one of them on the task channel.             *)
EXTENDS WorkerProtocol

CONSTANTS c1, c2
=============================================================================
