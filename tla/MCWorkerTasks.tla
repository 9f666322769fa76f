--------------------------- MODULE MCWorkerTasks ---------------------------
(* WorkerTasks for TLC: the kinds and the faults are chosen by TaskInit.   *)
EXTENDS WorkerTasks
=============================================================================
