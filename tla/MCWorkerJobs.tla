---------------------------- MODULE MCWorkerJobs ----------------------------
(* Instances of WorkerJobs for TLC. *)
EXTENDS WorkerJobs

=============================================================================
