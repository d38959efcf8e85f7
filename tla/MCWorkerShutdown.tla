-------------------------- MODULE MCWorkerShutdown --------------------------
(* WorkerShutdown with the values its TLC run gives the parameters. *)
EXTENDS WorkerShutdown
=============================================================================
