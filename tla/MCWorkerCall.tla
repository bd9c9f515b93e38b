---------------------------- MODULE MCWorkerCall ----------------------------
(* Two shapes of slot, calls nested two deep. *)
EXTENDS WorkerCall
=============================================================================
