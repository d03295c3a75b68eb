---------------------------- MODULE MCWorkerPool -----------------------------
(* Two threads with three jobs, each of which runs one program, for Jobs. *)
EXTENDS Jobs
==============================================================================
