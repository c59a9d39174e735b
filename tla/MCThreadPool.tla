---------------------------- MODULE MCThreadPool ----------------------------
(* Workers and tasks for checking ThreadPool. *)
EXTENDS ThreadPool
=============================================================================
