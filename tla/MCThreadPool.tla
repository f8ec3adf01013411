---------------------------- MODULE MCThreadPool ----------------------------
(* ThreadPool with two workers and three jobs. *)
EXTENDS ThreadPool
=============================================================================
