------------------------------- MODULE MCClient -------------------------------
(***************************************************************************)
(* Two goroutines that share a client: one posts records, the other polls  *)
(* a job.                                                                  *)
(***************************************************************************)
EXTENDS ApiClient, TLC

CONSTANTS c1, c2
MCCalls == (c1 :> {"PostOne"}) @@ (c2 :> {"WaitForClusterJob"})
=============================================================================
