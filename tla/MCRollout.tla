------------------------------ MODULE MCRollout ------------------------------
(***************************************************************************)
(* Pods of one Deployment: p1, p2 of the next version of its image and, in *)
(* the run of a rollback, p3 of the first version again.                   *)
(***************************************************************************)
EXTENDS Controller, TLC

Owned(kind, name) == <<[kind |-> kind, name |-> name]>>
Main(digest) == <<[name |-> "main", init |-> FALSE, digest |-> digest]>>

MCPodInfo ==
    [p \in Pods |->
        [ns |-> "ns", name |-> p,
         owners |-> Owned("ReplicaSet", <<"web", "rs">>),
         containers |-> IF p = "p2" THEN Main("d2") ELSE Main("d1")]]

Web == [ns |-> "ns", kind |-> "Deployment", name |-> <<"web">>, owners |-> <<>>]
MCWorkloads == {Web}

\* The workers are interchangeable.
WorkerSymmetry == Permutations(Workers)
=============================================================================
