------------------------------- MODULE MCReuse -------------------------------
(***************************************************************************)
(* A StatefulSet pod, with an init container, and the pod that takes its   *)
(* name after it, with another version of the image.                       *)
(***************************************************************************)
EXTENDS Controller, TLC

Owned(kind, name) == <<[kind |-> kind, name |-> name]>>

MCPodInfo ==
    [p1 |-> [ns |-> "ns", name |-> "db-0",
             owners |-> Owned("StatefulSet", <<"db">>),
             containers |-> <<[name |-> "main", init |-> FALSE, digest |-> "d1"],
                              [name |-> "setup", init |-> TRUE, digest |-> "i1"]>>],
     p2 |-> [ns |-> "ns", name |-> "db-0",
             owners |-> Owned("StatefulSet", <<"db">>),
             containers |-> <<[name |-> "main", init |-> FALSE, digest |-> "d2"]>>]]

\* The same pods with their main container only.
MCMainOnly ==
    [p \in DOMAIN MCPodInfo |-> [MCPodInfo[p] EXCEPT !.containers = SubSeq(@, 1, 1)]]

Db == [ns |-> "ns", kind |-> "StatefulSet", name |-> <<"db">>, owners |-> <<>>]
MCWorkloads == {Db}

\* The workers are interchangeable.
WorkerSymmetry == Permutations(Workers)
=============================================================================
