------------------------------ MODULE MCStartup ------------------------------
(***************************************************************************)
(* A pod of a Deployment that stays, with an init container that runs      *)
(* another version of the same image.                                      *)
(***************************************************************************)
EXTENDS Startup, TLC

Container(name, init, digest) ==
    [name |-> name, init |-> init, digest |-> digest, image |-> "app"]

MCPodInfo ==
    [p1 |-> [ns |-> "ns", name |-> "p1", created |-> 1,
             owners |-> <<[kind |-> "ReplicaSet", name |-> <<"web", "rs">>]>>,
             containers |-> <<Container("main", FALSE, "d1"),
                              Container("setup", TRUE, "d2")>>]]

Web == [ns |-> "ns", kind |-> "Deployment", name |-> <<"web">>, owners |-> <<>>]
MCWorkloads == {Web}

\* The premise of the theorem that no permanent workload is decommissioned holds here.
ASSUME DistinctNames
=============================================================================
