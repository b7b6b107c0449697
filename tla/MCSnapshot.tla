------------------------------ MODULE MCSnapshot ------------------------------
(***************************************************************************)
(* Pods of one workload: each with a main container, and perhaps a second  *)
(* one, which may go by the same deployment name.                          *)
(***************************************************************************)
EXTENDS Snapshot, TLC

Of(digest) == [dn |-> "web", digest |-> digest]
MCContainerLists ==
    {<<Of(d)>> : d \in {"", "d1", "d2"}}
        \cup {<<Of("d1"), Of("d3")>>, <<Of(""), [dn |-> "log", digest |-> "d2"]>>}

\* Two versions of the main container alone.
MCVersions == {<<Of("d1")>>, <<Of("d2")>>}

\* The pods differ only in what view says of them.
PodSymmetry == Permutations(Pods)
=============================================================================
