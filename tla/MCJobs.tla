-------------------------------- MODULE MCJobs --------------------------------
(***************************************************************************)
(* A CronJob that stays, one of its Jobs, which comes and goes, the pod of *)
(* that Job, and a pod of no workload that takes the Job pod's name.       *)
(***************************************************************************)
EXTENDS Controller, TLC

Owned(kind, name) == <<[kind |-> kind, name |-> name]>>
Main(digest) == <<[name |-> "main", init |-> FALSE, digest |-> digest]>>

MCPodInfo ==
    [job  |-> [ns |-> "ns", name |-> "backup-17-x",
               owners |-> Owned("Job", <<"backup", "17">>),
               containers |-> Main("d1")],
     bare |-> [ns |-> "ns", name |-> "backup-17-x",
               owners |-> <<>>,
               containers |-> Main("d1")]]

Backup   == [ns |-> "ns", kind |-> "CronJob", name |-> <<"backup">>, owners |-> <<>>]
Backup17 == [ns |-> "ns", kind |-> "Job", name |-> <<"backup", "17">>,
             owners |-> Owned("CronJob", <<"backup">>)]
MCWorkloads == {Backup, Backup17}
MCPermanent == {Backup}

\* The premises of the theorems on PermanentStaysDeployed and StableIdentity hold here.
ASSUME DistinctNames
ASSUME NamesIdentify
ASSUME CronJobsStay

\* The workers are interchangeable.
WorkerSymmetry == Permutations(Workers)
=============================================================================
