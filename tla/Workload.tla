------------------------------- MODULE Workload -------------------------------
(***************************************************************************)
(* internal/workload: which workload a pod belongs to, and whether that    *)
(* workload still exists in the listers' caches.                           *)
(*                                                                         *)
(* A Kubernetes name is the sequence of its dash-separated parts:          *)
(* "web-7f9c" is <<"web", "7f9c">>.  The empty sequence is Go's "".        *)
(* A lister cache is a set of objects [ns, kind, name, owners].            *)
(***************************************************************************)
EXTENDS Naturals, Sequences, FiniteSetsExt

CONSTANT Numerals  \* the name parts that consist of digits only

NoName == <<>>
NoIdentity == [name |-> NoName, kind |-> ""]
Identity(name, kind) == [name |-> name, kind |-> kind]
IsName(name) == name # NoName /\ name \in Seq({name[i] : i \in DOMAIN name})

SupportedKinds == {"ReplicaSet", "DaemonSet", "StatefulSet", "Job"}

HasSupportedOwner(owners) ==
    \E i \in DOMAIN owners : owners[i].kind \in SupportedKinds

IsTerminalPhase(phase) == phase \in {"Succeeded", "Failed"}

\* The name of the first owner reference of this kind, or "".
OwnerName(owners, kind) ==
    LET at == {i \in DOMAIN owners : owners[i].kind = kind}
    IN  IF at = {} THEN NoName ELSE owners[Min(at)].name

\* A name up to its last dash: name[:strings.LastIndex(name, "-")].
WithoutSuffix(name) == SubSeq(name, 1, Len(name) - 1)

GetJobOwnerName(owners) == OwnerName(owners, "Job")

GetDeploymentName(owners) ==
    LET rsName == OwnerName(owners, "ReplicaSet")
    IN  IF Len(rsName) > 1 THEN WithoutSuffix(rsName) ELSE rsName

InLister(lister, ns, kind, name) ==
    \E o \in lister : o.ns = ns /\ o.kind = kind /\ o.name = name

\* A faulty variant: a finished Job is never traced back to its CronJob by name.
IgnoreGeneratedName(lister, ns, job) == FALSE

\* The fallback for a Job that is gone: <cronjob>-<digits>, for a CronJob that exists.
FromCronJobName(lister, ns, job) ==
    /\ Len(job) > 1
    /\ job[Len(job)] \in Numerals
    /\ InLister(lister, ns, "CronJob", WithoutSuffix(job))

JobsNamed(lister, ns, job) == {o \in lister : o.ns = ns /\ o.kind = "Job" /\ o.name = job}

\* The workload of a Job that the Job lister does not have.
MissingJobWorkload(lister, ns, job) ==
    IF FromCronJobName(lister, ns, job)
    THEN Identity(WithoutSuffix(job), "CronJob")
    ELSE Identity(job, "Job")

resolveJobWorkload(lister, ns, job) ==
    LET found == JobsNamed(lister, ns, job)
        cron  == IF found = {} THEN NoName
                 ELSE OwnerName((CHOOSE o \in found : TRUE).owners, "CronJob")
    IN  CASE found # {} /\ cron # NoName -> Identity(cron, "CronJob")
          [] found # {} /\ cron = NoName -> Identity(job, "Job")
          [] OTHER -> MissingJobWorkload(lister, ns, job)

\* The top-level workload that owns a pod, NoIdentity when none does.
Resolve(lister, ns, owners) ==
    CASE GetDeploymentName(owners) # NoName ->
            Identity(GetDeploymentName(owners), "Deployment")
      [] OwnerName(owners, "DaemonSet") # NoName /\ GetDeploymentName(owners) = NoName ->
            Identity(OwnerName(owners, "DaemonSet"), "DaemonSet")
      [] /\ OwnerName(owners, "StatefulSet") # NoName
         /\ OwnerName(owners, "DaemonSet") = NoName /\ GetDeploymentName(owners) = NoName ->
            Identity(OwnerName(owners, "StatefulSet"), "StatefulSet")
      [] OTHER ->
            IF GetJobOwnerName(owners) = NoName THEN NoIdentity
            ELSE resolveJobWorkload(lister, ns, GetJobOwnerName(owners))

\* Resolve falls through to the pod's Job, which the Job lister does not have.  The
\* CronJob lister is another cache, read after it.
ThroughJob(owners) ==
    /\ GetDeploymentName(owners) = NoName
    /\ OwnerName(owners, "DaemonSet") = NoName
    /\ OwnerName(owners, "StatefulSet") = NoName
    /\ GetJobOwnerName(owners) # NoName

LacksJob(lister, ns, owners) ==
    ThroughJob(owners) /\ JobsNamed(lister, ns, GetJobOwnerName(owners)) = {}

IsActive(lister, ns, identity) == InLister(lister, ns, identity.kind, identity.name)
=============================================================================
