----------------------------- MODULE ReportingProofs -----------------------------
(***************************************************************************)
(* What the workers report: that an event counts as processed only when    *)
(* each container of its pod was answered for (HandledMeansReported), that *)
(* no workload which exists throughout is decommissioned                   *)
(* (PermanentStaysDeployed), and that all records about a container carry  *)
(* one deployment name (StableIdentity); for any workers and pods.         *)
(***************************************************************************)
EXTENDS AccountingProofs, NaturalsInduction, WellFoundedInduction

(***************************************************************************)
(* The resolver: a pod with a supported owner always has a workload.       *)
(***************************************************************************)
Below == {pair \in Nat \X Nat : pair[1] < pair[2]}

LEMMA LeastElement ==
    ASSUME NEW T \in SUBSET Nat, T # {}
    PROVE  Min(T) \in T
<1>1. IsWellFoundedOn(Below, Nat)
  BY NatLessThanWellFounded DEF OpToRel, Below
<1>2. PICK x \in T : \A y \in T : <<y, x>> \notin Below
  BY <1>1, WFMin
<1>3. ASSUME NEW y \in T PROVE x =< y
  <2>1. <<y, x>> \in Nat \X Nat /\ <<y, x>> \notin Below
    BY <1>2
  <2>2. ~(y < x)
    BY <2>1, Zenon DEF Below
  <2> QED
    BY <2>2
<1> QED
  BY <1>3 DEF Min

LEMMA OwnerNamed ==
    ASSUME NEW p \in Pods, NEW i \in DOMAIN PodInfo[p].owners
    PROVE  IsName(OwnerName(PodInfo[p].owners, PodInfo[p].owners[i].kind))
<1> DEFINE owners == PodInfo[p].owners
           same == {j \in DOMAIN owners : owners[j].kind = owners[i].kind}
<1>1. same # {} /\ same \in SUBSET Nat
  BY OwnersAssumption
<1>2. Min(same) \in DOMAIN owners
  BY <1>1, LeastElement
<1>3. IsName(owners[Min(same)].name)
  BY <1>2, OwnersAssumption
<1> QED
  BY <1>1, <1>3 DEF OwnerName

\* GetDeploymentName cuts the suffix off a ReplicaSet's name, never all of it.
LEMMA DeploymentNamed ==
    ASSUME NEW owners, IsName(OwnerName(owners, "ReplicaSet"))
    PROVE  GetDeploymentName(owners) # NoName
<1> DEFINE rs == OwnerName(owners, "ReplicaSet")
<1>1. PICK parts : rs \in Seq(parts) /\ rs # <<>>
  BY DEF IsName, NoName
<1>2. Len(rs) > 1 => Len(WithoutSuffix(rs)) = Len(rs) - 1
  BY <1>1 DEF WithoutSuffix
<1> QED
  BY <1>1, <1>2 DEF GetDeploymentName, NoName

LEMMA SupportedResolves ==
    ASSUME NEW p \in Pods, HasSupportedOwner(PodInfo[p].owners), NEW l
    PROVE  Resolve(l, PodInfo[p].ns, PodInfo[p].owners) # NoIdentity
<1> DEFINE owners == PodInfo[p].owners
<1>1. PICK i \in DOMAIN owners : owners[i].kind \in SupportedKinds
  BY DEF HasSupportedOwner
<1>2. IsName(OwnerName(owners, owners[i].kind)) 
  BY OwnerNamed
<1>3. \/ GetDeploymentName(owners) # NoName
      \/ \E kind \in {"DaemonSet", "StatefulSet", "Job"} : OwnerName(owners, kind) # NoName
  BY <1>1, <1>2, DeploymentNamed DEF SupportedKinds, IsName
<1>4. \A name, kind : kind # "" => Identity(name, kind) # NoIdentity
  BY DEF Identity, NoIdentity
<1>5. \A job : resolveJobWorkload(l, PodInfo[p].ns, job) # NoIdentity
  BY <1>4 DEF resolveJobWorkload, MissingJobWorkload, JobsNamed
<1>6. CASE GetDeploymentName(owners) # NoName
  BY <1>4, <1>6, Zenon DEF Resolve
<1>7. CASE GetDeploymentName(owners) = NoName /\ OwnerName(owners, "DaemonSet") # NoName
  BY <1>4, <1>7 DEF Resolve
<1>8. CASE /\ GetDeploymentName(owners) = NoName /\ OwnerName(owners, "DaemonSet") = NoName
           /\ OwnerName(owners, "StatefulSet") # NoName
  BY <1>4, <1>8 DEF Resolve
<1>9. CASE /\ GetDeploymentName(owners) = NoName /\ OwnerName(owners, "DaemonSet") = NoName
           /\ OwnerName(owners, "StatefulSet") = NoName /\ OwnerName(owners, "Job") # NoName
  <2>1. Resolve(l, PodInfo[p].ns, owners)
          = resolveJobWorkload(l, PodInfo[p].ns, OwnerName(owners, "Job"))
    BY <1>9 DEF Resolve, GetJobOwnerName
  <2> QED
    BY <1>5, <2>1
<1> QED
  BY <1>3, <1>6, <1>7, <1>8, <1>9


(***************************************************************************)
(* What a worker has behind it: the inductive invariant, for a set [known] *)
(* of records that the API applied or refused.                             *)
(***************************************************************************)
AccountedFor(known, p, i) ==
    LET digest == Containers(p)[i].digest
    IN  \/ digest \in missing \cup {NoDigest}
        \/ \E r \in known :
              r.status = "deployed" /\ r.digest = digest /\ r.dn \in ReportedAs[p][i]

\* A workload is one that Resolve found; and where the loop over the containers of
\* a reported pod ends.
ResolvedInv ==
    \A w \in Workers :
        /\ pc[w] \in AtContainer \cup {"active"} =>
              \E l \in SUBSET Workloads :
                  wl[w] = Resolve(l, PodInfo[subject[w].pod].ns, Owners(subject[w]))
        /\ (/\ pc[w] = "done" /\ event[w].type = Created /\ subject[w] # Nil
            /\ HasSupportedOwner(Owners(subject[w])))
              => at[w] > Len(Containers(subject[w].pod))

\* While no post has failed, the containers left behind are accounted for.
LoopInv(known) ==
    \A w \in Workers :
        (/\ event[w] # Nil /\ event[w].type = Created
         /\ subject[w] # Nil /\ subject[w].phase # "Pending" /\ ~lastErr[w]) =>
            \A i \in DOMAIN Containers(subject[w].pod) :
                i < at[w] => AccountedFor(known, subject[w].pod, i)

HandledInv(known) ==
    \A p \in {q \in Pods : HasSupportedOwner(PodInfo[q].owners)} :
        <<Created, p>> \in handled =>
            \A i \in DOMAIN Containers(p) : AccountedFor(known, p, i)

\* What the caches suppress is accounted for.
CacheInv(known) ==
    /\ \A r \in observed : r \in known \/ r.digest \in missing
    /\ unknown \subseteq missing

Reporting(known) ==
    ResolvedInv /\ LoopInv(known) /\ HandledInv(known) /\ CacheInv(known)

LEMMA AccountedKept ==
    ASSUME NEW A, NEW B, A \subseteq B, missing \subseteq missing',
           NEW p, NEW i, AccountedFor(A, p, i)
    PROVE  AccountedFor(B, p, i)'
BY DEF AccountedFor

\* The record of the container a worker is at, when it reports a pod that runs.
LEMMA RecordAccounts ==
    ASSUME TypeOK, ResolvedInv, NEW w \in Workers, pc[w] \in AtContainer,
           event[w].type = Created, subject[w].phase # "Pending"
    PROVE  /\ subject[w] # Nil /\ subject[w].pod \in Pods
           /\ at[w] \in DOMAIN Containers(subject[w].pod)
           /\ RecordOf(w).status = "deployed"
           /\ RecordOf(w).digest = Containers(subject[w].pod)[at[w]].digest
           /\ RecordOf(w).dn \in ReportedAs[subject[w].pod][at[w]]
<1> DEFINE p == subject[w].pod
<1>1. subject[w] \in PodObjects /\ p \in Pods /\ subject[w] # Nil
  BY NilAssumption DEF TypeOK, WorkerTypeOK, WorkerOK, AtContainer, PodObjects
<1>2. at[w] \in DOMAIN Containers(p)
  BY <1>1, ContainersProperties DEF TypeOK, WorkerTypeOK, WorkerOK, AtContainer
<1>3. PICK l \in SUBSET Workloads : wl[w] = Resolve(l, PodInfo[p].ns, PodInfo[p].owners)
  BY DEF ResolvedInv, Owners
<1>4. RecordOf(w).dn = DeploymentName(PodInfo[p].ns, wl[w].name, Containers(p)[at[w]].name)
  BY DEF RecordOf, BuildRecord
<1>5. RecordOf(w).dn \in ReportedAs[p][at[w]]
  BY <1>1, <1>2, <1>3, <1>4 DEF ReportedAs
<1>6. RecordOf(w).status = "deployed"
  BY DEF RecordOf, BuildRecord, Created, Deleted
<1>7. RecordOf(w).digest = Containers(p)[at[w]].digest
  BY DEF RecordOf, BuildRecord, ContainerDigest
<1> QED
  BY <1>1, <1>2, <1>5, <1>6, <1>7

\* A step that takes no worker further.
LEMMA FrameReporting ==
    ASSUME NEW A, NEW B, A \subseteq B, Reporting(A), CacheInv(B)', missing \subseteq missing',
           UNCHANGED <<event, subject, wl, at, lastErr, handled>>,
           \A v \in Workers : pc'[v] = pc[v] \/ (pc[v] \in AtContainer /\ pc'[v] \in AtContainer)
    PROVE  Reporting(B)'
<1>1. ResolvedInv'
  BY DEF Reporting, ResolvedInv, AtContainer
<1>2. LoopInv(B)'
  BY DEF Reporting, LoopInv, AccountedFor
<1>3. HandledInv(B)'
  BY DEF Reporting, HandledInv, AccountedFor
<1> QED
  BY <1>1, <1>2, <1>3 DEF Reporting

LEMMA CachesShrink ==
    ASSUME NEW A, NEW B, A \subseteq B, CacheInv(A), missing \subseteq missing',
           observed' \subseteq observed, unknown' \subseteq unknown
    PROVE  CacheInv(B)'
BY DEF CacheInv

LEMMA WorkResolved ==
    ASSUME TypeOK, FollowInv, ResolvedInv, NEW w \in Workers, Work(w)
    PROVE  ResolvedInv'
<1> DEFINE
      Found(v) == pc[v] \in AtContainer \cup {"active"} =>
                    \E l \in SUBSET Workloads :
                      wl[v] = Resolve(l, PodInfo[subject[v].pod].ns, Owners(subject[v]))
      AtEnd(v) == (/\ pc[v] = "done" /\ event[v].type = Created /\ subject[v] # Nil
                   /\ HasSupportedOwner(Owners(subject[v])))
                    => at[v] > Len(Containers(subject[v].pod))
<1>1. ASSUME NEW v \in Workers, v # w PROVE Found(v)' /\ AtEnd(v)'
  BY <1>1, OthersKeep DEF TypeOK, ResolvedInv
<1>2. Found(w)' /\ AtEnd(w)'
  <2>1. CASE GetEvent(w) \/ FinishEvent(w)
    BY <2>1 DEF GetEvent, FinishEvent, Goto, AtContainer, TypeOK, WorkerTypeOK
  <2>2. CASE Lookup(w)
    BY <2>2 DEF Lookup, Goto, AtContainer, TypeOK, WorkerTypeOK
  <2>3. CASE Resolving(w)
    <3> DEFINE p == subject[w].pod
    <3>1. subject[w] # Nil /\ p \in Pods /\ lister \in SUBSET Workloads
      BY <2>3 DEF Resolving, ResolveWorkload, FindNoJob, TryCronJob, TypeOK, ClusterTypeOK,
                  WorkerTypeOK, WorkerOK, PodObjects
    <3>2. \A l : HasSupportedOwner(Owners(subject[w])) =>
                   Resolve(l, PodInfo[p].ns, Owners(subject[w])) # NoIdentity
      BY <3>1, SupportedResolves DEF Owners
    <3>3. UNCHANGED <<event, subject, at>>
      BY <2>3, ResolvingStep DEF TypeOK
    <3>4. CASE pc' = [pc EXCEPT ![w] = "cronjob"]
      BY <3>4 DEF AtContainer, TypeOK, WorkerTypeOK
    <3>5. ASSUME NEW id, NEW step \in {"done", "active", "container"}, NEW l \in SUBSET lister,
                 wl' = [wl EXCEPT ![w] = id], pc' = [pc EXCEPT ![w] = step],
                 id = NoIdentity <=> step = "done",
                 id = Resolve(l, PodInfo[p].ns, Owners(subject[w]))
          PROVE  Found(w)' /\ AtEnd(w)'
      <4>1. wl'[w] = id /\ pc'[w] = step /\ l \in SUBSET Workloads
        BY <3>1, <3>5 DEF TypeOK, WorkerTypeOK
      <4>2. Found(w)'
        BY <3>3, <3>5, <4>1
      <4>3. AtEnd(w)'
        BY <3>2, <3>3, <3>5, <4>1
      <4> QED
        BY <4>2, <4>3
    <3> QED
      BY <2>3, <3>4, <3>5, ResolvingStep DEF TypeOK
  <2>4. CASE CheckActive(w)
    BY <2>4, NilAssumption DEF CheckActive, Goto, FollowInv, ResolvedInv, AtContainer, TypeOK,
             WorkerTypeOK, WorkerOK, Created, Deleted
  <2>5. CASE StartPost(w) \/ PostOk(w)
    BY <2>5 DEF StartPost, PostOk, Goto, ResolvedInv, AtContainer, TypeOK, WorkerTypeOK
  <2>6. CASE \/ SkipContainer(w) \/ Invalidate(w) \/ PostNotFound(w) \/ PostClientError(w)
             \/ PostFailed(w)
    <3>1. /\ pc[w] \in AtContainer /\ at[w] \in Nat
          /\ \E failed \in BOOLEAN : NextContainer(w, failed)
      BY <2>6 DEF SkipContainer, Invalidate, PostNotFound, PostClientError, PostFailed,
                  AtContainer, TypeOK, WorkerTypeOK
    <3>2. Len(Containers(subject[w].pod)) \in Nat
      BY <3>1, ContainersProperties DEF TypeOK, WorkerTypeOK, WorkerOK, AtContainer, PodObjects
    <3> QED
      BY <3>1, <3>2 DEF NextContainer, Goto, ResolvedInv, AtContainer, TypeOK, WorkerTypeOK
  <2> QED
    BY <2>1, <2>2, <2>3, <2>4, <2>5, <2>6 DEF Work, Resolving
<1> QED
  BY <1>1, <1>2 DEF ResolvedInv

\* The end of a container: it is accounted for, or the failure is noted.
LEMMA ContainerLeft ==
    ASSUME TypeOK, AnsweredWasApplied, NEW A, NEW B, A \subseteq B, applied \subseteq A,
           refused' \subseteq B, Reporting(A), NEW w \in Workers,
           \/ SkipContainer(w) \/ Invalidate(w) \/ PostNotFound(w) \/ PostClientError(w)
           \/ PostFailed(w),
           event[w].type = Created, subject[w].phase # "Pending",
           NEW p, p = subject[w].pod, NEW i, i = at[w]
    PROVE  lastErr'[w] \/ AccountedFor(B, p, i)'
<1>1. pc[w] \in AtContainer
  BY DEF SkipContainer, Invalidate, PostNotFound, PostClientError, PostFailed, AtContainer
<1>2. /\ RecordOf(w).status = "deployed" /\ RecordOf(w).dn \in ReportedAs[p][i]
      /\ RecordOf(w).digest = Containers(p)[i].digest
  BY <1>1, RecordAccounts DEF Reporting
<1>3. CASE SkipContainer(w)
  <2>1. Suppressed(RecordOf(w)) /\ missing' = missing
    BY <1>3 DEF SkipContainer, serverVars
  <2>2. RecordOf(w).digest \in missing \cup {NoDigest} \/ RecordOf(w) \in A
    BY <2>1 DEF Suppressed, Reporting, CacheInv
  <2> QED
    BY <1>2, <2>1, <2>2 DEF AccountedFor
<1>4. CASE Invalidate(w)
  <2>1. RecordOf(w) \in A
    BY <1>4 DEF Invalidate, AnsweredWasApplied
  <2> QED
    BY <1>2, <2>1 DEF AccountedFor
<1>5. CASE PostNotFound(w)
  <2>1. RecordOf(w).digest \in missing'
    BY <1>5 DEF PostNotFound
  <2> QED
    BY <1>2, <2>1 DEF AccountedFor
<1>6. CASE PostClientError(w)
  <2>1. RecordOf(w) \in B
    BY <1>6 DEF PostClientError
  <2> QED
    BY <1>2, <2>1 DEF AccountedFor
<1>7. CASE PostFailed(w)
  BY <1>7 DEF PostFailed, NextContainer, TypeOK, WorkerTypeOK
<1> QED
  BY <1>3, <1>4, <1>5, <1>6, <1>7

LEMMA WorkHistories ==
    ASSUME TypeOK, NEW w \in Workers, Work(w)
    PROVE  missing \subseteq missing' /\ refused \subseteq refused'
BY DEF Work, GetEvent, Lookup, ResolveWorkload, FindNoJob, TryCronJob, Resolved,
         CheckActive, SkipContainer, StartPost, PostOk,
       Invalidate, PostNotFound, PostClientError, PostFailed, FinishEvent, serverVars

LEMMA WorkLoop ==
    ASSUME TypeOK, AnsweredWasApplied, NEW A, NEW B, A \subseteq B, applied \subseteq A,
           refused' \subseteq B, Reporting(A), NEW w \in Workers, Work(w), TypeOK'
    PROVE  LoopInv(B)'
<1>0. missing \subseteq missing'
  BY WorkHistories
<1> DEFINE
      Reports(v) == /\ event[v] # Nil /\ event[v].type = Created
                    /\ subject[v] # Nil /\ subject[v].phase # "Pending" /\ ~lastErr[v]
<1>1. ASSUME NEW v \in Workers, Reports(v), NEW p, p = subject[v].pod,
             NEW i \in DOMAIN Containers(p), i < at[v]
      PROVE  AccountedFor(B, p, i)'
  <2>1. AccountedFor(A, p, i)
    BY <1>1 DEF Reporting, LoopInv
  <2> QED
    BY <1>0, <2>1, AccountedKept
<1>2. ASSUME NEW v \in Workers, v # w, Reports(v)', NEW p, p = subject'[v].pod,
             NEW i \in DOMAIN Containers(p), i < at'[v]
      PROVE  AccountedFor(B, p, i)'
  <2>1. Reports(v) /\ p = subject[v].pod /\ i < at[v]
    BY <1>2, OthersKeep DEF TypeOK
  <2> QED
    BY <1>1, <2>1
<1>3. ASSUME Reports(w)', NEW p, p = subject'[w].pod,
             NEW i \in DOMAIN Containers(p), i < at'[w]
      PROVE  AccountedFor(B, p, i)'
  <2>1. CASE at'[w] = 1
    <3>1. subject'[w] \in PodObjects
      <4>1. subject'[w] \in PodObjects \cup {Nil}
        BY DEF TypeOK, WorkerTypeOK
      <4> QED
        BY <1>3, <4>1
    <3>2. i \in Nat /\ i >= 1
      BY <1>3, <3>1, ContainersProperties DEF PodObjects
    <3> QED
      BY <1>3, <2>1, <3>2
  <2>2. CASE StartPost(w) \/ PostOk(w)
    BY <1>1, <1>3, <2>2 DEF StartPost, PostOk
  <2>3. CASE \/ SkipContainer(w) \/ Invalidate(w) \/ PostNotFound(w) \/ PostClientError(w)
             \/ PostFailed(w)
    <3>1. /\ UNCHANGED <<event, subject>> /\ at'[w] = at[w] + 1 /\ at[w] \in Nat
          /\ lastErr[w] => lastErr'[w]
      BY <2>3 DEF SkipContainer, Invalidate, PostNotFound, PostClientError, PostFailed,
                  NextContainer, TypeOK, WorkerTypeOK
    <3>2. p \in Pods /\ i \in Nat
      BY <1>3, <3>1, ContainersProperties DEF TypeOK, WorkerTypeOK, PodObjects
    <3>3. CASE i < at[w]
      BY <1>1, <1>3, <3>1, <3>3
    <3>4. CASE i = at[w]
      BY <1>3, <2>3, <3>1, <3>4, ContainerLeft
    <3> QED
      BY <1>3, <3>1, <3>2, <3>3, <3>4
  <2>4. CASE \/ GetEvent(w) \/ Lookup(w) \/ Resolving(w) \/ CheckActive(w)
             \/ FinishEvent(w)
    <3>1. at'[w] = 1
      BY <2>4 DEF GetEvent, Lookup, Resolving, ResolveWorkload, FindNoJob, TryCronJob,
                  Resolved, CheckActive, FinishEvent, TypeOK, WorkerTypeOK, WorkerOK
    <3> QED
      BY <2>1, <3>1
  <2> QED
    BY <2>2, <2>3, <2>4 DEF Work, Resolving
<1> QED
  BY <1>2, <1>3 DEF LoopInv

LEMMA WorkHandled ==
    ASSUME TypeOK, NEW A, NEW B, A \subseteq B, Reporting(A), NEW w \in Workers, Work(w)
    PROVE  HandledInv(B)'
<1>1. missing \subseteq missing'
  BY WorkHistories
<1> SUFFICES ASSUME NEW p \in Pods, HasSupportedOwner(PodInfo[p].owners),
                    <<Created, p>> \in handled', NEW i \in DOMAIN Containers(p)
             PROVE  AccountedFor(B, p, i)'
  BY DEF HandledInv
<1>2. CASE <<Created, p>> \in handled
  <2>1. AccountedFor(A, p, i)
    BY <1>2 DEF Reporting, HandledInv
  <2> QED
    BY <1>1, <2>1, AccountedKept
<1>3. CASE <<Created, p>> \notin handled
  <2>1. FinishEvent(w)
    BY <1>3 DEF Work, GetEvent, Lookup, ResolveWorkload, FindNoJob, TryCronJob, Resolved,
         CheckActive, SkipContainer, StartPost,
           PostOk, Invalidate, PostNotFound, PostClientError, PostFailed
  <2>2. /\ subject[w] # Nil /\ ~lastErr[w] /\ event[w].type = Created
        /\ subject[w].pod = p /\ subject[w].phase # "Pending"
    BY <1>3, <2>1 DEF FinishEvent, NoteHandled, Created, Deleted
  <2>3. pc[w] = "done" /\ event[w] # Nil
    BY <2>1 DEF FinishEvent, TypeOK, WorkerTypeOK, WorkerOK
  <2>4. at[w] > Len(Containers(p))
    BY <2>2, <2>3 DEF Reporting, ResolvedInv, Owners
  <2>5. i < at[w]
    BY <2>4, ContainersProperties DEF TypeOK, WorkerTypeOK
  <2>6. AccountedFor(A, p, i)
    BY <2>2, <2>3, <2>5 DEF Reporting, LoopInv
  <2> QED
    BY <1>1, <2>6, AccountedKept
<1> QED
  BY <1>2, <1>3

LEMMA WorkCaches ==
    ASSUME TypeOK, AnsweredWasApplied, NEW A, NEW B, A \subseteq B, applied \subseteq A,
           CacheInv(A), NEW w \in Workers, Work(w)
    PROVE  CacheInv(B)'
<1>1. missing \subseteq missing'
  BY WorkHistories
<1>2. CASE PostOk(w)
  <2>1. RecordOf(w) \in applied
    BY <1>2 DEF PostOk, AnsweredWasApplied
  <2> QED
    BY <1>1, <1>2, <2>1 DEF PostOk, CacheInv, serverVars
<1>3. CASE PostNotFound(w)
  BY <1>3 DEF PostNotFound, CacheInv
<1>4. CASE ~PostOk(w) /\ ~PostNotFound(w)
  <2>1. observed' \subseteq observed /\ unknown' = unknown
    BY <1>4 DEF Work, GetEvent, Lookup, ResolveWorkload, FindNoJob, TryCronJob, Resolved,
         CheckActive, SkipContainer, StartPost,
           Invalidate, PostClientError, PostFailed, FinishEvent, cacheVars
  <2> QED
    BY <1>1, <2>1 DEF CacheInv
<1> QED
  BY <1>2, <1>3, <1>4

\* What is known before a step of a worker, and after it.
LEMMA WorkReporting ==
    ASSUME TypeOK, TypeOK', FollowInv, AnsweredWasApplied,
           NEW A, NEW B, A \subseteq B, applied \subseteq A, refused' \subseteq B,
           Reporting(A), NEW w \in Workers, Work(w)
    PROVE  Reporting(B)'
BY WorkResolved, WorkLoop, WorkHandled, WorkCaches DEF Reporting

\* The steps that are not a worker's move it at most within its post.
LEMMA StepsOfOthers ==
    ASSUME TypeOK, Cluster \/ Deliver \/ Network \/ Expire \/ RetryDelayEnds \/ Lifecycle
    PROVE  \A v \in Workers :
              pc'[v] = pc[v] \/ (pc[v] \in AtContainer /\ pc'[v] \in AtContainer)
<1>1. CASE Cluster \/ Deliver \/ Lifecycle
  BY <1>1 DEF Cluster, Deliver, Lifecycle, workerVars
<1>2. CASE Network \/ Expire \/ RetryDelayEnds
  BY <1>2, OtherSteps
<1> QED
  BY <1>1, <1>2

LEMMA OtherReporting ==
    ASSUME TypeOK, NEW A, NEW B, A \subseteq B, Reporting(A),
           Cluster \/ Deliver \/ Network \/ Expire \/ RetryDelayEnds \/ Lifecycle
    PROVE  Reporting(B)'
<1>1. missing' = missing /\ observed' \subseteq observed /\ unknown' \subseteq unknown
  BY DEF Cluster, Deliver, Network, ServerApply, AnswerLost, RequestDelayed, LateApply, Expire,
         RetryDelayEnds, Lifecycle, cacheVars, serverVars
<1>2. UNCHANGED <<event, subject, wl, at, lastErr, handled>>
  BY DEF Cluster, Deliver, Network, ServerApply, AnswerLost, RequestDelayed, LateApply, Expire,
         RetryDelayEnds, Lifecycle, workerVars
<1>3. \A v \in Workers : pc'[v] = pc[v] \/ (pc[v] \in AtContainer /\ pc'[v] \in AtContainer)
  BY StepsOfOthers
<1> QED
  BY <1>1, <1>2, <1>3, CachesShrink, FrameReporting DEF Reporting

LEMMA InitReporting ==
    ASSUME Init
    PROVE  Reporting({})
BY DEF Init, InitWith, Reporting, ResolvedInv, LoopInv, HandledInv, CacheInv, AtContainer

Answered == applied \cup refused

LEMMA NextReporting ==
    ASSUME TypeOK, TypeOK', FollowInv, AnsweredWasApplied, Reporting(Answered), [Next]_vars
    PROVE  Reporting(Answered)'
<1>1. ASSUME NEW w \in Workers, Work(w) PROVE Reporting(Answered)'
  <2>1. Answered \subseteq Answered' /\ applied \subseteq Answered /\ refused' \subseteq Answered'
    BY <1>1, WorkAnswered, WorkHistories DEF Answered
  <2> QED
    BY <1>1, <2>1, WorkReporting
       DEF Reporting, LoopInv, HandledInv, CacheInv, AccountedFor
<1>2. CASE Cluster \/ Deliver \/ Network \/ Expire \/ RetryDelayEnds \/ Lifecycle
  <2>1. Answered \subseteq Answered'
    BY <1>2, NetworkAnswered DEF Answered, Cluster, Deliver, Network, ServerApply, AnswerLost,
          RequestDelayed, LateApply, Expire, RetryDelayEnds, Lifecycle, serverVars
  <2> QED
    BY <1>2, <2>1, OtherReporting
       DEF Reporting, LoopInv, HandledInv, CacheInv, AccountedFor
<1>3. CASE UNCHANGED vars
  <2>1. /\ UNCHANGED <<pc, event, subject, wl, at, lastErr, handled, observed, unknown, missing>>
        /\ Answered' = Answered
    BY <1>3 DEF vars, workerVars, cacheVars, serverVars, Answered
  <2> QED
    BY <2>1 DEF Reporting, ResolvedInv, LoopInv, HandledInv, CacheInv, AccountedFor
<1> QED
  BY <1>1, <1>2, <1>3 DEF Next, Running, Exited

LEMMA AlwaysReporting == Spec => []Reporting(Answered)
<1>1. Init => AnsweredWasApplied /\ Reporting(Answered)
  <2> SUFFICES ASSUME Init PROVE AnsweredWasApplied /\ Reporting(Answered)
    OBVIOUS
  <2>1. AnsweredWasApplied
    BY DEF Init, InitWith, AnsweredWasApplied
  <2>2. Answered = {}
    BY DEF Init, InitWith, Answered
  <2> QED
    BY <2>1, <2>2, InitReporting
<1>2. TypeOK /\ TypeOK' /\ Accounting /\ CachedWasApplied
         /\ AnsweredWasApplied /\ Reporting(Answered) /\ [Next]_vars
        => AnsweredWasApplied' /\ Reporting(Answered)'
  BY NextReporting, NextApplied DEF Accounting
<1> QED
  BY <1>1, <1>2, TypeCorrect, AlwaysAccounting, CacheJustified, PTL DEF Spec

\* A CREATED event that counts as processed has had each container of its pod answered
\* for (processEvent, recordContainer): the API applied or refused its record or does
\* not know its artifact.  No error is lost behind the success of another container and
\* no cache suppresses what was never reported, for any cluster and any failures.
THEOREM NothingUnreported == Spec => []HandledMeansReported
<1>1. Reporting(Answered) => HandledMeansReported
  BY DEF Reporting, HandledInv, AccountedFor, HandledMeansReported, Answered
<1> QED
  BY <1>1, AlwaysReporting, PTL

(***************************************************************************)
(* No permanent workload is decommissioned.                                *)
(***************************************************************************)
\* Identity id of pod p's workload is that of object o.
Identifies(id, p, o) == o.ns = PodInfo[p].ns /\ o.kind = id.kind /\ o.name = id.name

\* The workers run on synced caches, and a worker that decommissions has seen that
\* its workload is gone.
PermanentInv ==
    \A w \in Workers :
        /\ pc[w] # "idle" => Permanent \subseteq lister
        /\ pc[w] \in AtContainer /\ event[w].type = Deleted =>
              \A o \in Permanent : ~Identifies(wl[w], subject[w].pod, o)

CachesSynced == main \notin {"syncing", "failed"} => Permanent \subseteq lister

LEMMA NamesTellApart ==
    ASSUME DistinctNames, NEW o \in Permanent, NEW p \in Pods, NEW q \in Pods,
           NEW l \in SUBSET Workloads, NEW i \in DOMAIN Containers(p),
           NEW j \in DOMAIN Containers(q)
    PROVE  LET id == Resolve(l, PodInfo[p].ns, PodInfo[p].owners)
           IN  DeploymentName(PodInfo[p].ns, id.name, Containers(p)[i].name)
                 = DeploymentName(o.ns, o.name, Containers(q)[j].name)
               => Identifies(id, p, o)
BY DEF DistinctNames, Identifies

\* The record of a deletion carries another name than any permanent workload.
LEMMA DeletionRecords ==
    ASSUME DistinctNames, TypeOK, ResolvedInv, PermanentInv, NEW w \in Workers,
           pc[w] \in AtContainer, RecordOf(w).status = "decommissioned",
           NEW o \in Permanent, NEW q \in Pods, NEW j \in DOMAIN Containers(q)
    PROVE  RecordOf(w).dn # DeploymentName(o.ns, o.name, Containers(q)[j].name)
<1> DEFINE p == subject[w].pod
<1>1. event[w].type = Deleted
  BY DEF RecordOf, BuildRecord
<1>2. p \in Pods
  BY DEF TypeOK, WorkerTypeOK, WorkerOK, AtContainer, PodObjects
<1>3. at[w] \in DOMAIN Containers(p)
  BY <1>2, ContainersProperties DEF TypeOK, WorkerTypeOK, WorkerOK, AtContainer
<1>4. PICK l \in SUBSET Workloads : wl[w] = Resolve(l, PodInfo[p].ns, PodInfo[p].owners)
  BY DEF ResolvedInv, Owners
<1>5. RecordOf(w).dn = DeploymentName(PodInfo[p].ns, wl[w].name, Containers(p)[at[w]].name)
  BY DEF RecordOf, BuildRecord
<1>6. ~Identifies(wl[w], p, o)
  BY <1>1 DEF PermanentInv
<1>7. DeploymentName(PodInfo[p].ns, wl[w].name, Containers(p)[at[w]].name)
        = DeploymentName(o.ns, o.name, Containers(q)[j].name)
      => Identifies(wl[w], p, o)
  BY <1>2, <1>3, <1>4, NamesTellApart
<1> QED
  BY <1>5, <1>6, <1>7

LEMMA ClusterKeepsPermanent ==
    ASSUME Cluster, Permanent \subseteq lister
    PROVE  Permanent \subseteq lister'
BY DEF Cluster, PodAdded, PodUpdated, PodRemoved, PodReplaced, WorkloadAdded, WorkloadRemoved

\* A worker that takes its event when the caches are synced.
LEMMA WorkPermanent ==
    ASSUME TypeOK, FollowInv, PermanentInv, NEW w \in Workers, Work(w),
           main # "syncing" => Permanent \subseteq lister
    PROVE  PermanentInv'
<1> DEFINE Sees(v) == pc[v] # "idle" => Permanent \subseteq lister
           Spares(v) == pc[v] \in AtContainer /\ event[v].type = Deleted =>
                          \A o \in Permanent : ~Identifies(wl[v], subject[v].pod, o)
<1>0. lister' = lister
  BY DEF Work, GetEvent, Lookup, ResolveWorkload, FindNoJob, TryCronJob, Resolved,
         CheckActive, SkipContainer, StartPost, PostOk,
         Invalidate, PostNotFound, PostClientError, PostFailed, FinishEvent, clusterVars
<1>1. \A v \in Workers : v # w => Sees(v)' /\ Spares(v)'
  BY <1>0, OthersKeep DEF TypeOK, PermanentInv
<1>2. Sees(w)'
  <2>1. CASE GetEvent(w)
    BY <1>0, <2>1 DEF GetEvent
  <2>2. CASE ~GetEvent(w)
    <3>1. pc[w] # "idle"
      BY <2>2 DEF Work, Lookup, ResolveWorkload, FindNoJob, TryCronJob, Resolved,
         CheckActive, SkipContainer, StartPost,
         PostOk, Invalidate, PostNotFound, PostClientError, PostFailed, FinishEvent
    <3> QED
      BY <1>0, <3>1 DEF PermanentInv
  <2> QED
    BY <2>1, <2>2
<1>3. Spares(w)'
  <2>1. CASE GetEvent(w) \/ Lookup(w) \/ FinishEvent(w)
    BY <2>1 DEF GetEvent, Lookup, FinishEvent, Goto, AtContainer, TypeOK, WorkerTypeOK
  <2>2. CASE Resolving(w)
    <3>1. /\ event' = event
          /\ \E step \in PCs :
                /\ pc' = [pc EXCEPT ![w] = step]
                /\ event[w].type = Deleted => step \in {"cronjob", "done", "active"}
      BY <2>2, ResolvingStep DEF TypeOK, PCs
    <3> QED
      BY <3>1 DEF AtContainer, TypeOK, WorkerTypeOK
  <2>3. CASE CheckActive(w)
    <3>1. /\ pc[w] = "active" /\ UNCHANGED <<event, subject, wl>>
          /\ pc'[w] \in AtContainer => ~IsActive(lister, PodInfo[subject[w].pod].ns, wl[w])
      BY <2>3 DEF CheckActive, Goto, AtContainer, TypeOK, WorkerTypeOK
    <3>2. Permanent \subseteq lister
      BY <3>1 DEF PermanentInv
    <3> QED
      BY <3>1, <3>2 DEF IsActive, InLister, Identifies
  <2>4. CASE \/ SkipContainer(w) \/ StartPost(w) \/ PostOk(w) \/ Invalidate(w)
             \/ PostNotFound(w) \/ PostClientError(w) \/ PostFailed(w)
    <3>1. pc[w] \in AtContainer /\ UNCHANGED <<event, subject, wl>>
      BY <2>4 DEF SkipContainer, StartPost, PostOk, Invalidate, PostNotFound, PostClientError,
                  PostFailed, NextContainer, AtContainer
    <3> QED
      BY <3>1 DEF PermanentInv
  <2> QED
    BY <2>1, <2>2, <2>3, <2>4 DEF Work, Resolving
<1> QED
  BY <1>1, <1>2, <1>3 DEF PermanentInv

LEMMA OtherPermanent ==
    ASSUME TypeOK, PermanentInv,
           Cluster \/ Deliver \/ Network \/ Expire \/ RetryDelayEnds \/ Lifecycle
    PROVE  PermanentInv'
<1>1. Permanent \subseteq lister => Permanent \subseteq lister'
  <2>1. CASE Cluster
    BY <2>1, ClusterKeepsPermanent
  <2>2. CASE ~Cluster
    BY <2>2 DEF Deliver, Network, Expire, RetryDelayEnds, Lifecycle, clusterVars
  <2> QED
    BY <2>1, <2>2
<1>2. UNCHANGED <<event, subject, wl>>
  BY DEF Cluster, Deliver, Network, ServerApply, AnswerLost, RequestDelayed, LateApply, Expire,
         RetryDelayEnds, Lifecycle, workerVars
<1>3. \A v \in Workers : pc'[v] = pc[v] \/ (pc[v] \in AtContainer /\ pc'[v] \in AtContainer)
  BY StepsOfOthers
<1> QED
  BY <1>1, <1>2, <1>3 DEF PermanentInv, AtContainer

\* What is posted is the record of some worker at a container.
LEMMA NewRecords ==
    ASSUME Cluster \/ Deliver \/ Network \/ Expire \/ RetryDelayEnds \/ Lifecycle
             \/ \E w \in Workers : Work(w),
           NEW r \in (applied \cup late)', r \notin applied \cup late
    PROVE  \E w \in Workers : pc[w] \in AtContainer /\ r = RecordOf(w)
<1>1. CASE Network
  BY <1>1 DEF Network, ServerApply, AnswerLost, RequestDelayed, LateApply, Apply, AtContainer
<1>2. CASE ~Network
  BY <1>2 DEF Cluster, Deliver, Work, GetEvent, Lookup, ResolveWorkload, FindNoJob, TryCronJob, Resolved,
         CheckActive,
       SkipContainer, StartPost, PostOk, Invalidate, PostNotFound, PostClientError, PostFailed,
       FinishEvent, Expire, RetryDelayEnds, Lifecycle, serverVars
<1> QED
  BY <1>1, <1>2

\* No step of these decommissions a permanent workload.
LEMMA StaysDeployed ==
    ASSUME DistinctNames, TypeOK, ResolvedInv, PermanentInv, PermanentStaysDeployed,
           Cluster \/ Deliver \/ Network \/ Expire \/ RetryDelayEnds \/ Lifecycle
             \/ \E w \in Workers : Work(w)
    PROVE  PermanentStaysDeployed'
BY NewRecords, DeletionRecords DEF PermanentStaysDeployed

LEMMA NextPermanent ==
    ASSUME DistinctNames, TypeOK, FollowInv, ResolvedInv, CachesSynced, PermanentInv,
           PermanentStaysDeployed, [Next]_vars
    PROVE  CachesSynced' /\ PermanentInv' /\ PermanentStaysDeployed'
<1>1. CASE Cluster
  BY <1>1, ClusterKeepsPermanent, OtherPermanent, StaysDeployed
     DEF Cluster, CachesSynced, runVars
<1>2. CASE Deliver \/ Network \/ Expire \/ RetryDelayEnds
  <2>1. UNCHANGED <<main, lister>>
    BY <1>2 DEF Deliver, Network, Expire, RetryDelayEnds, clusterVars, runVars
  <2> QED
    BY <1>2, <2>1, OtherPermanent, StaysDeployed DEF CachesSynced
<1>3. CASE Lifecycle
  <2>1. CachesSynced'
    BY <1>3 DEF Lifecycle, StartWorkers, SyncFails, Cancel, RunReturns, Exit, CachesSynced,
                clusterVars
  <2> QED
    BY <1>3, <2>1, OtherPermanent, StaysDeployed
<1>4. ASSUME Running, NEW w \in Workers, Work(w)
      PROVE  CachesSynced' /\ PermanentInv' /\ PermanentStaysDeployed'
  <2>1. UNCHANGED <<main, lister>>
    BY <1>4 DEF Work, GetEvent, Lookup, ResolveWorkload, FindNoJob, TryCronJob, Resolved,
         CheckActive, SkipContainer, StartPost,
       PostOk, Invalidate, PostNotFound, PostClientError, PostFailed, FinishEvent, clusterVars,
       runVars
  <2>2. main # "syncing" => Permanent \subseteq lister
    BY <1>4 DEF Running, CachesSynced
  <2> QED
    BY <1>4, <2>1, <2>2, WorkPermanent, StaysDeployed DEF CachesSynced
<1>5. CASE UNCHANGED vars
  <2>1. /\ UNCHANGED <<main, lister, pc, event, subject, wl, applied, late>>
    BY <1>5 DEF vars, clusterVars, runVars, workerVars, serverVars
  <2> QED
    BY <2>1 DEF CachesSynced, PermanentInv, PermanentStaysDeployed
<1> QED
  BY <1>1, <1>2, <1>3, <1>4, <1>5 DEF Next, Exited

\* No deployment of a workload that exists throughout is ever decommissioned: a worker
\* decommissions only what it saw gone from synced caches (workloadActive), provided
\* that no two workloads share a deployment name.
THEOREM PermanentNeverDecommissioned ==
    ASSUME DistinctNames
    PROVE  Spec => []PermanentStaysDeployed
<1>1. Init => CachesSynced /\ PermanentInv /\ PermanentStaysDeployed
  BY DEF Init, InitWith, CachesSynced, PermanentInv, PermanentStaysDeployed, AtContainer
<1>2. TypeOK /\ Accounting /\ Reporting(Answered) /\ CachesSynced /\ PermanentInv
        /\ PermanentStaysDeployed /\ [Next]_vars
        => CachesSynced' /\ PermanentInv' /\ PermanentStaysDeployed'
  BY NextPermanent DEF Accounting, Reporting
<1> QED
  BY <1>1, <1>2, TypeCorrect, AlwaysAccounting, AlwaysReporting, PTL DEF Spec

(***************************************************************************)
(* One deployment name for a container.                                    *)
(***************************************************************************)
WorkloadOf(l, p) == Resolve(l, PodInfo[p].ns, PodInfo[p].owners)

\* The pod's workload is looked for among the Jobs: no other owner decides it.
OwnedByJob(p) == ThroughJob(PodInfo[p].owners)

JobOf(p) == GetJobOwnerName(PodInfo[p].owners)

LEMMA ResolvedByJob ==
    ASSUME NEW p \in Pods, OwnedByJob(p), NEW l
    PROVE  WorkloadOf(l, p) = resolveJobWorkload(l, PodInfo[p].ns, JobOf(p))
BY DEF WorkloadOf, OwnedByJob, ThroughJob, JobOf, Resolve

LEMMA ResolvedByOthers ==
    ASSUME NEW p \in Pods, ~OwnedByJob(p), NEW l, NEW m
    PROVE  WorkloadOf(l, p) = WorkloadOf(m, p) /\ WorkloadOf(l, p).kind # "Job"
<1> DEFINE owners == PodInfo[p].owners
<1>1. CASE GetDeploymentName(owners) # NoName
  BY <1>1 DEF WorkloadOf, Resolve, Identity
<1>2. CASE GetDeploymentName(owners) = NoName /\ OwnerName(owners, "DaemonSet") # NoName
  BY <1>2 DEF WorkloadOf, Resolve, Identity
<1>3. CASE /\ GetDeploymentName(owners) = NoName /\ OwnerName(owners, "DaemonSet") = NoName
           /\ OwnerName(owners, "StatefulSet") # NoName
  BY <1>3 DEF WorkloadOf, Resolve, Identity
<1>4. CASE /\ GetDeploymentName(owners) = NoName /\ OwnerName(owners, "DaemonSet") = NoName
           /\ OwnerName(owners, "StatefulSet") = NoName /\ GetJobOwnerName(owners) = NoName
  BY <1>4 DEF WorkloadOf, Resolve, NoIdentity
<1> QED
  BY <1>1, <1>2, <1>3, <1>4 DEF OwnedByJob, ThroughJob

\* Where CronJobs stay, a Job resolves to its CronJob from any lister that holds it; a
\* lister that does not can only yield the Job.
LEMMA JobResolves ==
    ASSUME CronJobsStay, NEW p \in Pods, JobOf(p) # NoName
    PROVE  \E id :
             /\ \A l \in SUBSET Workloads : Permanent \subseteq l =>
                   resolveJobWorkload(l, PodInfo[p].ns, JobOf(p)) = id
             /\ \A l \in SUBSET Workloads :
                   resolveJobWorkload(l, PodInfo[p].ns, JobOf(p))
                     \in {id, Identity(JobOf(p), "Job")}
<1> DEFINE ns == PodInfo[p].ns
           job == JobOf(p)
           CronJobOf(o) == OwnerName(o.owners, "CronJob")
           found(l) == {o \in l : o.ns = ns /\ o.kind = "Job" /\ o.name = job}
           picked(l) == CHOOSE o \in found(l) : TRUE
<1>1. \A l \in SUBSET Workloads : found(l) # {} => picked(l) \in found(Workloads)
  OBVIOUS
<1>2. \A l, m : l \subseteq m /\ FromCronJobName(l, ns, job) => FromCronJobName(m, ns, job)
  BY DEF FromCronJobName, InLister
<1>3. CASE /\ FromCronJobName(Permanent, ns, job)
           /\ \A o \in found(Workloads) : CronJobOf(o) = WithoutSuffix(job)
  <2> DEFINE id == Identity(WithoutSuffix(job), "CronJob")
  <2>1. WithoutSuffix(job) # NoName
    <3>1. PICK i \in DOMAIN PodInfo[p].owners : PodInfo[p].owners[i].kind = "Job"
      BY DEF JobOf, GetJobOwnerName, OwnerName
    <3>2. IsName(job)
      BY <3>1, OwnerNamed DEF JobOf, GetJobOwnerName
    <3>3. PICK parts : job \in Seq(parts)
      BY <3>2 DEF IsName
    <3> HIDE DEF job
    <3>4. Len(job) > 1
      BY <1>3 DEF FromCronJobName
    <3>5. Len(WithoutSuffix(job)) = Len(job) - 1
      BY <3>3, <3>4 DEF WithoutSuffix
    <3> QED
      BY <3>3, <3>4, <3>5 DEF NoName
  <2>2. ASSUME NEW l \in SUBSET Workloads, found(l) # {}
        PROVE  resolveJobWorkload(l, ns, job) = id
    <3>1. CronJobOf(picked(l)) = WithoutSuffix(job)
      BY <1>1, <1>3, <2>2
    <3> QED
      BY <2>1, <2>2, <3>1 DEF resolveJobWorkload, MissingJobWorkload, JobsNamed
  <2>3. ASSUME NEW l \in SUBSET Workloads, found(l) = {}
        PROVE  resolveJobWorkload(l, ns, job) =
                 IF FromCronJobName(l, ns, job) THEN id ELSE Identity(job, "Job")
    BY <2>3 DEF resolveJobWorkload, MissingJobWorkload, JobsNamed
  <2>4. \A l \in SUBSET Workloads : Permanent \subseteq l => FromCronJobName(l, ns, job)
    BY <1>2, <1>3
  <2> HIDE DEF id, job, ns
  <2>5. /\ \A l \in SUBSET Workloads : Permanent \subseteq l =>
              resolveJobWorkload(l, ns, job) = id
        /\ \A l \in SUBSET Workloads :
              resolveJobWorkload(l, ns, job) \in {id, Identity(job, "Job")}
    BY <2>2, <2>3, <2>4
  <2> QED
    BY <2>5 DEF ns, job
<1>4. CASE /\ ~FromCronJobName(Workloads, ns, job)
           /\ \A o \in found(Workloads) : CronJobOf(o) = NoName
  <2>1. ASSUME NEW l \in SUBSET Workloads, found(l) # {}
        PROVE  resolveJobWorkload(l, ns, job) = Identity(job, "Job")
    <3>1. CronJobOf(picked(l)) = NoName
      BY <1>1, <1>4, <2>1
    <3> QED
      BY <2>1, <3>1 DEF resolveJobWorkload, MissingJobWorkload, JobsNamed
  <2>2. ASSUME NEW l \in SUBSET Workloads, found(l) = {}
        PROVE  resolveJobWorkload(l, ns, job) = Identity(job, "Job")
    BY <1>2, <1>4, <2>2 DEF resolveJobWorkload, MissingJobWorkload, JobsNamed
  <2> QED
    BY <2>1, <2>2
<1> QED
  BY <1>3, <1>4 DEF CronJobsStay, JobOf, GeneratedBy, FromCronJobName, InLister

\* From any two listers that hold the permanent workloads, a pod has one workload; from
\* any other it has that one, or its Job.
LEMMA OneWorkload ==
    ASSUME CronJobsStay, NEW p \in Pods, NEW l \in SUBSET Workloads
    PROVE  /\ Permanent \subseteq l => WorkloadOf(l, p) = WorkloadOf(Permanent, p)
           /\ \/ WorkloadOf(l, p) = WorkloadOf(Permanent, p)
              \/ OwnedByJob(p) /\ WorkloadOf(l, p) = Identity(JobOf(p), "Job")
<1>0. Permanent \in SUBSET Workloads
  BY PermanentAssumption
<1>1. CASE ~OwnedByJob(p)
  BY <1>1, ResolvedByOthers
<1>2. CASE OwnedByJob(p)
  <2>1. JobOf(p) # NoName
    BY <1>2 DEF OwnedByJob, ThroughJob, JobOf
  <2>2. PICK id :
          /\ \A k \in SUBSET Workloads : Permanent \subseteq k =>
                resolveJobWorkload(k, PodInfo[p].ns, JobOf(p)) = id
          /\ \A k \in SUBSET Workloads :
                resolveJobWorkload(k, PodInfo[p].ns, JobOf(p))
                  \in {id, Identity(JobOf(p), "Job")}
    BY <2>1, JobResolves
  <2> QED
    BY <1>0, <1>2, <2>2, ResolvedByJob
<1> QED
  BY <1>1, <1>2

\* A name that some resolution gives a container is the one that any synced lister gives,
\* if it was found from a synced lister, for whatever pod.
NamedBy(dn, p, l, i) ==
    dn = DeploymentName(PodInfo[p].ns, WorkloadOf(l, p).name, Containers(p)[i].name)

NameFound(dn) ==
    \E p \in Pods, l \in SUBSET Workloads : \E i \in DOMAIN Containers(p) :
        Permanent \subseteq l /\ NamedBy(dn, p, l, i)

LEMMA OneName ==
    ASSUME NamesIdentify, CronJobsStay, NEW p \in Pods, NEW i \in DOMAIN Containers(p),
           NEW dn \in ReportedAs[p][i], NameFound(dn)
    PROVE  NamedBy(dn, p, Permanent, i)
<1>1. PICK k \in SUBSET Workloads : NamedBy(dn, p, k, i)
  BY DEF ReportedAs, NamedBy, WorkloadOf
<1>2. PICK q \in Pods, l \in SUBSET Workloads :
         \E j \in DOMAIN Containers(q) : Permanent \subseteq l /\ NamedBy(dn, q, l, j)
  BY DEF NameFound
<1>3. PodInfo[p].ns = PodInfo[q].ns /\ WorkloadOf(k, p) = WorkloadOf(l, q)
  BY <1>1, <1>2 DEF NamesIdentify, NamedBy, WorkloadOf
<1>4. CASE WorkloadOf(k, p) = WorkloadOf(Permanent, p)
  BY <1>1, <1>4 DEF NamedBy
<1>5. CASE OwnedByJob(p) /\ WorkloadOf(k, p) = Identity(JobOf(p), "Job")
  <2>1. WorkloadOf(l, q) = Identity(JobOf(p), "Job")
    BY <1>3, <1>5
  <2>2. OwnedByJob(q)
    BY <2>1, ResolvedByOthers DEF Identity
  <2>3. JobOf(q) = JobOf(p)
    <3>1. resolveJobWorkload(l, PodInfo[q].ns, JobOf(q)) = Identity(JobOf(p), "Job")
      BY <2>1, <2>2, ResolvedByJob
    <3> QED
      BY <3>1 DEF resolveJobWorkload, MissingJobWorkload, Identity
  <2>4. WorkloadOf(l, q) = WorkloadOf(l, p)
    BY <1>3, <1>5, <2>2, <2>3, ResolvedByJob
  <2>5. WorkloadOf(l, p) = WorkloadOf(Permanent, p)
    BY <1>2, OneWorkload
  <2> QED
    BY <1>1, <1>3, <2>4, <2>5 DEF NamedBy
<1> QED
  BY <1>4, <1>5, OneWorkload

\* The workers resolve from synced listers, so that what they report was found so; also
\* if the Job comes back after the Job lister was asked, as it is none that stays.
FoundSynced(w) ==
    pc[w] \in AtContainer \cup {"active"} =>
        \E l \in SUBSET Workloads :
            Permanent \subseteq l /\ wl[w] = WorkloadOf(l, subject[w].pod)

JobPasses(w) ==
    pc[w] = "cronjob" =>
        JobsNamed(Permanent, PodInfo[subject[w].pod].ns, JobOf(subject[w].pod)) = {}

SyncedInv == \A w \in Workers : FoundSynced(w) /\ JobPasses(w)

NamesFound == \A r \in applied \cup late : NameFound(r.dn)

LEMMA RecordNamed ==
    ASSUME TypeOK, SyncedInv, NEW w \in Workers, pc[w] \in AtContainer
    PROVE  NameFound(RecordOf(w).dn)
<1> DEFINE p == subject[w].pod
<1>1. p \in Pods
  BY DEF TypeOK, WorkerTypeOK, WorkerOK, AtContainer, PodObjects
<1>2. at[w] \in DOMAIN Containers(p)
  BY <1>1, ContainersProperties DEF TypeOK, WorkerTypeOK, WorkerOK, AtContainer
<1>3. PICK l \in SUBSET Workloads : Permanent \subseteq l /\ wl[w] = WorkloadOf(l, p)
  BY DEF SyncedInv, FoundSynced
<1>4. RecordOf(w).dn = DeploymentName(PodInfo[p].ns, wl[w].name, Containers(p)[at[w]].name)
  BY DEF RecordOf, BuildRecord
<1>5. NamedBy(RecordOf(w).dn, p, l, at[w])
  BY <1>3, <1>4 DEF NamedBy
<1> QED
  BY <1>1, <1>2, <1>3, <1>5 DEF NameFound

LEMMA WorkSynced ==
    ASSUME TypeOK, FollowInv, PermanentInv, SyncedInv, NEW w \in Workers, Work(w)
    PROVE  SyncedInv'
<1>1. ASSUME NEW v \in Workers, v # w PROVE FoundSynced(v)' /\ JobPasses(v)'
  BY <1>1, OthersKeep DEF TypeOK, SyncedInv, FoundSynced, JobPasses
<1>2. FoundSynced(w)' /\ JobPasses(w)'
  <2>1. CASE GetEvent(w) \/ FinishEvent(w) \/ Lookup(w)
    BY <2>1 DEF GetEvent, FinishEvent, Lookup, Goto, AtContainer, TypeOK, WorkerTypeOK,
                FoundSynced, JobPasses
  <2>2. CASE Resolving(w)
    <3> DEFINE p    == subject[w].pod
               ns   == PodInfo[p].ns
               gone == JobsNamed(lister, ns, JobOf(p))
    <3>1. Permanent \subseteq lister /\ lister \in SUBSET Workloads
      BY <2>2 DEF Resolving, ResolveWorkload, FindNoJob, TryCronJob, PermanentInv, TypeOK,
                  ClusterTypeOK
    <3>2. subject' = subject /\ pc[w] \in {"resolve", "cronjob"}
      BY <2>2, ResolvingStep DEF TypeOK
    <3>3. CASE pc' = [pc EXCEPT ![w] = "cronjob"] /\ LacksJob(lister, ns, Owners(subject[w]))
      <4>1. JobsNamed(Permanent, ns, JobOf(p)) = {}
        BY <3>1, <3>3 DEF LacksJob, JobsNamed, JobOf, Owners
      <4> QED
        BY <3>2, <3>3, <4>1 DEF FoundSynced, JobPasses, AtContainer, TypeOK, WorkerTypeOK
    <3>4. ASSUME NEW id, NEW step \in {"done", "active", "container"}, NEW l \in SUBSET lister,
                 wl' = [wl EXCEPT ![w] = id], pc' = [pc EXCEPT ![w] = step],
                 id = Resolve(l, ns, Owners(subject[w])),
                 l = lister \/ (pc[w] = "cronjob" /\ l = lister \ gone)
          PROVE  FoundSynced(w)' /\ JobPasses(w)'
      <4>1. Permanent \subseteq l /\ l \in SUBSET Workloads
        BY <3>1, <3>4 DEF SyncedInv, JobPasses, JobsNamed
      <4>2. wl'[w] = WorkloadOf(l, p) /\ pc'[w] = step
        BY <3>4 DEF TypeOK, WorkerTypeOK, WorkloadOf, Owners
      <4> QED
        BY <3>2, <4>1, <4>2 DEF FoundSynced, JobPasses
    <3> QED
      BY <2>2, <3>3, <3>4, ResolvingStep DEF TypeOK, JobOf, Owners
  <2>3. CASE \/ CheckActive(w) \/ SkipContainer(w) \/ StartPost(w) \/ PostOk(w) \/ Invalidate(w)
             \/ PostNotFound(w) \/ PostClientError(w) \/ PostFailed(w)
    <3>1. /\ pc[w] \in AtContainer \cup {"active"} /\ UNCHANGED <<event, subject, wl>>
          /\ pc'[w] # "cronjob"
      BY <2>3 DEF CheckActive, SkipContainer, StartPost, PostOk, Invalidate, PostNotFound,
                  PostClientError, PostFailed, NextContainer, Goto, AtContainer, TypeOK,
                  WorkerTypeOK
    <3> QED
      BY <3>1 DEF SyncedInv, FoundSynced, JobPasses
  <2> QED
    BY <2>1, <2>2, <2>3 DEF Work, Resolving
<1> QED
  BY <1>1, <1>2 DEF SyncedInv

LEMMA OtherSynced ==
    ASSUME TypeOK, SyncedInv, Cluster \/ Deliver \/ Network \/ Expire \/ RetryDelayEnds \/ Lifecycle
    PROVE  SyncedInv'
<1>1. UNCHANGED <<event, subject, wl>>
  BY DEF Cluster, Deliver, Network, ServerApply, AnswerLost, RequestDelayed, LateApply, Expire,
         RetryDelayEnds, Lifecycle, workerVars
<1>2. \A v \in Workers : pc'[v] = pc[v] \/ (pc[v] \in AtContainer /\ pc'[v] \in AtContainer)
  BY StepsOfOthers
<1> QED
  BY <1>1, <1>2 DEF SyncedInv, FoundSynced, JobPasses, AtContainer

LEMMA NamesStayFound ==
    ASSUME TypeOK, SyncedInv, NamesFound,
           Cluster \/ Deliver \/ Network \/ Expire \/ RetryDelayEnds \/ Lifecycle
             \/ \E w \in Workers : Work(w)
    PROVE  NamesFound'
<1>1. ASSUME NEW r \in (applied \cup late)' PROVE NameFound(r.dn)
  BY NewRecords, RecordNamed DEF NamesFound
<1> QED
  BY <1>1 DEF NamesFound

Steady == CachesSynced /\ PermanentInv /\ SyncedInv /\ NamesFound

LEMMA NextSteady ==
    ASSUME TypeOK, FollowInv, Steady, [Next]_vars
    PROVE  Steady'
<1> USE DEF Steady
<1>1. CASE Cluster
  BY <1>1, ClusterKeepsPermanent, OtherPermanent, OtherSynced, NamesStayFound
     DEF Cluster, CachesSynced, runVars
<1>2. CASE Deliver \/ Network \/ Expire \/ RetryDelayEnds
  <2>1. UNCHANGED <<main, lister>>
    BY <1>2 DEF Deliver, Network, Expire, RetryDelayEnds, clusterVars, runVars
  <2> QED
    BY <1>2, <2>1, OtherPermanent, OtherSynced, NamesStayFound DEF CachesSynced
<1>3. CASE Lifecycle
  <2>1. CachesSynced'
    BY <1>3 DEF Lifecycle, StartWorkers, SyncFails, Cancel, RunReturns, Exit, CachesSynced,
                clusterVars
  <2> QED
    BY <1>3, <2>1, OtherPermanent, OtherSynced, NamesStayFound
<1>4. ASSUME Running, NEW w \in Workers, Work(w)
      PROVE  Steady'
  <2>1. UNCHANGED <<main, lister>>
    BY <1>4 DEF Work, GetEvent, Lookup, ResolveWorkload, FindNoJob, TryCronJob, Resolved,
         CheckActive, SkipContainer, StartPost,
       PostOk, Invalidate, PostNotFound, PostClientError, PostFailed, FinishEvent, clusterVars,
       runVars
  <2>2. main # "syncing" => Permanent \subseteq lister
    BY <1>4 DEF Running, CachesSynced
  <2> QED
    BY <1>4, <2>1, <2>2, WorkPermanent, WorkSynced, NamesStayFound DEF CachesSynced
<1>5. CASE UNCHANGED vars
  <2>1. UNCHANGED <<main, lister, pc, event, subject, wl, applied, late>>
    BY <1>5 DEF vars, clusterVars, runVars, workerVars, serverVars
  <2> QED
    BY <2>1 DEF CachesSynced, PermanentInv, SyncedInv, FoundSynced, JobPasses,
                NamesFound
<1> QED
  BY <1>1, <1>2, <1>3, <1>4, <1>5 DEF Next, Exited

\* All records about a container carry one deployment name, whatever the listers hold
\* when its pod is created, deleted or retried (Resolve, resolveJobWorkload), provided
\* that CronJobs stay and that no two workloads share a deployment name.
THEOREM IdentityStable ==
    ASSUME NamesIdentify, CronJobsStay
    PROVE  Spec => []StableIdentity
<1>1. Init => Steady
  BY DEF Init, InitWith, Steady, CachesSynced, PermanentInv, SyncedInv, FoundSynced,
         JobPasses, NamesFound, AtContainer
<1>2. TypeOK /\ Accounting /\ Steady /\ [Next]_vars => Steady'
  BY NextSteady DEF Accounting
<1>3. Steady => StableIdentity
  BY OneName DEF Steady, NamesFound, StableIdentity, NamedBy
<1> QED
  BY <1>1, <1>2, <1>3, TypeCorrect, AlwaysAccounting, PTL DEF Spec
=============================================================================
