------------------------------ MODULE StartupProofs ------------------------------
(***************************************************************************)
(* The controller with BulkClusterSync, for any cluster: what it submits,  *)
(* what it caches on the strength of the job, and that between the gate,   *)
(* the list and the handlers no pod is lost; through crashes and restarts. *)
(*                                                                         *)
(* The steps the controller takes without the bulk sync are dealt with by  *)
(* the lemmas of the modules this one extends.                             *)
(***************************************************************************)
EXTENDS Startup, ReportingProofs

\* What the informers, the handlers, the workers, the network and the timers do.
Serve ==
    \/ Cluster \/ Deliver \/ Network \/ Expire \/ RetryDelayEnds
    \/ \E w \in Workers : Work(w)

\* processSyncEvents and the job it submits.
Sync ==
    \/ OpenGate \/ ListPods \/ MakeSyncRecords \/ NoSyncRecords
    \/ CreateConflict \/ CreateNotFound \/ CreateFails \/ CreateAccepted
    \/ WaitFails \/ JobFailed \/ JobCompleted \/ JobProceeds
    \/ BootStartWorkers

LEMMA BootCases ==
    ASSUME [BootNext]_bootVars
    PROVE  \/ Running /\ Serve /\ UNCHANGED <<boot, jobVars>>
           \/ Sync
           \/ BootSyncFails \/ BootStop
           \/ Restart
           \/ UNCHANGED bootVars
BY DEF BootNext, Boot, Serve, Sync

(***************************************************************************)
(* Types.                                                                  *)
(***************************************************************************)
\* What holds of the sync at each stage, beside the types.
SyncInv ==
    /\ boot # "caches" => ~syncing
    /\ main \notin {"syncing", "failed"} => boot \in {"ready", "noAnswer", "jobFailed"}
    /\ boot # "accepted" => job = {}
    /\ boot \in {"caches", "open", "listing"} => rejected = {}

BootInv == BootTypeOK /\ QueueSound /\ SyncInv

\* Collapse keeps one candidate for each deployment name.
LEMMA CollapseUnique ==
    ASSUME NEW W, NEW c, \A v, w \in W : v.dn = w.dn => v = w
    PROVE  /\ \A v, w \in Collapse(W, c) : v.dn = w.dn => v = w
           /\ Collapse(W, c) \subseteq W \cup {c}
<1> DEFINE existing == {x \in W : x.dn = c.dn}
<1>1. Collapse(W, c) \in {(W \ existing) \cup {c}, W}
  BY DEF Collapse
<1>2. \A v, w \in (W \ existing) \cup {c} : v.dn = w.dn => v = w
  OBVIOUS
<1> QED
  BY <1>1, <1>2

LEMMA SyncCandidateType ==
    ASSUME NEW obj \in PodObjects, NEW i \in DOMAIN Containers(obj.pod), NEW id \in Resolutions
    PROVE  SyncRecord(SyncCandidate(obj, i, id.name)) \in Records
<1> DEFINE c == Containers(obj.pod)[i]
<1>1. obj.pod \in Pods
  BY DEF PodObjects
<1>2. PodInfo[obj.pod].ns \in Namespaces /\ c.name \in ContainerNames /\ c.digest \in Digests
  BY <1>1 DEF Namespaces, ContainerNames, Digests
<1>3. DeploymentName(PodInfo[obj.pod].ns, id.name, c.name) \in DeploymentNames
  BY <1>2 DEF DeploymentNames
<1>4. ContainerDigest(obj, i) \in Digests \cup {NoDigest}
  BY <1>2 DEF ContainerDigest
<1> QED
  BY <1>3, <1>4 DEF SyncCandidate, SyncRecord, Records

LEMMA PresentType ==
    ASSUME ClusterTypeOK
    PROVE  PresentObjects \subseteq PodObjects
BY DEF PresentObjects, ClusterTypeOK

LEMMA ServeTypes ==
    ASSUME TypeOK, QueueSound, Serve
    PROVE  TypeOK' /\ QueueSound'
<1>1. ASSUME NEW w \in Workers, Work(w) PROVE TypeOK' /\ QueueSound'
  BY <1>1, GetEventStep, FindingSteps, RecordContainerSteps, FinishEventStep DEF Work, Resolving
<1> QED
  BY <1>1, ClusterStep, DeliverStep, NetworkStep, TimerSteps DEF Serve

\* The sync touches neither the cluster nor the queue nor the workers.
LEMMA SyncFrame ==
    ASSUME Sync
    PROVE  UNCHANGED <<clusterVars, queueVars, workerVars, handled, cancels>>
BY DEF Sync, OpenGate, ListPods, MakeSyncRecords, SkipPod, TakePod, NameWithoutJob,
       TakeContainer, Making,
       NoSyncRecords, CreateConflict, CreateNotFound, CreateFails, CreateAccepted, WaitFails,
       JobFailed, JobCompleted, JobProceeds, BootStartWorkers, vars, runVars

\* Nor does making the records touch the API, the caches or Run.
LEMMA MakingFrame ==
    ASSUME ListPods \/ MakeSyncRecords
    PROVE  UNCHANGED <<vars, job, rejected, unanswered>>
BY DEF ListPods, MakeSyncRecords, SkipPod, TakePod, NameWithoutJob, TakeContainer, Making

LEMMA SyncMain ==
    ASSUME TypeOK, Sync
    PROVE  /\ main' \in {main, "failed"} \/ (main = "syncing" /\ main' = "up")
           /\ syncing' \in BOOLEAN
<1> USE DEF TypeOK, RunTypeOK
<1>1. CASE ListPods \/ MakeSyncRecords
  BY <1>1, MakingFrame DEF vars, runVars
<1>2. CASE OpenGate \/ CreateFails \/ BootStartWorkers
  BY <1>2 DEF OpenGate, CreateFails, BootStartWorkers
<1>3. CASE \/ NoSyncRecords \/ CreateConflict \/ CreateNotFound \/ CreateAccepted
           \/ WaitFails \/ JobFailed \/ JobCompleted \/ JobProceeds
  BY <1>3 DEF NoSyncRecords, CreateConflict, CreateNotFound, CreateAccepted, WaitFails,
     JobFailed, JobCompleted, JobProceeds, vars, runVars
<1> QED
  BY <1>1, <1>2, <1>3 DEF Sync

LEMMA SyncReports ==
    ASSUME BootTypeOK, Sync
    PROVE  ReportTypeOK'
<1> USE DEF BootTypeOK, SyncTypeOK, TypeOK, ReportTypeOK
<1>1. ASSUME NEW c \in snapshot
      PROVE  SyncRecord(c) \in Records /\ c.digest \in Digests \cup {NoDigest}
  <2>1. SyncRecord(c) \in Records
    BY DEF Submitted
  <2>2. SyncRecord(c).digest = c.digest
    BY DEF SyncRecord
  <2> QED
    BY <2>1, <2>2 DEF Records
<1>2. Submitted \subseteq Records /\ job \subseteq Records
  OBVIOUS
<1>3. CASE \/ OpenGate \/ ListPods \/ MakeSyncRecords \/ NoSyncRecords \/ CreateNotFound
           \/ CreateAccepted \/ JobFailed \/ BootStartWorkers
  BY <1>3, MakingFrame DEF OpenGate, NoSyncRecords, CreateNotFound, CreateAccepted, JobFailed,
     BootStartWorkers, vars, cacheVars, serverVars
<1>4. CASE CreateConflict \/ WaitFails
  BY <1>2, <1>4 DEF CreateConflict, WaitFails, FillFromSubmitted, serverVars
<1>5. CASE JobCompleted
  <2>1. \A image : DigestsOf(image) \subseteq Digests \cup {NoDigest}
    BY <1>1 DEF DigestsOf
  <2>2. unknown' \subseteq Digests \cup {NoDigest}
    BY <1>5, <2>1 DEF JobCompleted, FillFromJobResult
  <2> QED
    BY <1>2, <1>5, <2>2 DEF JobCompleted, FillFromJobResult, serverVars
<1>6. CASE CreateFails
  BY <1>2, <1>6 DEF CreateFails, cacheVars
<1>7. CASE JobProceeds
  <2>1. PICK c \in snapshot : JobApplies(SyncRecord(c)) \/ JobRejects(c)
    BY <1>7 DEF JobProceeds
  <2>2. UNCHANGED <<observed, unknown, late, handled>>
    BY <1>7 DEF JobProceeds, cacheVars
  <2>3. CASE JobApplies(SyncRecord(c))
    <3>1. SyncRecord(c).dn \in DeploymentNames
      BY <1>1 DEF Records
    <3> QED
      BY <1>1, <2>2, <2>3, <3>1 DEF JobApplies, Apply
  <2>4. CASE JobRejects(c)
    BY <1>1, <2>2, <2>4 DEF JobRejects
  <2> QED
    BY <2>1, <2>3, <2>4
<1> QED
  BY <1>3, <1>4, <1>5, <1>6, <1>7 DEF Sync

LEMMA SyncTypes ==
    ASSUME BootTypeOK, QueueSound, Sync
    PROVE  TypeOK' /\ QueueSound'
<1>1. TypeOK /\ UNCHANGED <<clusterVars, queueVars, workerVars, cancels>>
  BY SyncFrame DEF BootTypeOK
<1>2. QueueTypeOK(PodEvents)' /\ QueueConsistent' /\ processing' = processing
  BY <1>1, QueueUnchanged DEF TypeOK, QueueSound, SingleFlight
<1>3. RunTypeOK'
  BY <1>1, SyncMain DEF TypeOK, RunTypeOK
<1>4. ClusterTypeOK'
  BY <1>1 DEF TypeOK, ClusterTypeOK, clusterVars
<1> QED
  BY <1>1, <1>2, <1>3, <1>4, WorkersUnchanged, SyncReports, QueueSoundKept DEF TypeOK


\* The pod makeSyncRecords is at, with its workload's name unless that is yet to be found.
MakingOK(m) ==
    /\ m \in [obj : PodObjects, name : SyncNames, at : Nat]
    /\ m.at \in DOMAIN Containers(m.obj.pod)
    /\ m.name = NoName => ThroughJob(Owners(m.obj))

\* makeSyncRecords takes candidates of the pods that were listed.
LEMMA MakingTypes ==
    ASSUME BootInv, MakeSyncRecords
    PROVE  /\ todo' \subseteq PodObjects
           /\ making' # Nil => MakingOK(making')
           /\ Submitted' \subseteq Records
           /\ \A c, d \in snapshot' : c.dn = d.dn => c = d
<1> USE DEF BootInv, BootTypeOK, SyncTypeOK
<1>0. making # Nil => MakingOK(making)
  BY DEF MakingOK
<1>1. ASSUME NEW obj \in todo, SkipPod(obj)
      PROVE  todo' \subseteq todo /\ UNCHANGED <<making, snapshot>>
  BY <1>1 DEF SkipPod
<1>2. ASSUME NEW obj \in todo, TakePod(obj)
      PROVE  todo' \subseteq todo /\ UNCHANGED snapshot /\ MakingOK(making')
  <2>1. obj \in PodObjects /\ obj.pod \in Pods
    BY DEF PodObjects
  <2>2. Resolve(lister, PodInfo[obj.pod].ns, Owners(obj)) \in Resolutions
    <3>1. lister \in SUBSET Workloads
      BY DEF TypeOK, ClusterTypeOK
    <3> HIDE DEF BootInv
    <3> QED
      BY <2>1, <3>1 DEF Resolutions, Owners
  <2>3. making' = [obj |-> obj, name |-> IF NoJob(obj) THEN NoName ELSE SyncName(obj), at |-> 1]
    BY <1>2 DEF TakePod
  <2>4. SyncName(obj) \in SyncNames /\ NoName \in SyncNames
    BY <2>2 DEF SyncName, SyncNames
  <2>5. 1 \in DOMAIN Containers(obj.pod)
    BY <2>1, ContainersProperties
  <2>6. SyncName(obj) # NoName /\ (NoJob(obj) => ThroughJob(Owners(obj)))
    BY <1>2 DEF TakePod, NoJob, LacksJob
  <2> QED
    BY <1>2, <2>1, <2>3, <2>4, <2>5, <2>6 DEF TakePod, MakingOK
<1>3. ASSUME NameWithoutJob
      PROVE  UNCHANGED <<todo, snapshot>> /\ MakingOK(making')
  <2> DEFINE p  == making.obj.pod
             id == MissingJobWorkload(lister, PodInfo[p].ns, GetJobOwnerName(PodInfo[p].owners))
  <2>1. /\ making' = [making EXCEPT !.name = id.name] /\ UNCHANGED <<todo, snapshot>>
        /\ MakingOK(making) /\ making.name = NoName
    BY <1>0, <1>3 DEF NameWithoutJob, Owners
  <2>2. p \in Pods /\ lister \in SUBSET Workloads /\ ThroughJob(PodInfo[p].owners)
    BY <2>1 DEF MakingOK, PodObjects, Owners, TypeOK, ClusterTypeOK
  <2>3. id \in Resolutions
    BY <2>2, MissingJobResolves
  <2> HIDE DEF id
  <2>4. id.name \in SyncNames
    BY <2>3 DEF SyncNames
  <2> QED
    BY <2>1, <2>2, <2>4 DEF MakingOK, Owners
<1>4. ASSUME TakeContainer
      PROVE  /\ UNCHANGED todo
             /\ making' # Nil => MakingOK(making')
             /\ Submitted' \subseteq Records
             /\ \A c, d \in snapshot' : c.dn = d.dn => c = d
  <2> DEFINE c == SyncCandidate(making.obj, making.at, making.name)
  <2>1. /\ making # Nil /\ making.name # NoName
        /\ UNCHANGED todo /\ snapshot' = Collapse(snapshot, c)
        /\ making' = IF making.at < Len(Containers(making.obj.pod))
                     THEN [making EXCEPT !.at = @ + 1] ELSE Nil
    BY <1>4 DEF TakeContainer
  <2>2. /\ making \in [obj : PodObjects, name : SyncNames, at : Nat]
        /\ making.at \in DOMAIN Containers(making.obj.pod)
    BY <1>0, <2>1 DEF MakingOK
  <2>3. /\ Len(Containers(making.obj.pod)) \in Nat
        /\ DOMAIN Containers(making.obj.pod) = 1 .. Len(Containers(making.obj.pod))
    BY <2>2, ContainersProperties DEF PodObjects
  <2>4. making' # Nil => MakingOK(making')
    <3>1. SUFFICES ASSUME making.at < Len(Containers(making.obj.pod)),
                          making' = [making EXCEPT !.at = @ + 1]
                   PROVE  MakingOK(making')
      BY <2>1
    <3>2. /\ making'.obj = making.obj /\ making'.at = making.at + 1
          /\ making'.name = making.name
          /\ making' \in [obj : PodObjects, name : SyncNames, at : Nat]
      BY <2>2, <3>1
    <3> QED
      BY <2>1, <2>2, <2>3, <3>1, <3>2 DEF MakingOK
  <2>5. SyncRecord(c) \in Records
    <3>1. PICK id \in Resolutions : making.name = id.name
      BY <2>1, <2>2 DEF SyncNames
    <3> QED
      BY <2>2, <3>1, SyncCandidateType
  <2>6. /\ \A v, u \in Collapse(snapshot, c) : v.dn = u.dn => v = u
        /\ Collapse(snapshot, c) \subseteq snapshot \cup {c}
    <3>1. \A v, u \in snapshot : v.dn = u.dn => v = u
      OBVIOUS
    <3> HIDE DEF BootInv, c
    <3> QED
      BY <3>1, CollapseUnique
  <2>7. Submitted' \subseteq Records
    BY <2>1, <2>5, <2>6 DEF Submitted
  <2> QED
    BY <2>1, <2>4, <2>6, <2>7
<1> QED
  BY <1>0, <1>1, <1>2, <1>3, <1>4 DEF MakeSyncRecords, Submitted

LEMMA SyncBoot ==
    ASSUME BootInv, Sync
    PROVE  SyncTypeOK' /\ SyncInv'
<1> USE DEF BootInv, BootTypeOK, SyncInv
<1>1. CASE OpenGate \/ BootStartWorkers \/ CreateFails
  BY <1>1 DEF OpenGate, BootStartWorkers, CreateFails, Submitting, Made, Booting, jobVars,
     makeVars, Submitted, SyncTypeOK
<1>2. CASE ListPods
  <2>1. PresentObjects \subseteq PodObjects
    BY PresentType DEF TypeOK
  <2>2. listed' \subseteq Pods /\ todo' \subseteq PodObjects
    BY <1>2, <2>1 DEF ListPods, PodObjects
  <2> QED
    BY <1>2, <2>2 DEF ListPods, Booting, Submitted, vars, runVars, SyncTypeOK
<1>3. CASE MakeSyncRecords
  <2>1. /\ boot = "listing" /\ boot' = boot /\ main = "syncing"
        /\ UNCHANGED <<main, syncing, listed, job, rejected, unanswered>>
    BY <1>3 DEF MakeSyncRecords, SkipPod, TakePod, NameWithoutJob, TakeContainer, Making,
       Booting, vars, runVars
  <2>2. job = {} /\ rejected = {}
    BY <2>1
  <2> QED
    BY <1>3, <2>1, <2>2, MakingTypes DEF SyncTypeOK, MakingOK
<1>4. CASE NoSyncRecords \/ CreateNotFound \/ CreateConflict \/ CreateAccepted
  BY <1>4 DEF NoSyncRecords, CreateNotFound, CreateConflict, CreateAccepted, Submitting, Made,
     Booting, jobVars, makeVars, vars, runVars, Submitted, SyncTypeOK
<1>5. CASE WaitFails \/ JobFailed \/ JobCompleted
  BY <1>5 DEF WaitFails, JobFailed, JobCompleted, Booting, jobVars, makeVars, vars, runVars,
     Submitted, SyncTypeOK
<1>6. CASE JobProceeds
  <2>1. /\ job' \subseteq job /\ boot = "accepted"
        /\ UNCHANGED <<boot, main, syncing, listed, todo, making, snapshot, unanswered>>
    BY <1>6 DEF JobProceeds, makeVars, runVars
  <2>2. rejected' \subseteq {c.image : c \in snapshot}
    BY <1>6 DEF JobProceeds, JobApplies, JobRejects, SyncTypeOK
  <2> QED
    BY <2>1, <2>2 DEF Submitted, SyncTypeOK
<1> QED
  BY <1>1, <1>2, <1>3, <1>4, <1>5, <1>6 DEF Sync


LEMMA ServeFrame ==
    ASSUME Serve
    PROVE  UNCHANGED runVars
BY DEF Serve, Cluster, Deliver, Network, Expire, RetryDelayEnds, Work, GetEvent, Lookup,
       ResolveWorkload, FindNoJob, TryCronJob,
       Resolved, CheckActive, SkipContainer, StartPost, PostOk, Invalidate, PostNotFound,
       PostClientError, PostFailed, FinishEvent

LEMMA StopFrame ==
    ASSUME BootSyncFails \/ BootStop
    PROVE  /\ UNCHANGED <<clusterVars, workerVars, cacheVars, serverVars, handled, boot, jobVars,
                          syncing>>
           /\ \/ boot = "caches" /\ main = "syncing" /\ main' = "failed" /\ UNCHANGED queueVars
              \/ main \in {"up", "cancelled", "returned"}
                 /\ main' \in {"cancelled", "returned", "exited"}
           /\ UNCHANGED queueVars \/ (ShutDown /\ main' = "returned")
BY DEF BootSyncFails, BootStop, SyncFails, Cancel, Exit, RunReturns

LEMMA StopTypes ==
    ASSUME TypeOK, QueueSound, BootSyncFails \/ BootStop
    PROVE  TypeOK' /\ QueueSound'
<1>1. Lifecycle
  BY DEF BootSyncFails, BootStop, Lifecycle
<1> QED
  BY <1>1, LifecycleStep

\* A new process finds its queue, its workers and its caches as Init has them.
LEMMA RestartTypes ==
    ASSUME BootInv, Restart
    PROVE  BootInv'
<1> USE DEF BootInv, BootTypeOK, SyncTypeOK
<1>1. ClusterTypeOK'
  <2>1. indexer' \in [Keys -> PodObjects \cup {Nil}]
    BY DEF Restart
  <2> QED
    BY <2>1 DEF Restart, TypeOK, ClusterTypeOK
<1>2. QueueTypeOK(PodEvents)' /\ QueueConsistent'
  <2>1. queue' = <<>> /\ queue' \in Seq(PodEvents) /\ DOMAIN queue' = {}
    BY DEF Restart
  <2> QED
    BY <2>1 DEF Restart, QueueTypeOK, QueueConsistent, Queued
<1>3. WorkerTypeOK'
  BY DEF Restart, WorkerTypeOK, WorkerOK, PCs
<1>4. ReportTypeOK'
  <2>1. InFlight \subseteq Records
    BY RecordOfType DEF InFlight, TypeOK
  <2> QED
    BY <2>1 DEF Restart, TypeOK, ReportTypeOK
<1>5. RunTypeOK'
  BY DEF Restart, TypeOK, RunTypeOK
<1>6. SyncTypeOK'
  BY DEF Restart, Submitted
<1>7. QueueSound'
  BY <1>2 DEF Restart, QueueSound, SingleFlight
<1> QED
  BY <1>1, <1>2, <1>3, <1>4, <1>5, <1>6, <1>7 DEF TypeOK, Restart, SyncInv

LEMMA InitBoot ==
    ASSUME BootInit
    PROVE  BootInv
<1>1. TypeOK /\ QueueSound
  BY InitWithTypes DEF BootInit
<1> QED
  BY <1>1 DEF BootInit, InitWith, BootInv, BootTypeOK, SyncTypeOK, SyncInv, Submitted

LEMMA NextBoot ==
    ASSUME BootInv, [BootNext]_bootVars
    PROVE  BootInv'
<1> USE DEF BootInv, BootTypeOK
<1>1. CASE Running /\ Serve /\ UNCHANGED <<boot, jobVars>>
  <2>1. TypeOK' /\ QueueSound'
    BY <1>1, ServeTypes
  <2> QED
    BY <1>1, <2>1, ServeFrame DEF jobVars, makeVars, runVars, SyncTypeOK, SyncInv, Submitted
<1>2. CASE Sync
  BY <1>2, SyncTypes, SyncBoot
<1>3. CASE BootSyncFails \/ BootStop
  <2>1. TypeOK' /\ QueueSound'
    BY <1>3, StopTypes
  <2> QED
    BY <1>3, <2>1, StopFrame DEF jobVars, makeVars, SyncTypeOK, SyncInv, Submitted
<1>4. CASE Restart
  BY <1>4, RestartTypes
<1>5. CASE UNCHANGED bootVars
  <2>1. TypeOK' /\ QueueSound'
    BY <1>5, StutterStep DEF bootVars
  <2> QED
    BY <1>5, <2>1 DEF bootVars, vars, runVars, jobVars, makeVars, SyncTypeOK, SyncInv, Submitted
<1> QED
  BY <1>1, <1>2, <1>3, <1>4, <1>5, BootCases

LEMMA AlwaysBoot == BootSpec => []BootInv
<1>1. BootInit => BootInv
  BY InitBoot
<1>2. BootInv /\ [BootNext]_bootVars => BootInv'
  BY NextBoot
<1> QED
  BY <1>1, <1>2, PTL DEF BootSpec

\* Every variable has its type, each record that is submitted has a deployment name of
\* its own, and no worker starts while the gate is closed or the job is waited for;
\* also after any number of restarts.
THEOREM BootTypeCorrect == BootSpec => []BootTypeOK
<1>1. BootInv => BootTypeOK
  BY DEF BootInv
<1> QED
  BY <1>1, AlwaysBoot, PTL

\* A process that is started anew hands an event to one worker at a time, as the one
\* before it.
THEOREM BootSingleFlight == BootSpec => []SingleFlight
<1>1. BootInv => SingleFlight
  BY DEF BootInv, QueueSound
<1> QED
  BY <1>1, AlwaysBoot, PTL


(***************************************************************************)
(* What the caches hold, and what was processed, the API has been asked    *)
(* for - or a job of which no answer came has carried it.                  *)
(***************************************************************************)
Known == Answered \cup unanswered

\* What the caches may hold: what was answered for, and what this process submitted to
\* a job that it has no answer of.
Excused == IF boot = "noAnswer" THEN Submitted ELSE {}
Suppressible == Answered \cup Excused

\* Of each record that was submitted, while the job is waited for: it is still to be
\* processed or the API has answered for it; and an image name is reported for one
\* whose digest the API does not know.
JobInv ==
    boot = "accepted" =>
        /\ \A c \in snapshot : SyncRecord(c) \in job \cup Answered \/ c.digest \in missing
        /\ \A image \in rejected :
              \E c \in snapshot : c.image = image /\ c.digest \in missing

BootReporting ==
    FollowInv /\ AnsweredWasApplied /\ Reporting(Known) /\ CacheInv(Suppressible) /\ JobInv

LEMMA ServeReporting ==
    ASSUME BootInv, BootReporting, BootInv', Serve, UNCHANGED <<boot, jobVars>>
    PROVE  BootReporting'
<1> USE DEF BootInv, BootTypeOK, BootReporting
<1> DEFINE Goal == /\ FollowInv' /\ AnsweredWasApplied' /\ Reporting(Known)'
                   /\ CacheInv(Suppressible)'
                   /\ Answered \subseteq Answered' /\ missing \subseteq missing'
<1>0. ASSUME Answered \subseteq Answered'
      PROVE  Known \subseteq Known' /\ Suppressible \subseteq Suppressible'
  BY <1>0 DEF Known, Suppressible, Excused, Submitted, jobVars, makeVars
<1>1. ASSUME NEW w \in Workers, Work(w) PROVE Goal
  <2>1. FollowInv' /\ AnsweredWasApplied' /\ applied' = applied
    BY <1>1, WorkFollow, WorkAnswered
  <2>2. missing \subseteq missing' /\ refused \subseteq refused'
    BY <1>1, WorkHistories
  <2>3. Answered \subseteq Answered'
    BY <2>1, <2>2 DEF Answered
  <2>4. /\ Known \subseteq Known' /\ applied \subseteq Known /\ refused' \subseteq Known'
        /\ Suppressible \subseteq Suppressible' /\ applied \subseteq Suppressible
    BY <1>0, <2>3 DEF Answered, Known, Suppressible
  <2>5. Reporting(Known)'
    BY <1>1, <2>4, WorkReporting DEF Reporting, LoopInv, HandledInv, CacheInv, AccountedFor
  <2>6. CacheInv(Suppressible)'
    BY <1>1, <2>4, WorkCaches DEF CacheInv
  <2> QED
    BY <2>1, <2>2, <2>3, <2>5, <2>6
<1>2. ASSUME Cluster \/ Deliver \/ Network \/ Expire \/ RetryDelayEnds PROVE Goal
  <2>1. FollowInv'
    BY <1>2, ClusterFollow, DeliverFollow, OtherFollow
  <2>2. AnsweredWasApplied' /\ applied \subseteq applied'
    <3>1. CASE Network
      BY <3>1, NetworkAnswered
    <3>2. CASE Cluster \/ Deliver \/ Expire \/ RetryDelayEnds
      BY <3>2 DEF Cluster, Deliver, Expire, RetryDelayEnds, workerVars, serverVars, RecordOf,
         AnsweredWasApplied
    <3> QED
      BY <1>2, <3>1, <3>2
  <2>3. /\ missing' = missing /\ refused' = refused
        /\ observed' \subseteq observed /\ unknown' \subseteq unknown
    BY <1>2 DEF Cluster, Deliver, Network, ServerApply, AnswerLost, RequestDelayed, LateApply,
       Expire, RetryDelayEnds, serverVars, cacheVars
  <2>4. Answered \subseteq Answered'
    BY <2>2, <2>3 DEF Answered
  <2>5. Reporting(Known)'
    BY <1>0, <1>2, <2>4, OtherReporting DEF Reporting, LoopInv, HandledInv, CacheInv, AccountedFor
  <2>6. CacheInv(Suppressible)'
    BY <1>0, <2>3, <2>4 DEF CacheInv
  <2> QED
    BY <2>1, <2>2, <2>3, <2>4, <2>5, <2>6
<1>3. Goal
  BY <1>1, <1>2 DEF Serve
<1>4. JobInv'
  BY <1>3 DEF JobInv, jobVars, makeVars
<1> QED
  BY <1>3, <1>4


\* An image name stands for the digest of one record: if the API does not know some
\* record of that name, it does not know this digest.
LEMMA DigestsMissing ==
    ASSUME NEW image, NEW c \in snapshot, c.image = image, c.digest \in missing
    PROVE  DigestsOf(image) \subseteq missing
BY DEF DigestsOf

\* Each step of the sync puts in the caches only what JobInv accounts for.
LEMMA SyncCaches ==
    ASSUME BootInv, CacheInv(Known), CacheInv(Suppressible), JobInv, Sync
    PROVE  /\ missing \subseteq missing' /\ applied \subseteq applied' /\ Known \subseteq Known'
           /\ CacheInv(Known)' /\ CacheInv(Suppressible)' /\ JobInv'
<1> USE DEF Known, Answered, Suppressible, Excused
<1>1. CASE \/ OpenGate \/ ListPods \/ MakeSyncRecords \/ NoSyncRecords \/ CreateNotFound
           \/ CreateFails \/ CreateAccepted \/ JobFailed \/ BootStartWorkers
  <2>1. UNCHANGED <<observed, unknown, missing, applied, refused, unanswered, rejected>>
    BY <1>1, MakingFrame DEF OpenGate, NoSyncRecords, CreateNotFound, CreateFails,
       CreateAccepted, JobFailed, BootStartWorkers, vars, cacheVars, serverVars, jobVars
  <2>2. /\ boot' = "accepted" =>
              \/ boot = "accepted" /\ UNCHANGED <<snapshot, job>>
              \/ UNCHANGED snapshot /\ job' = Submitted /\ rejected = {}
        /\ boot = "noAnswer" => UNCHANGED <<boot, snapshot>>
    BY <1>1 DEF OpenGate, ListPods, MakeSyncRecords, SkipPod, TakePod, NameWithoutJob,
       TakeContainer, Making, NoSyncRecords, CreateNotFound, CreateFails, CreateAccepted,
       Submitting, Made, JobFailed, BootStartWorkers, Booting, jobVars, makeVars, BootInv,
       SyncInv
  <2>3. JobInv'
    BY <2>1, <2>2 DEF JobInv, Submitted
  <2> QED
    BY <2>1, <2>2, <2>3 DEF CacheInv, Submitted
<1>2. CASE CreateConflict
  BY <1>2 DEF CreateConflict, FillFromSubmitted, Submitting, Made, Booting, makeVars, Submitted,
     CacheInv, JobInv
<1>3. CASE WaitFails
  <2>1. /\ boot = "accepted" /\ boot' = "noAnswer" /\ UNCHANGED snapshot
        /\ observed' = observed \cup Submitted /\ unanswered' = unanswered \cup job
        /\ UNCHANGED <<unknown, missing, applied, refused>>
    BY <1>3 DEF WaitFails, FillFromSubmitted, Booting, makeVars
  <2>2. \A r \in Submitted : r \in job \cup Answered \/ r.digest \in missing
    BY <2>1 DEF JobInv, Submitted, SyncRecord
  <2>3. CacheInv(Known)' /\ JobInv'
    BY <2>1, <2>2 DEF CacheInv, JobInv
  <2>4. CacheInv(Suppressible)'
    BY <2>1 DEF CacheInv, Submitted
  <2> QED
    BY <2>1, <2>3, <2>4
<1>4. CASE JobCompleted
  <2>1. /\ boot = "accepted" /\ boot' = "ready" /\ job = {}
        /\ observed' = observed \cup Submitted
        /\ unknown' = unknown \cup UNION {DigestsOf(image) : image \in rejected}
        /\ UNCHANGED <<missing, applied, refused, unanswered>>
    BY <1>4 DEF JobCompleted, FillFromJobResult, Booting, serverVars, jobVars
  <2>2. \A r \in Submitted : r \in Answered \/ r.digest \in missing
    BY <2>1 DEF JobInv, Submitted, SyncRecord
  <2>3. \A image \in rejected : DigestsOf(image) \subseteq missing
    BY <2>1, DigestsMissing DEF JobInv
  <2> QED
    BY <2>1, <2>2, <2>3 DEF CacheInv, JobInv
<1>5. CASE JobProceeds
  <2>1. PICK c \in snapshot : /\ job' = job \ {SyncRecord(c)}
                              /\ JobApplies(SyncRecord(c)) \/ JobRejects(c)
    BY <1>5 DEF JobProceeds
  <2>2. /\ boot = "accepted" /\ boot' = boot
        /\ UNCHANGED <<snapshot, observed, unknown, unanswered>>
    BY <1>5 DEF JobProceeds, cacheVars, makeVars
  <2>3. /\ missing \subseteq missing' /\ applied \subseteq applied' /\ refused \subseteq refused'
        /\ SyncRecord(c) \in applied' \cup refused' \/ c.digest \in missing'
        /\ rejected' = rejected
             \/ (rejected' = rejected \cup {c.image} /\ c.digest \in missing')
    BY <2>1 DEF JobApplies, JobRejects, Apply
  <2>4. Known \subseteq Known' /\ CacheInv(Known)' /\ CacheInv(Suppressible)'
    BY <2>2, <2>3 DEF CacheInv
  <2>5. JobInv'
    <3>1. ASSUME NEW d \in snapshot
          PROVE  SyncRecord(d) \in job' \cup Answered' \/ d.digest \in missing'
      <4>1. SyncRecord(d) \in job \cup Answered \/ d.digest \in missing
        BY <2>2 DEF JobInv
      <4>2. SyncRecord(d) = SyncRecord(c) => d.digest = c.digest
        BY DEF SyncRecord
      <4> QED
        BY <2>1, <2>3, <4>1, <4>2
    <3>2. ASSUME NEW image \in rejected'
          PROVE  \E d \in snapshot : d.image = image /\ d.digest \in missing'
      BY <2>2, <2>3 DEF JobInv
    <3> QED
      BY <2>2, <3>1, <3>2 DEF JobInv, SyncRecord
  <2> QED
    BY <2>3, <2>4, <2>5
<1> QED
  BY <1>1, <1>2, <1>3, <1>4, <1>5 DEF Sync

LEMMA SyncReporting ==
    ASSUME BootInv, BootReporting, Sync
    PROVE  BootReporting'
<1> USE DEF BootReporting
<1>1. /\ missing \subseteq missing' /\ applied \subseteq applied' /\ Known \subseteq Known'
      /\ CacheInv(Known)' /\ CacheInv(Suppressible)' /\ JobInv'
  BY SyncCaches DEF Reporting
<1>2. UNCHANGED <<indexer, pc, event, subject, wl, at, lastErr, handled>>
  BY SyncFrame DEF clusterVars, workerVars
<1>3. FollowInv'
  BY <1>2 DEF FollowInv
<1>4. AnsweredWasApplied'
  BY <1>1, <1>2 DEF AnsweredWasApplied, RecordOf
<1>5. Reporting(Known)'
  BY <1>1, <1>2, FrameReporting DEF Reporting, LoopInv, HandledInv, CacheInv, AccountedFor
<1> QED
  BY <1>1, <1>3, <1>4, <1>5

LEMMA RestartReporting ==
    ASSUME BootReporting, Restart
    PROVE  BootReporting'
<1>1. /\ \A w \in Workers : pc'[w] = "idle" /\ event'[w] = Nil
      /\ \A k \in Keys : indexer'[k] = Nil
      /\ observed' = {} /\ unknown' = {} /\ boot' = "caches"
      /\ UNCHANGED <<applied, refused, unanswered, missing, handled>>
  BY DEF Restart
<1>2. FollowInv' /\ AnsweredWasApplied' /\ JobInv'
  BY <1>1 DEF FollowInv, AnsweredWasApplied, JobInv
<1>3. ResolvedInv' /\ LoopInv(Known)' /\ CacheInv(Known)' /\ CacheInv(Suppressible)'
  BY <1>1 DEF ResolvedInv, LoopInv, CacheInv, AtContainer
<1>4. HandledInv(Known)'
  BY <1>1 DEF BootReporting, Reporting, HandledInv, AccountedFor, Known, Answered
<1> QED
  BY <1>2, <1>3, <1>4 DEF BootReporting, Reporting

LEMMA IdleReporting ==
    ASSUME BootReporting,
           UNCHANGED <<clusterVars, workerVars, cacheVars, serverVars, handled, boot, jobVars>>
    PROVE  BootReporting'
BY DEF clusterVars, workerVars, cacheVars, serverVars, jobVars, makeVars, BootReporting,
   FollowInv, AnsweredWasApplied, RecordOf, Reporting, ResolvedInv, LoopInv, HandledInv,
   CacheInv, AccountedFor, Known, Answered,
   Suppressible, Excused, Submitted, JobInv

LEMMA InitBootReporting ==
    ASSUME BootInit
    PROVE  BootReporting
<1>1. Known = {}
  BY DEF BootInit, InitWith, Known, Answered
<1>2. Reporting({})
  BY DEF BootInit, InitWith, Reporting, ResolvedInv, LoopInv, HandledInv, CacheInv, AtContainer
<1>3. FollowInv /\ AnsweredWasApplied /\ CacheInv(Suppressible) /\ JobInv
  BY DEF BootInit, InitWith, FollowInv, AnsweredWasApplied, CacheInv, JobInv
<1> QED
  BY <1>1, <1>2, <1>3 DEF BootReporting

LEMMA AlwaysBootReporting == BootSpec => []BootReporting
<1>1. BootInit => BootReporting
  BY InitBootReporting
<1>2. BootInv /\ BootInv' /\ BootReporting /\ [BootNext]_bootVars => BootReporting'
  <2> SUFFICES ASSUME BootInv, BootInv', BootReporting, [BootNext]_bootVars
               PROVE  BootReporting'
    OBVIOUS
  <2>1. CASE BootSyncFails \/ BootStop
    BY <2>1, StopFrame, IdleReporting
  <2>2. CASE UNCHANGED bootVars
    BY <2>2, IdleReporting DEF bootVars, vars
  <2> QED
    BY <2>1, <2>2, BootCases, ServeReporting, SyncReporting, RestartReporting
<1> QED
  BY <1>1, <1>2, AlwaysBoot, PTL DEF BootSpec

\* A report is suppressed only if the API has answered for its record, or if this process
\* submitted it to a job that it has no answer of (fillCachesFromSubmitted); however the
\* API deals with the job's records, and whatever jobs went before it.
THEOREM BootCacheAnswered == BootSpec => []CachedWasAnswered
<1>1. BootReporting => CachedWasAnswered
  BY DEF BootReporting, CacheInv, CachedWasAnswered, Suppressible, Answered, Excused
<1> QED
  BY <1>1, AlwaysBootReporting, PTL

\* The unknownArtifacts cache holds no digest that the API was not asked for
\* (fillCachesFromJobResult): of two records with one image name neither is taken for
\* unknown on an error that gives that name.
THEOREM BootUnknownMissing == BootSpec => []UnknownIsMissing
<1>1. BootReporting => UnknownIsMissing
  BY DEF BootReporting, Reporting, CacheInv, UnknownIsMissing
<1> QED
  BY <1>1, AlwaysBootReporting, PTL

\* Whatever the sync has put in the caches, a CREATED event that counts as processed had
\* each container of its pod answered for or carried by a job without an answer.
THEOREM BootNothingUnreported == BootSpec => []HandledMeansAccounted
<1>1. BootReporting => HandledMeansAccounted
  BY DEF BootReporting, Reporting, HandledInv, AccountedFor, HandledMeansAccounted,
     Known, Answered
<1> QED
  BY <1>1, AlwaysBootReporting, PTL


(***************************************************************************)
(* Between the gate, the list and the handlers no pod is lost.             *)
(***************************************************************************)
\* From the list on, a reportable pod that was not listed is in the handlers' care: they
\* were open before the list was taken.
GateInv ==
    Serving =>
        /\ ~draining
        /\ boot \notin {"caches", "open"} => CreatedInv(Exempt \cup listed)

LEMMA ServeDraining ==
    ASSUME Serve
    PROVE  draining' = draining
BY DEF Serve, Cluster, Deliver, AddFunc, UpdateFunc, DeleteFunc, Enqueue, Add, Network, Expire,
       RetryDelayEnds, DelayEnds, Work, GetEvent, Get, Lookup, ResolveWorkload, FindNoJob,
       TryCronJob, Resolved,
       CheckActive,
       SkipContainer, StartPost, PostOk, Invalidate, PostNotFound, PostClientError, PostFailed,
       FinishEvent, Finish, queueVars

LEMMA ServeGate ==
    ASSUME BootInv, FollowInv, GateInv, Serve, UNCHANGED <<boot, jobVars>>
    PROVE  GateInv'
<1> SUFFICES ASSUME Serving, boot \notin {"caches", "open"},
                    NEW X, X = Exempt \cup listed, NEW Y, Y = (Exempt \cup listed)'
             PROVE  CreatedInv(Y)'
  BY ServeFrame, ServeDraining DEF GateInv, Serving, runVars, CreatedInv
<1>1. TypeOK /\ ~draining /\ ~syncing /\ CreatedInv(X)
  BY DEF GateInv, BootInv, BootTypeOK, SyncInv
<1>2. listed' = listed
  BY DEF jobVars, makeVars
<1>3. CASE Cluster
  <2>1. Exempt \subseteq Exempt'
    BY <1>3 DEF Cluster, PodAdded, PodUpdated, PodRemoved, PodReplaced, WorkloadAdded,
       WorkloadRemoved, Exempt
  <2>2. X \subseteq Y /\ Exempt' \subseteq Y
    BY <1>2, <2>1
  <2> QED
    BY <1>1, <1>3, <2>2, ClusterCreated
<1>4. CASE Deliver \/ Network \/ Expire \/ RetryDelayEnds \/ \E w \in Workers : Work(w)
  <2>1. UNCHANGED <<replaced, doomed>>
    <3>1. CASE Deliver \/ Network \/ Expire \/ RetryDelayEnds
      BY <3>1 DEF Deliver, Network, Expire, RetryDelayEnds, clusterVars
    <3>2. ASSUME NEW w \in Workers, Work(w) PROVE UNCHANGED <<replaced, doomed>>
      BY <3>2 DEF Work, GetEvent, Lookup, ResolveWorkload, FindNoJob, TryCronJob,
       Resolved, CheckActive, SkipContainer,
         StartPost, PostOk, Invalidate, PostNotFound, PostClientError, PostFailed, FinishEvent,
         clusterVars
    <3> QED
      BY <1>4, <3>1, <3>2
  <2>2. X = Y
    BY <1>2, <2>1 DEF Exempt
  <2> QED
    BY <1>1, <1>4, <2>2, DeliverCreated, WorkCreated, OtherCreated
<1> QED
  BY <1>3, <1>4 DEF Serve

LEMMA SyncGate ==
    ASSUME BootInv, GateInv, Sync
    PROVE  GateInv'
<1>1. UNCHANGED <<clusterVars, queueVars, workerVars, handled>>
  BY SyncFrame
<1>2. Serving' => Serving
  BY SyncMain DEF Serving, BootInv, BootTypeOK
<1>3. CASE ListPods
  <2>1. \A k \in Keys : indexer[k] # Nil /\ Reportable(indexer[k]) => indexer[k].pod \in listed'
    BY <1>3 DEF ListPods, PresentObjects
  <2> QED
    BY <1>1, <1>2, <2>1 DEF GateInv, CreatedInv, Exempt, Serving, clusterVars, queueVars
<1>4. CASE ~ListPods
  <2>1. /\ listed' = listed
        /\ boot' \in {"caches", "open"} \/ boot \notin {"caches", "open"}
    BY <1>4 DEF Sync, OpenGate, MakeSyncRecords, SkipPod, TakePod, NameWithoutJob,
       TakeContainer, Making,
       NoSyncRecords, CreateConflict, CreateNotFound, CreateFails, CreateAccepted, Submitting,
       Made, WaitFails, JobFailed, JobCompleted, JobProceeds, BootStartWorkers, Booting,
       jobVars, makeVars
  <2> QED
    BY <1>1, <1>2, <2>1 DEF GateInv, CreatedInv, CreatedFollowed, Covers, Exempt, Serving,
       clusterVars, queueVars, workerVars
<1> QED
  BY <1>3, <1>4

LEMMA NextGate ==
    ASSUME BootInv, FollowInv, GateInv, [BootNext]_bootVars
    PROVE  GateInv'
<1>1. CASE BootSyncFails \/ BootStop
  BY <1>1, StopFrame DEF GateInv, Serving
<1>2. CASE Restart
  BY <1>2 DEF Restart, GateInv, Serving
<1>3. CASE UNCHANGED bootVars
  BY <1>3 DEF bootVars, vars, clusterVars, queueVars, runVars, workerVars, jobVars, makeVars,
     GateInv, Serving, CreatedInv, CreatedFollowed, Covers, Exempt
<1> QED
  BY <1>1, <1>2, <1>3, BootCases, ServeGate, SyncGate

\* Between the gate of the Add handler, the list and the handlers no pod is lost: a
\* reportable pod of which the handlers were told is in the queue, is processed, or was
\* or will be listed; for any cluster, any order and after any restart.
THEOREM GateLosesNoPod == BootSpec => []GateLosesNothing
<1>1. BootInit => GateInv
  BY DEF BootInit, InitWith, QueueInit, GateInv
<1>2. BootInv /\ BootReporting /\ GateInv /\ [BootNext]_bootVars => GateInv'
  BY NextGate DEF BootReporting
<1>3. BootInv /\ GateInv => GateLosesNothing
  <2> SUFFICES ASSUME BootInv, GateInv, Serving, NEW k \in Keys, indexer[k] # Nil,
                      ~Undelivered(k), Reportable(indexer[k]),
                      indexer[k].pod \notin replaced \cup doomed, boot \notin {"caches", "open"},
                      indexer[k].pod \notin listed
               PROVE  \/ Outstanding(CreatedEvent(k))
                      \/ <<Created, indexer[k].pod>> \in handled
    BY DEF GateLosesNothing
  <2>1. CreatedFollowed(k, indexer[k].pod)
    BY DEF GateInv, CreatedInv, Exempt
  <2> QED
    BY <2>1, CreatedOutstanding DEF BootInv, BootTypeOK
<1> QED
  BY <1>1, <1>2, <1>3, AlwaysBoot, AlwaysBootReporting, PTL DEF BootSpec


(***************************************************************************)
(* The sync and the workers resolve from synced listers.                   *)
(***************************************************************************)
BootSynced ==
    /\ boot # "caches" => Permanent \subseteq lister
    /\ PermanentInv

LEMMA ServeSynced ==
    ASSUME BootInv, BootReporting, BootSynced, Running, Serve, UNCHANGED <<boot, jobVars>>
    PROVE  BootSynced'
<1> USE DEF BootInv, BootTypeOK, BootReporting, BootSynced
<1>1. main # "syncing" => Permanent \subseteq lister
  BY DEF Running, SyncInv
<1>2. Permanent \subseteq lister => Permanent \subseteq lister'
  <2>1. CASE Cluster
    BY <2>1, ClusterKeepsPermanent
  <2>2. CASE Deliver \/ Network \/ Expire \/ RetryDelayEnds
    BY <2>2 DEF Deliver, Network, Expire, RetryDelayEnds, clusterVars
  <2>3. ASSUME NEW w \in Workers, Work(w) PROVE UNCHANGED lister
    BY <2>3 DEF Work, GetEvent, Lookup, ResolveWorkload, FindNoJob, TryCronJob,
       Resolved, CheckActive, SkipContainer, StartPost, PostOk, Invalidate, PostNotFound,
       PostClientError, PostFailed, FinishEvent, clusterVars
  <2> QED
    BY <2>1, <2>2, <2>3 DEF Serve
<1>3. PermanentInv'
  BY <1>1, WorkPermanent, OtherPermanent DEF Serve
<1> QED
  BY <1>2, <1>3

LEMMA NextBootSynced ==
    ASSUME BootInv, BootReporting, BootSynced, [BootNext]_bootVars
    PROVE  BootSynced'
<1> USE DEF BootSynced
<1>1. CASE Sync
  <2>1. UNCHANGED <<lister, pc, event, subject, wl>>
    BY <1>1, SyncFrame DEF clusterVars, workerVars
  <2>2. boot' # "caches" => Permanent \subseteq lister
    BY <1>1 DEF Sync, OpenGate, ListPods, MakeSyncRecords, SkipPod, TakePod, NameWithoutJob,
       TakeContainer, Making, NoSyncRecords, CreateConflict, CreateNotFound, CreateFails,
       CreateAccepted, Submitting, Made, WaitFails, JobFailed, JobCompleted, JobProceeds,
       BootStartWorkers, Booting, BootInv, BootTypeOK, SyncTypeOK
  <2> QED
    BY <2>1, <2>2 DEF PermanentInv
<1>2. CASE Restart
  BY <1>2 DEF Restart, PermanentInv, AtContainer
<1>3. CASE BootSyncFails \/ BootStop \/ UNCHANGED bootVars
  <2>1. UNCHANGED <<lister, pc, event, subject, wl, boot>>
    BY <1>3, StopFrame DEF bootVars, vars, clusterVars, workerVars
  <2> QED
    BY <2>1 DEF PermanentInv
<1> QED
  BY <1>1, <1>2, <1>3, BootCases, ServeSynced

LEMMA AlwaysBootSynced == BootSpec => []BootSynced
<1>1. BootInit => BootSynced
  BY DEF BootInit, InitWith, BootSynced, PermanentInv, AtContainer
<1>2. BootInv /\ BootReporting /\ BootSynced /\ [BootNext]_bootVars => BootSynced'
  BY NextBootSynced
<1> QED
  BY <1>1, <1>2, AlwaysBoot, AlwaysBootReporting, PTL DEF BootSpec

(***************************************************************************)
(* What reaches the API, beside the posts of the workers: what the sync    *)
(* submits, and what a process that crashed has left on its way.           *)
(***************************************************************************)
LEMMA SyncRecordsPosted ==
    ASSUME BootInv, Sync
    PROVE  (applied \cup late)' \subseteq applied \cup late \cup Submitted
<1>0. job \subseteq Submitted
  BY DEF BootInv, BootTypeOK, SyncTypeOK
<1>1. CASE ListPods \/ MakeSyncRecords
  BY <1>1, MakingFrame DEF vars, serverVars
<1>2. CASE JobProceeds
  BY <1>0, <1>2 DEF JobProceeds, JobApplies, JobRejects, Apply
<1>3. CASE \/ OpenGate \/ NoSyncRecords \/ CreateConflict \/ CreateNotFound \/ CreateFails
           \/ CreateAccepted \/ WaitFails \/ JobFailed \/ JobCompleted \/ BootStartWorkers
  BY <1>0, <1>3 DEF OpenGate, NoSyncRecords, CreateConflict, CreateNotFound, CreateFails,
     CreateAccepted, WaitFails, JobFailed, JobCompleted, BootStartWorkers, vars, serverVars
<1> QED
  BY <1>1, <1>2, <1>3 DEF Sync

LEMMA RestartRecordsPosted ==
    ASSUME BootInv, Restart
    PROVE  (applied \cup late)' \subseteq applied \cup late \cup Submitted \cup InFlight
BY DEF Restart, BootInv, BootTypeOK, SyncTypeOK

(***************************************************************************)
(* No permanent workload is decommissioned.                                *)
(***************************************************************************)
LEMMA NextBootPermanent ==
    ASSUME DistinctNames, BootInv, BootReporting, BootSynced, PermanentStaysDeployed,
           [BootNext]_bootVars
    PROVE  PermanentStaysDeployed'
<1>1. \A r \in Submitted : r.status = "deployed"
  BY DEF Submitted, SyncRecord
<1>2. CASE Sync
  BY <1>1, <1>2, SyncRecordsPosted DEF PermanentStaysDeployed
<1>3. CASE Restart
  <2>1. ASSUME NEW r \in InFlight, r.status = "decommissioned",
               NEW o \in Permanent, NEW p \in Pods, NEW i \in DOMAIN Containers(p)
        PROVE  r.dn # DeploymentName(o.ns, o.name, Containers(p)[i].name)
    BY <2>1, DeletionRecords DEF InFlight, AtContainer, BootInv, BootTypeOK, BootReporting,
       Reporting, BootSynced
  <2> QED
    BY <1>1, <1>3, <2>1, RestartRecordsPosted DEF PermanentStaysDeployed
<1>4. CASE Serve
  BY <1>4, StaysDeployed DEF Serve, BootInv, BootTypeOK, BootReporting, Reporting, BootSynced
<1>5. CASE BootSyncFails \/ BootStop \/ UNCHANGED bootVars
  <2>1. UNCHANGED <<applied, late>>
    BY <1>5, StopFrame DEF bootVars, vars, serverVars
  <2> QED
    BY <2>1 DEF PermanentStaysDeployed
<1> QED
  BY <1>2, <1>3, <1>4, <1>5, BootCases

\* With the bulk sync and through restarts, too, no deployment of a workload that exists
\* throughout is decommissioned: neither by a worker that starts before the caches are
\* synced nor by a request that a crashed process has left behind.
THEOREM BootPermanentNeverDecommissioned ==
    ASSUME DistinctNames
    PROVE  BootSpec => []PermanentStaysDeployed
<1>1. BootInit => PermanentStaysDeployed
  BY DEF BootInit, InitWith, PermanentStaysDeployed
<1>2. BootInv /\ BootReporting /\ BootSynced /\ PermanentStaysDeployed /\ [BootNext]_bootVars
        => PermanentStaysDeployed'
  BY NextBootPermanent
<1> QED
  BY <1>1, <1>2, AlwaysBoot, AlwaysBootReporting, AlwaysBootSynced, PTL DEF BootSpec

(***************************************************************************)
(* The sync and the workers, of this and of earlier processes, report a    *)
(* container under one name.                                               *)
(***************************************************************************)
\* makeSyncRecords has its pod's name from a synced lister, or has asked the Job lister
\* in vain for a Job that is none of those that stay.
MakingNamed ==
    making # Nil =>
        LET p == making.obj.pod
        IN  IF making.name = NoName
            THEN JobsNamed(Permanent, PodInfo[p].ns, JobOf(p)) = {}
            ELSE \E l \in SUBSET Workloads :
                    Permanent \subseteq l /\ making.name = WorkloadOf(l, p).name

SubmittedNamed == \A r \in Submitted : NameFound(r.dn)

BootNames == SyncedInv /\ MakingNamed /\ SubmittedNamed /\ NamesFound

LEMMA MakingNames ==
    ASSUME BootInv, BootSynced, MakingNamed, SubmittedNamed, MakeSyncRecords
    PROVE  MakingNamed' /\ SubmittedNamed'
<1>1. Permanent \subseteq lister /\ lister \in SUBSET Workloads
  BY DEF MakeSyncRecords, SkipPod, TakePod, NameWithoutJob, TakeContainer, Making, Booting,
     BootSynced, BootInv, BootTypeOK, TypeOK, ClusterTypeOK
<1>2. ASSUME NEW obj \in todo, SkipPod(obj) PROVE UNCHANGED <<making, snapshot>>
  BY <1>2 DEF SkipPod
<1>3. ASSUME NEW obj \in todo, TakePod(obj) PROVE MakingNamed' /\ UNCHANGED snapshot
  <2>1. /\ making' = [obj |-> obj, name |-> IF NoJob(obj) THEN NoName ELSE SyncName(obj),
                      at |-> 1]
        /\ SyncName(obj) # NoName /\ UNCHANGED snapshot
    BY <1>3 DEF TakePod
  <2>2. SyncName(obj) = WorkloadOf(lister, obj.pod).name
    BY DEF SyncName, WorkloadOf, Owners
  <2>3. NoJob(obj) => JobsNamed(Permanent, PodInfo[obj.pod].ns, JobOf(obj.pod)) = {}
    BY <1>1 DEF NoJob, LacksJob, JobsNamed, JobOf, Owners
  <2> QED
    BY <1>1, <2>1, <2>2, <2>3 DEF MakingNamed
<1>4. ASSUME NameWithoutJob PROVE MakingNamed' /\ UNCHANGED snapshot
  <2> DEFINE p    == making.obj.pod
             rest == lister \ JobsNamed(lister, PodInfo[p].ns, JobOf(p))
             id   == MissingJobWorkload(lister, PodInfo[p].ns, JobOf(p))
  <2>1. /\ making # Nil /\ making.name = NoName /\ UNCHANGED snapshot
        /\ making' = [making EXCEPT !.name = id.name]
    BY <1>4 DEF NameWithoutJob, JobOf, Owners
  <2>2. making \in [obj : PodObjects, name : SyncNames, at : Nat] /\ ThroughJob(PodInfo[p].owners)
    BY <2>1 DEF BootInv, BootTypeOK, SyncTypeOK, Owners
  <2>3. p \in Pods
    BY <2>2 DEF PodObjects
  <2>4. id = WorkloadOf(rest, p)
    BY <1>1, <2>2, <2>3, MissingJobResolves DEF WorkloadOf, JobOf
  <2>5. JobsNamed(Permanent, PodInfo[p].ns, JobOf(p)) = {}
    BY <2>1 DEF MakingNamed
  <2>6. Permanent \subseteq rest /\ rest \in SUBSET Workloads
    BY <1>1, <2>5 DEF JobsNamed
  <2>7. making'.obj = making.obj /\ making'.name = WorkloadOf(rest, p).name
    <3> HIDE DEF rest, id, p
    <3> QED
      BY <2>1, <2>2, <2>4
  <2> HIDE DEF rest, id
  <2> QED
    BY <2>1, <2>5, <2>6, <2>7 DEF MakingNamed
<1>5. ASSUME TakeContainer PROVE MakingNamed' /\ SubmittedNamed'
  <2> DEFINE p == making.obj.pod
             c == SyncCandidate(making.obj, making.at, making.name)
  <2>1. /\ making # Nil /\ making.name # NoName
        /\ snapshot' = Collapse(snapshot, c)
        /\ making' # Nil => making' = [making EXCEPT !.at = @ + 1]
    BY <1>5 DEF TakeContainer
  <2>2. /\ making \in [obj : PodObjects, name : SyncNames, at : Nat]
        /\ making.at \in DOMAIN Containers(p)
    BY <2>1 DEF BootInv, BootTypeOK, SyncTypeOK
  <2>3. p \in Pods
    BY <2>2 DEF PodObjects
  <2>4. PICK l \in SUBSET Workloads :
           Permanent \subseteq l /\ making.name = WorkloadOf(l, p).name
    BY <2>1 DEF MakingNamed
  <2>5. MakingNamed'
    <3>1. making' # Nil => making'.obj = making.obj /\ making'.name = making.name
      BY <2>1, <2>2
    <3> QED
      BY <2>1, <2>4, <3>1 DEF MakingNamed
  <2>6. SyncRecord(c).dn =
          DeploymentName(PodInfo[p].ns, making.name, Containers(p)[making.at].name)
    BY DEF SyncCandidate, SyncRecord
  <2>7. NameFound(SyncRecord(c).dn)
    BY <2>2, <2>3, <2>4, <2>6 DEF NameFound, NamedBy
  <2>8. snapshot' \subseteq snapshot \cup {c}
    BY <2>1 DEF Collapse
  <2> HIDE DEF c
  <2> QED
    BY <2>5, <2>7, <2>8 DEF SubmittedNamed, Submitted
<1> QED
  BY <1>2, <1>3, <1>4, <1>5 DEF MakeSyncRecords, MakingNamed, SubmittedNamed, Submitted

LEMMA NextBootNames ==
    ASSUME BootInv, BootReporting, BootSynced, BootNames, [BootNext]_bootVars
    PROVE  BootNames'
<1> USE DEF BootNames
<1>1. TypeOK /\ FollowInv /\ PermanentInv
  BY DEF BootInv, BootTypeOK, BootReporting, BootSynced
<1>2. CASE Serve /\ UNCHANGED <<boot, jobVars>>
  <2>1. SyncedInv' /\ NamesFound'
    BY <1>1, <1>2, WorkSynced, OtherSynced, NamesStayFound DEF Serve
  <2> QED
    BY <1>2, <2>1 DEF jobVars, makeVars, MakingNamed, SubmittedNamed, Submitted
<1>3. CASE Sync
  <2>1. UNCHANGED <<pc, event, subject, wl>>
    BY <1>3, SyncFrame DEF workerVars
  <2>2. NamesFound'
    BY <1>3, SyncRecordsPosted DEF NamesFound, SubmittedNamed
  <2>3. MakingNamed' /\ SubmittedNamed'
    <3>1. CASE MakeSyncRecords
      BY <3>1, MakingNames
    <3>2. CASE ~MakeSyncRecords
      BY <1>3, <3>2 DEF Sync, OpenGate, ListPods, NoSyncRecords, CreateConflict, CreateNotFound,
         CreateFails, CreateAccepted, WaitFails, JobFailed, JobCompleted, JobProceeds,
         BootStartWorkers, jobVars, makeVars, MakingNamed, SubmittedNamed, Submitted
    <3> QED
      BY <3>1, <3>2
  <2> QED
    BY <2>1, <2>2, <2>3 DEF SyncedInv, FoundSynced, JobPasses
<1>4. CASE Restart
  <2>1. \A r \in InFlight : NameFound(r.dn)
    BY <1>1, RecordNamed DEF InFlight, AtContainer
  <2>2. NamesFound'
    BY <1>4, <2>1, RestartRecordsPosted DEF NamesFound, SubmittedNamed
  <2>3. SyncedInv' /\ MakingNamed' /\ SubmittedNamed'
    BY <1>4 DEF Restart, SyncedInv, FoundSynced, JobPasses, AtContainer, MakingNamed,
       SubmittedNamed, Submitted
  <2> QED
    BY <2>2, <2>3
<1>5. CASE BootSyncFails \/ BootStop \/ UNCHANGED bootVars
  <2>1. UNCHANGED <<pc, event, subject, wl, applied, late, making, snapshot>>
    BY <1>5, StopFrame DEF bootVars, vars, workerVars, serverVars, jobVars, makeVars
  <2> QED
    BY <2>1 DEF SyncedInv, FoundSynced, JobPasses, MakingNamed, SubmittedNamed, Submitted,
       NamesFound
<1> QED
  BY <1>2, <1>3, <1>4, <1>5, BootCases

\* All records about a container carry one deployment name, whether makeSyncRecords or a
\* worker resolves its workload and in whichever process, under the premises of
\* IdentityStable.
THEOREM BootIdentityStable ==
    ASSUME NamesIdentify, CronJobsStay
    PROVE  BootSpec => []StableIdentity
<1>1. BootInit => BootNames
  BY DEF BootInit, InitWith, BootNames, SyncedInv, FoundSynced, JobPasses, AtContainer,
     MakingNamed, SubmittedNamed, Submitted, NamesFound
<1>2. BootInv /\ BootReporting /\ BootSynced /\ BootNames /\ [BootNext]_bootVars => BootNames'
  BY NextBootNames
<1>3. BootNames => StableIdentity
  BY OneName DEF BootNames, NamesFound, StableIdentity, NamedBy
<1> QED
  BY <1>1, <1>2, <1>3, AlwaysBoot, AlwaysBootReporting, AlwaysBootSynced, PTL DEF BootSpec
=============================================================================
