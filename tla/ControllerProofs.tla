---------------------------- MODULE ControllerProofs ----------------------------
(***************************************************************************)
(* Proofs about Controller, for any number of workers, pods and workloads. *)
(***************************************************************************)
EXTENDS Controller, TLAPS

(***************************************************************************)
(* The work queue.                                                         *)
(***************************************************************************)
LEMMA AddProperties ==
    ASSUME NEW Items, QueueTypeOK(Items), QueueConsistent, NEW e \in Items, Add(e)
    PROVE  QueueTypeOK(Items)' /\ QueueConsistent'
<1>1. CASE draining \/ e \in dirty
  BY <1>1 DEF QueueTypeOK, QueueConsistent, Queued, Add
<1>2. CASE ~draining /\ e \notin dirty /\ e \in processing
  BY <1>2 DEF QueueTypeOK, QueueConsistent, Queued, Add
<1>3. CASE ~draining /\ e \notin dirty /\ e \notin processing
  <2>1. queue' = Append(queue, e) /\ dirty' = dirty \cup {e} /\ processing' = processing
    BY <1>3 DEF Add
  <2>2. e \notin Queued
    BY <1>3 DEF QueueConsistent
  <2> QED
    BY <1>3, <2>1, <2>2 DEF QueueTypeOK, QueueConsistent, Queued, Add
<1> QED
  BY <1>1, <1>2, <1>3

LEMMA GetProperties ==
    ASSUME NEW Items, QueueTypeOK(Items), QueueConsistent, queue # <<>>, Get(Head(queue))
    PROVE  /\ QueueTypeOK(Items)' /\ QueueConsistent'
           /\ Head(queue) \in Items
           /\ Head(queue) \notin processing
           /\ processing' = processing \cup {Head(queue)}
<1>1. /\ queue \in Seq(Items) /\ Head(queue) = queue[1] /\ 1 \in DOMAIN queue
      /\ queue' = Tail(queue) /\ Tail(queue) \in Seq(Items)
      /\ Len(Tail(queue)) = Len(queue) - 1
      /\ \A i \in DOMAIN Tail(queue) : i + 1 \in DOMAIN queue /\ Tail(queue)[i] = queue[i + 1]
      /\ \A i \in DOMAIN queue : i # 1 => i - 1 \in DOMAIN Tail(queue)
  BY DEF QueueTypeOK, Get
<1>2. Queued' = Queued \ {Head(queue)}
  BY <1>1 DEF Queued, QueueConsistent
<1>3. \A i, j \in DOMAIN queue' : queue'[i] = queue'[j] => i = j
  BY <1>1 DEF QueueConsistent
<1>4. Head(queue) \in Queued
  BY <1>1 DEF Queued
<1> QED
  BY <1>1, <1>2, <1>3, <1>4 DEF QueueTypeOK, QueueConsistent, Get

LEMMA FinishProperties ==
    ASSUME NEW Items, QueueTypeOK(Items), QueueConsistent,
           NEW e \in processing, NEW retry, Finish(e, retry)
    PROVE  QueueTypeOK(Items)' /\ QueueConsistent' /\ processing' = processing \ {e}
<1>1. CASE e \notin dirty
  BY <1>1 DEF QueueTypeOK, QueueConsistent, Queued, Finish
<1>2. CASE e \in dirty
  <2>1. e \notin Queued /\ queue' = Append(queue, e) /\ e \in Items
    BY <1>2 DEF QueueConsistent, Finish, QueueTypeOK
  <2> QED
    BY <1>2, <2>1 DEF QueueTypeOK, QueueConsistent, Queued, Finish
<1> QED
  BY <1>1, <1>2

LEMMA DelayEndsProperties ==
    ASSUME NEW Items, QueueTypeOK(Items), QueueConsistent, NEW e, DelayEnds(e)
    PROVE  QueueTypeOK(Items)' /\ QueueConsistent' /\ processing' = processing
<1>0. e \in Items
  BY DEF DelayEnds, QueueTypeOK
<1>1. CASE draining \/ e \in dirty
  BY <1>1 DEF QueueTypeOK, QueueConsistent, Queued, DelayEnds
<1>2. CASE ~draining /\ e \notin dirty /\ e \in processing
  BY <1>0, <1>2 DEF QueueTypeOK, QueueConsistent, Queued, DelayEnds
<1>3. CASE ~draining /\ e \notin dirty /\ e \notin processing
  <2>1. /\ queue' = Append(queue, e) /\ dirty' = dirty \cup {e}
        /\ processing' = processing /\ e \notin Queued
    BY <1>3 DEF DelayEnds, QueueConsistent
  <2> QED
    BY <1>0, <1>3, <2>1 DEF QueueTypeOK, QueueConsistent, Queued, DelayEnds
<1> QED
  BY <1>1, <1>2, <1>3

LEMMA ShutDownProperties ==
    ASSUME NEW Items, QueueTypeOK(Items), QueueConsistent, ShutDown
    PROVE  QueueTypeOK(Items)' /\ QueueConsistent' /\ processing' = processing
BY DEF QueueTypeOK, QueueConsistent, Queued, ShutDown

LEMMA QueueUnchanged ==
    ASSUME NEW Items, QueueTypeOK(Items), QueueConsistent, UNCHANGED queueVars
    PROVE  QueueTypeOK(Items)' /\ QueueConsistent' /\ processing' = processing
BY DEF QueueTypeOK, QueueConsistent, Queued, queueVars

(***************************************************************************)
(* Data.                                                                   *)
(***************************************************************************)
\* A container of a pod is there to be reported on.
LEMMA ContainersProperties ==
    ASSUME NEW p \in Pods
    PROVE  /\ Len(Containers(p)) \in Nat /\ Len(Containers(p)) >= 1
           /\ DOMAIN Containers(p) = 1 .. Len(Containers(p))
<1>1. /\ Containers(p) # <<>>
      /\ Containers(p) \in Seq({Containers(p)[i] : i \in DOMAIN Containers(p)})
  BY PodInfoAssumption
<1> QED
  BY <1>1

\* buildRecord yields a record: of a name the container may have, with its digest.
LEMMA BuildRecordType ==
    ASSUME NEW type \in {Created, Deleted}, NEW obj \in PodObjects,
           NEW i \in DOMAIN Containers(obj.pod), NEW id \in Resolutions
    PROVE  BuildRecord(type, obj, i, id.name) \in Records
<1> DEFINE c == Containers(obj.pod)[i]
<1>1. obj.pod \in Pods
  BY DEF PodObjects
<1>2. PodInfo[obj.pod].ns \in Namespaces /\ c.name \in ContainerNames /\ c.digest \in Digests
  BY <1>1 DEF Namespaces, ContainerNames, Digests
<1>3. DeploymentName(PodInfo[obj.pod].ns, id.name, c.name) \in DeploymentNames
  BY <1>2 DEF DeploymentNames
<1>4. ContainerDigest(obj, i) \in Digests \cup {NoDigest}
  BY <1>2 DEF ContainerDigest
<1> QED
  BY <1>3, <1>4 DEF BuildRecord, Records

\* A Job that the Job lister lacks is resolved as if the listers held no such Job.
LEMMA MissingJobResolves ==
    ASSUME NEW p \in Pods, ThroughJob(PodInfo[p].owners), NEW l \in SUBSET Workloads
    PROVE  LET ns  == PodInfo[p].ns
               job == GetJobOwnerName(PodInfo[p].owners)
           IN  /\ MissingJobWorkload(l, ns, job)
                     = Resolve(l \ JobsNamed(l, ns, job), ns, PodInfo[p].owners)
               /\ MissingJobWorkload(l, ns, job) \in Resolutions
<1> DEFINE ns   == PodInfo[p].ns
           job  == GetJobOwnerName(PodInfo[p].owners)
           rest == l \ JobsNamed(l, ns, job)
<1>1. JobsNamed(rest, ns, job) = {}
  BY DEF JobsNamed
<1>2. FromCronJobName(rest, ns, job) = FromCronJobName(l, ns, job)
  BY DEF FromCronJobName, InLister, JobsNamed
<1>3. MissingJobWorkload(rest, ns, job) = MissingJobWorkload(l, ns, job)
  BY <1>2 DEF MissingJobWorkload
<1>4. resolveJobWorkload(rest, ns, job) = MissingJobWorkload(rest, ns, job)
  BY <1>1 DEF resolveJobWorkload
<1>5. Resolve(rest, ns, PodInfo[p].owners) = resolveJobWorkload(rest, ns, job)
  BY DEF Resolve, ThroughJob
<1> HIDE DEF ns, job, rest
<1>6. Resolve(rest, ns, PodInfo[p].owners) \in Resolutions
  BY DEF Resolutions, rest, ns
<1> QED
  BY <1>3, <1>4, <1>5, <1>6 DEF ns, job, rest

Resolving(w) == ResolveWorkload(w) \/ FindNoJob(w) \/ TryCronJob(w)

\* What Resolve does: it asks the CronJob lister next, or it returns what the listers
\* determine, where the Job may count as gone although it has come back since.
LEMMA ResolvingStep ==
    ASSUME ClusterTypeOK, WorkerTypeOK, NEW w \in Workers, Resolving(w)
    PROVE  /\ pc[w] \in {"resolve", "cronjob"}
           /\ UNCHANGED <<event, subject, at, lastErr, clusterVars, queueVars, runVars,
                          cacheVars, serverVars, handled>>
           /\ \/ /\ wl' = wl /\ pc' = [pc EXCEPT ![w] = "cronjob"]
                 /\ LacksJob(lister, PodInfo[subject[w].pod].ns, Owners(subject[w]))
              \/ \E id \in Resolutions, step \in {"done", "active", "container"},
                    l \in SUBSET lister :
                    /\ wl' = [wl EXCEPT ![w] = id] /\ pc' = [pc EXCEPT ![w] = step]
                    /\ id = NoIdentity <=> step = "done"
                    /\ event[w].type = Deleted => step # "container"
                    /\ step = "active" => event[w].type = Deleted
                    /\ id = Resolve(l, PodInfo[subject[w].pod].ns, Owners(subject[w]))
                    /\ \/ l = lister
                       \/ /\ pc[w] = "cronjob"
                          /\ l = lister \ JobsNamed(lister, PodInfo[subject[w].pod].ns,
                                                    GetJobOwnerName(Owners(subject[w])))
<1> DEFINE p      == subject[w].pod
           ns     == PodInfo[p].ns
           owners == PodInfo[p].owners
<1>0. Owners(subject[w]) = owners
  BY DEF Owners
<1>1. p \in Pods /\ lister \in SUBSET Workloads
  BY DEF Resolving, ResolveWorkload, FindNoJob, TryCronJob, ClusterTypeOK, WorkerTypeOK,
         WorkerOK, PodObjects
<1>2. ASSUME NEW id, Resolved(w, id)
      PROVE  \E step \in {"done", "active", "container"} :
                /\ wl' = [wl EXCEPT ![w] = id] /\ pc' = [pc EXCEPT ![w] = step]
                /\ id = NoIdentity <=> step = "done"
                /\ event[w].type = Deleted => step # "container"
                /\ step = "active" => event[w].type = Deleted
  <2>1. CASE id = NoIdentity
    BY <1>2, <2>1 DEF Resolved, Goto
  <2>2. CASE id # NoIdentity /\ event[w].type = Deleted
    BY <1>2, <2>2 DEF Resolved, Goto
  <2>3. CASE id # NoIdentity /\ event[w].type # Deleted
    BY <1>2, <2>3 DEF Resolved, Goto
  <2> QED
    BY <2>1, <2>2, <2>3
<1>3. CASE ResolveWorkload(w)
  <2> DEFINE id == Resolve(lister, ns, owners)
  <2>1. id \in Resolutions
    BY <1>1 DEF Resolutions
  <2>2. Resolved(w, id) /\ pc[w] = "resolve"
    BY <1>0, <1>3 DEF ResolveWorkload
  <2>3. lister \in SUBSET lister /\ id = Resolve(lister, ns, owners)
    OBVIOUS
  <2> HIDE DEF id
  <2> QED
    BY <1>0, <1>2, <2>1, <2>2, <2>3 DEF Resolved
<1>4. CASE FindNoJob(w)
  BY <1>4 DEF FindNoJob, Goto
<1>5. CASE TryCronJob(w)
  <2> DEFINE l  == lister \ JobsNamed(lister, ns, GetJobOwnerName(owners))
             id == MissingJobWorkload(lister, ns, GetJobOwnerName(owners))
  <2>1. pc[w] = "cronjob" /\ Resolved(w, id) /\ ThroughJob(owners)
    BY <1>0, <1>5 DEF TryCronJob, WorkerTypeOK, WorkerOK
  <2>2. id \in Resolutions /\ id = Resolve(l, ns, owners)
    BY <1>1, <2>1, MissingJobResolves
  <2>3. l \in SUBSET lister
    OBVIOUS
  <2>4. l = lister \ JobsNamed(lister, ns, GetJobOwnerName(Owners(subject[w])))
    BY <1>0
  <2> HIDE DEF id, l
  <2> QED
    BY <1>0, <1>2, <2>1, <2>2, <2>3, <2>4 DEF Resolved
<1> QED
  BY <1>3, <1>4, <1>5 DEF Resolving

LEMMA RecordOfType ==
    ASSUME WorkerTypeOK, NEW w \in Workers,
           pc[w] \in {"container", "posting", "answered", "invalidate"}
    PROVE  RecordOf(w) \in Records
<1>1. /\ event[w] \in PodEvents /\ subject[w] \in PodObjects /\ wl[w] \in Resolutions
      /\ at[w] \in Nat \ {0} /\ at[w] <= Len(Containers(subject[w].pod))
  BY DEF WorkerTypeOK, WorkerOK
<1>2. event[w].type \in {Created, Deleted}
  BY <1>1 DEF PodEvents, CreatedEvent, DeletedEvent
<1>3. at[w] \in DOMAIN Containers(subject[w].pod)
  BY <1>1, ContainersProperties DEF PodObjects
<1> QED
  BY <1>1, <1>2, <1>3, BuildRecordType DEF RecordOf

LEMMA OppositeProperties ==
    ASSUME NEW r \in Records
    PROVE  /\ Opposite(r) \in Records
           /\ Opposite(r) # r
           /\ Opposite(Opposite(r)) = r
           /\ \A q \in Records : Opposite(q) = r => q = Opposite(r)
BY DEF Records, Opposite

LEMMA EventTypes ==
    ASSUME NEW e \in PodEvents
    PROVE  /\ e.type \in {Created, Deleted}
           /\ e.key \in Keys
           /\ e.type = Deleted => e.pod \in PodObjects
           /\ e.type = Created => e.pod = Nil
           /\ e # Nil
<1>1. ASSUME NEW obj \in PodObjects PROVE Key(obj.pod) \in Keys
  BY DEF PodObjects, Keys
<1> QED
  BY <1>1, NilAssumption DEF PodEvents, CreatedEvent, DeletedEvent, Created, Deleted

(***************************************************************************)
(* Types and the queue's discipline, step by step.                         *)
(***************************************************************************)
\* The strengthening of SingleFlight: what is being processed is what the busy workers
\* hold, and nothing is queued twice or lost between the queue's sets.
QueueSound ==
    /\ SingleFlight
    /\ processing = {event[w] : w \in {v \in Workers : pc[v] # "idle"}}
    /\ QueueConsistent

LEMMA WorkersUnchanged ==
    ASSUME WorkerTypeOK, UNCHANGED workerVars
    PROVE  WorkerTypeOK'
BY DEF WorkerTypeOK, WorkerOK, workerVars

LEMMA ReportUnchanged ==
    ASSUME ReportTypeOK, UNCHANGED <<cacheVars, serverVars, handled>>
    PROVE  ReportTypeOK'
BY DEF ReportTypeOK, cacheVars, serverVars

LEMMA QueueSoundKept ==
    ASSUME QueueSound, UNCHANGED workerVars, QueueConsistent', processing' = processing
    PROVE  QueueSound'
BY DEF QueueSound, SingleFlight, workerVars

LEMMA NotifyType ==
    ASSUME ClusterTypeOK, NEW old \in PodObjects \cup {Nil}, NEW new \in PodObjects \cup {Nil},
           old # Nil \/ new # Nil, Notify(old, new)
    PROVE  notes' \in Seq(Notifications)
<1>1. [old |-> old, new |-> new] \in Notifications
  BY DEF Notifications
<1> QED
  BY <1>1 DEF ClusterTypeOK, Notify

LEMMA ClusterStep ==
    ASSUME TypeOK, QueueSound, Cluster
    PROVE  TypeOK' /\ QueueSound'
<1>1. ClusterTypeOK'
  <2>1. ASSUME NEW p \in Pods, NEW phase \in Phases, PodAdded(p, phase)
        PROVE  ClusterTypeOK'
    <3>1. [pod |-> p, phase |-> phase, deleting |-> FALSE] \in PodObjects /\ Nil \notin PodObjects
      BY NilAssumption DEF PodObjects
    <3>2. notes' \in Seq(Notifications)
      BY <2>1, <3>1, NotifyType DEF PodAdded, TypeOK
    <3> QED
      BY <2>1, <3>1, <3>2 DEF ClusterTypeOK, PodAdded, TypeOK
  <2>2. ASSUME NEW k \in Keys, NEW phase \in Phases, NEW d \in Stamps, PodUpdated(k, phase, d)
        PROVE  ClusterTypeOK'
    <3> DEFINE new == [indexer[k] EXCEPT !.phase = phase, !.deleting = d]
    <3>1. indexer[k] \in PodObjects /\ Nil \notin PodObjects
      BY <2>2, NilAssumption DEF TypeOK, ClusterTypeOK, PodUpdated
    <3>2. new \in PodObjects
      BY <3>1, StampsAssumption DEF PodObjects
    <3>3. notes' \in Seq(Notifications)
      BY <2>2, <3>1, <3>2, NotifyType DEF PodUpdated, TypeOK
    <3>4. doomed' \subseteq Pods
      BY <2>2, <3>1 DEF ClusterTypeOK, PodUpdated, TypeOK, PodObjects
    <3>5. indexer' \in [Keys -> PodObjects \cup {Nil}]
      BY <2>2, <3>2 DEF ClusterTypeOK, PodUpdated, TypeOK
    <3> QED
      BY <2>2, <3>3, <3>4, <3>5 DEF ClusterTypeOK, PodUpdated, TypeOK
  <2>3. ASSUME NEW k \in Keys, PodRemoved(k)
        PROVE  ClusterTypeOK'
    <3>1. notes' \in Seq(Notifications)
      BY <2>3, NotifyType DEF PodRemoved, TypeOK, ClusterTypeOK
    <3> QED
      BY <2>3, <3>1 DEF ClusterTypeOK, PodRemoved, TypeOK
  <2>4. ASSUME NEW p \in Pods, NEW phase \in Phases, PodReplaced(p, phase)
        PROVE  ClusterTypeOK'
    <3>1. [pod |-> p, phase |-> phase, deleting |-> FALSE] \in PodObjects /\ Nil \notin PodObjects
      BY NilAssumption DEF PodObjects
    <3>2. Key(p) \in Keys /\ indexer[Key(p)] \in PodObjects
      BY <2>4 DEF Keys, TypeOK, ClusterTypeOK, PodReplaced
    <3>3. notes' \in Seq(Notifications)
      BY <2>4, <3>1, <3>2, NotifyType DEF PodReplaced, TypeOK
    <3>4. indexer[Key(p)].pod \in Pods
      BY <3>2 DEF PodObjects
    <3> QED
      BY <2>4, <3>1, <3>2, <3>3, <3>4 DEF ClusterTypeOK, PodReplaced, TypeOK
  <2>5. ASSUME NEW o \in Workloads, WorkloadAdded(o) \/ WorkloadRemoved(o)
        PROVE  ClusterTypeOK'
    BY <2>5 DEF ClusterTypeOK, WorkloadAdded, WorkloadRemoved, TypeOK
  <2> QED
    BY <2>1, <2>2, <2>3, <2>4, <2>5 DEF Cluster
<1>2. UNCHANGED <<queueVars, runVars, workerVars, cacheVars, serverVars, handled>>
  BY DEF Cluster
<1>3. QueueTypeOK(PodEvents)' /\ QueueConsistent' /\ processing' = processing
  BY <1>2, QueueUnchanged DEF TypeOK, QueueSound, SingleFlight
<1>4. QueueSound'
  BY <1>2, <1>3, QueueSoundKept
<1>5. RunTypeOK'
  BY <1>2 DEF TypeOK, RunTypeOK, runVars
<1> QED
  BY <1>1, <1>2, <1>3, <1>4, <1>5, WorkersUnchanged, ReportUnchanged DEF TypeOK

LEMMA DeliverStep ==
    ASSUME TypeOK, QueueSound, Deliver
    PROVE  TypeOK' /\ QueueSound'
<1>1. /\ notes \in Seq(Notifications) /\ notes # <<>>
      /\ Head(notes) \in Notifications /\ notes' = Tail(notes)
  BY DEF Deliver, TypeOK, ClusterTypeOK
<1>2. UNCHANGED <<indexer, lister, born, replaced, doomed, runVars, workerVars, cacheVars,
                  serverVars, handled>>
  BY DEF Deliver
<1>3. ClusterTypeOK'
  BY <1>1, <1>2 DEF TypeOK, ClusterTypeOK
<1>4. \E e \in PodEvents, cond \in BOOLEAN : Enqueue(cond, e)
  <2>1. CASE AddFunc
    <3>1. Head(notes).new \in PodObjects
      BY <1>1, <2>1 DEF AddFunc, Notifications
    <3>2. CreatedEvent(Key(Head(notes).new.pod)) \in PodEvents
      BY <3>1 DEF PodEvents, Keys, PodObjects
    <3> QED
      BY <2>1, <3>2 DEF AddFunc, Enqueue
  <2>2. CASE UpdateFunc
    <3>1. Head(notes).new \in PodObjects
      BY <1>1, <2>2 DEF UpdateFunc, Notifications
    <3>2. CreatedEvent(Key(Head(notes).new.pod)) \in PodEvents
      BY <3>1 DEF PodEvents, Keys, PodObjects
    <3> QED
      BY <2>2, <3>2 DEF UpdateFunc, Enqueue
  <2>3. CASE DeleteFunc
    <3>1. Head(notes).old \in PodObjects
      BY <1>1, <2>3 DEF DeleteFunc, Notifications
    <3>2. DeletedEvent(Head(notes).old) \in PodEvents
      BY <3>1 DEF PodEvents
    <3> QED
      BY <2>3, <3>2 DEF DeleteFunc, Enqueue
  <2> QED
    BY <2>1, <2>2, <2>3 DEF Deliver
<1>5. QueueTypeOK(PodEvents)' /\ QueueConsistent' /\ processing' = processing
  <2>1. PICK e \in PodEvents, cond \in BOOLEAN : Enqueue(cond, e)
    BY <1>4
  <2>2. CASE cond
    BY <2>1, <2>2, AddProperties DEF Enqueue, TypeOK, QueueSound, SingleFlight, Add
  <2>3. CASE ~cond
    BY <2>1, <2>3, QueueUnchanged DEF Enqueue, TypeOK, QueueSound, SingleFlight
  <2> QED
    BY <2>2, <2>3
<1>6. QueueSound'
  BY <1>2, <1>5, QueueSoundKept
<1>7. RunTypeOK'
  BY <1>2 DEF TypeOK, RunTypeOK, runVars
<1> QED
  BY <1>2, <1>3, <1>5, <1>6, <1>7, WorkersUnchanged, ReportUnchanged DEF TypeOK

\* The workers of QueueSound: what is processed is what the busy workers hold.
LEMMA BusyUnchanged ==
    ASSUME TypeOK, QueueSound, NEW w \in Workers, UNCHANGED queueVars, event' = event,
           pc[w] # "idle", NEW step \in PCs \ {"idle"}, pc' = [pc EXCEPT ![w] = step]
    PROVE  QueueTypeOK(PodEvents)' /\ QueueSound'
<1>1. QueueTypeOK(PodEvents)' /\ QueueConsistent' /\ processing' = processing
  BY QueueUnchanged DEF TypeOK, QueueSound, SingleFlight
<1>2. \A v \in Workers : pc'[v] # "idle" <=> pc[v] # "idle"
  BY DEF TypeOK, WorkerTypeOK
<1> QED
  BY <1>1, <1>2 DEF QueueSound, SingleFlight

LEMMA ClusterAndRunUnchanged ==
    ASSUME TypeOK, UNCHANGED <<clusterVars, runVars>>
    PROVE  ClusterTypeOK' /\ RunTypeOK'
BY DEF TypeOK, ClusterTypeOK, RunTypeOK, clusterVars, runVars

LEMMA GetEventStep ==
    ASSUME TypeOK, QueueSound, NEW w \in Workers, GetEvent(w)
    PROVE  TypeOK' /\ QueueSound'
<1> DEFINE e == Head(queue)
<1>1. /\ QueueTypeOK(PodEvents)' /\ QueueConsistent'
      /\ e \in PodEvents /\ e \notin processing /\ processing' = processing \cup {e}
  BY GetProperties DEF GetEvent, TypeOK, QueueSound, SingleFlight
<1>2. /\ e.type \in {Created, Deleted} /\ e # Nil
      /\ e.type = Deleted => e.pod \in PodObjects
      /\ e.pod \in PodObjects \cup {Nil}
  BY <1>1, EventTypes
<1>3. Nil \notin PodObjects
  BY NilAssumption
<1>4. WorkerTypeOK'
  BY <1>1, <1>2, <1>3 DEF GetEvent, Goto, TypeOK, WorkerTypeOK, WorkerOK, PCs
<1>5. QueueSound'
  <2>1. \A v \in Workers : v # w => event[v] # e
    BY <1>1, <1>2 DEF QueueSound, SingleFlight, TypeOK, WorkerTypeOK, WorkerOK
  <2>2. /\ \A v \in Workers : event'[v] = IF v = w THEN e ELSE event[v]
        /\ \A v \in Workers : pc'[v] # "idle" <=> (v = w \/ pc[v] # "idle")
        /\ pc[w] = "idle"
    BY DEF GetEvent, Goto, TypeOK, WorkerTypeOK
  <2> QED
    BY <1>1, <2>1, <2>2 DEF QueueSound, SingleFlight
<1> QED
  BY <1>1, <1>4, <1>5, ClusterAndRunUnchanged, ReportUnchanged DEF TypeOK, GetEvent

LEMMA FinishEventStep ==
    ASSUME TypeOK, QueueSound, NEW w \in Workers, FinishEvent(w)
    PROVE  TypeOK' /\ QueueSound'
<1>1. event[w] \in PodEvents /\ event[w] \in processing
  BY DEF FinishEvent, TypeOK, WorkerTypeOK, WorkerOK, QueueSound, SingleFlight
<1>2. /\ QueueTypeOK(PodEvents)' /\ QueueConsistent'
      /\ processing' = processing \ {event[w]}
  BY <1>1, FinishProperties DEF FinishEvent, TypeOK, QueueSound, SingleFlight
<1>3. WorkerTypeOK'
  BY DEF FinishEvent, TypeOK, WorkerTypeOK, WorkerOK, PCs
<1>4. ReportTypeOK'
  <2>1. event[w].type \in {Created, Deleted}
    BY <1>1, EventTypes
  <2>2. subject[w] # Nil => subject[w].pod \in Pods
    BY DEF TypeOK, WorkerTypeOK, PodObjects
  <2> QED
    BY <2>1, <2>2 DEF FinishEvent, NoteHandled, TypeOK, ReportTypeOK, cacheVars, serverVars
<1>5. QueueSound'
  <2>1. \A v \in Workers : v # w => event[v] # event[w]
    BY <1>1, NilAssumption DEF QueueSound, SingleFlight
  <2>2. /\ \A v \in Workers : event'[v] = IF v = w THEN Nil ELSE event[v]
        /\ \A v \in Workers : pc'[v] # "idle" <=> (v # w /\ pc[v] # "idle")
        /\ pc[w] # "idle"
    BY DEF FinishEvent, TypeOK, WorkerTypeOK
  <2> QED
    BY <1>2, <2>1, <2>2 DEF QueueSound, SingleFlight
<1> QED
  BY <1>2, <1>3, <1>4, <1>5, ClusterAndRunUnchanged DEF TypeOK, FinishEvent

\* The steps from lookup to active: the worker finds its pod and its workload.
LEMMA FindingSteps ==
    ASSUME TypeOK, QueueSound, NEW w \in Workers,
           Lookup(w) \/ Resolving(w) \/ CheckActive(w)
    PROVE  TypeOK' /\ QueueSound'
<1>1. CASE Lookup(w)
  <2>1. event[w].key \in Keys
    BY <1>1, EventTypes DEF Lookup, TypeOK, WorkerTypeOK, WorkerOK
  <2>2. indexer[event[w].key] \in PodObjects \cup {Nil}
    BY <2>1 DEF TypeOK, ClusterTypeOK
  <2>3. WorkerTypeOK'
    BY <1>1, <2>2 DEF Lookup, Goto, TypeOK, WorkerTypeOK, WorkerOK, PCs
  <2>4. QueueTypeOK(PodEvents)' /\ QueueSound'
    BY <1>1, BusyUnchanged DEF Lookup, Goto, PCs
  <2> QED
    BY <1>1, <2>3, <2>4, ClusterAndRunUnchanged, ReportUnchanged DEF TypeOK, Lookup
<1>2. CASE Resolving(w)
  <2>1. subject[w] \in PodObjects /\ subject[w].pod \in Pods /\ at[w] = 1 /\ ~lastErr[w]
        /\ 1 <= Len(Containers(subject[w].pod))
    BY <1>2, ContainersProperties
       DEF Resolving, ResolveWorkload, FindNoJob, TryCronJob, TypeOK, WorkerTypeOK, WorkerOK,
           PodObjects
  <2>2. UNCHANGED <<event, subject, at, lastErr, clusterVars, queueVars, runVars, cacheVars,
                    serverVars, handled>> /\ pc[w] \in {"resolve", "cronjob"}
    BY <1>2, ResolvingStep DEF TypeOK
  <2>3. CASE /\ wl' = wl /\ pc' = [pc EXCEPT ![w] = "cronjob"]
             /\ LacksJob(lister, PodInfo[subject[w].pod].ns, Owners(subject[w]))
    <3>1. WorkerTypeOK'
      BY <2>1, <2>2, <2>3 DEF TypeOK, WorkerTypeOK, WorkerOK, PCs, LacksJob
    <3> QED
      BY <2>2, <2>3, <3>1, BusyUnchanged, ClusterAndRunUnchanged, ReportUnchanged
         DEF TypeOK, PCs
  <2>4. ASSUME NEW id \in Resolutions, NEW step \in {"done", "active", "container"},
               wl' = [wl EXCEPT ![w] = id], pc' = [pc EXCEPT ![w] = step]
        PROVE  TypeOK' /\ QueueSound'
    <3>1. WorkerTypeOK'
      BY <2>1, <2>2, <2>4 DEF TypeOK, WorkerTypeOK, WorkerOK, PCs
    <3> QED
      BY <2>2, <2>4, <3>1, BusyUnchanged, ClusterAndRunUnchanged, ReportUnchanged
         DEF TypeOK, PCs
  <2> QED
    BY <1>2, <2>3, <2>4, ResolvingStep DEF TypeOK
<1>3. CASE CheckActive(w)
  <2>1. subject[w] \in PodObjects /\ at[w] = 1 /\ 1 <= Len(Containers(subject[w].pod))
    BY <1>3, ContainersProperties
       DEF CheckActive, TypeOK, WorkerTypeOK, WorkerOK, PodObjects
  <2>2. \E step \in {"done", "container"} : pc' = [pc EXCEPT ![w] = step]
    BY <1>3 DEF CheckActive, Goto
  <2>3. WorkerTypeOK'
    BY <1>3, <2>1, <2>2 DEF CheckActive, TypeOK, WorkerTypeOK, WorkerOK, PCs
  <2>4. QueueTypeOK(PodEvents)' /\ QueueSound'
    BY <1>3, <2>2, BusyUnchanged DEF CheckActive, PCs
  <2> QED
    BY <1>3, <2>3, <2>4, ClusterAndRunUnchanged, ReportUnchanged DEF TypeOK, CheckActive
<1> QED
  BY <1>1, <1>2, <1>3

AtContainer == {"container", "posting", "answered", "invalidate"}

LEMMA NextContainerProperties ==
    ASSUME TypeOK, QueueSound, NEW w \in Workers, pc[w] \in AtContainer,
           NEW failed \in BOOLEAN, NextContainer(w, failed), UNCHANGED queueVars
    PROVE  WorkerTypeOK' /\ QueueTypeOK(PodEvents)' /\ QueueSound'
<1>1. /\ subject[w] \in PodObjects /\ subject[w].pod \in Pods
      /\ at[w] \in Nat \ {0}
  BY DEF TypeOK, WorkerTypeOK, WorkerOK, PodObjects, AtContainer
<1>2. Len(Containers(subject[w].pod)) \in Nat
  BY <1>1, ContainersProperties
<1>3. \E step \in {"container", "done"} :
         /\ pc' = [pc EXCEPT ![w] = step]
         /\ step = "container" => at[w] < Len(Containers(subject[w].pod))
  BY DEF NextContainer, Goto
<1>4. WorkerTypeOK'
  BY <1>1, <1>2, <1>3 DEF NextContainer, TypeOK, WorkerTypeOK, WorkerOK, PCs, AtContainer
<1>5. QueueTypeOK(PodEvents)' /\ QueueSound'
  BY <1>3, BusyUnchanged DEF NextContainer, PCs, AtContainer
<1> QED
  BY <1>4, <1>5

\* A step between two steps at the same container.
LEMMA SameContainerProperties ==
    ASSUME TypeOK, QueueSound, NEW w \in Workers, pc[w] \in AtContainer,
           NEW step \in AtContainer, Goto(w, step),
           UNCHANGED <<event, subject, wl, at, lastErr, queueVars>>
    PROVE  WorkerTypeOK' /\ QueueTypeOK(PodEvents)' /\ QueueSound'
<1>1. WorkerTypeOK'
  BY DEF Goto, TypeOK, WorkerTypeOK, WorkerOK, PCs, AtContainer
<1>2. QueueTypeOK(PodEvents)' /\ QueueSound'
  BY BusyUnchanged DEF Goto, PCs, AtContainer
<1> QED
  BY <1>1, <1>2

\* The steps of recordContainer.
LEMMA RecordContainerSteps ==
    ASSUME TypeOK, QueueSound, NEW w \in Workers,
           \/ SkipContainer(w) \/ StartPost(w) \/ PostOk(w) \/ Invalidate(w)
           \/ PostNotFound(w) \/ PostClientError(w) \/ PostFailed(w)
    PROVE  TypeOK' /\ QueueSound'
<1>1. pc[w] \in AtContainer
  BY DEF SkipContainer, StartPost, PostOk, Invalidate, PostNotFound, PostClientError,
         PostFailed, AtContainer
<1>2. RecordOf(w) \in Records /\ RecordOf(w).digest \in Digests \cup {NoDigest}
  BY <1>1, RecordOfType DEF TypeOK, AtContainer, Records
<1>3. UNCHANGED <<clusterVars, runVars, queueVars>>
  BY DEF SkipContainer, StartPost, PostOk, Invalidate, PostNotFound, PostClientError,
         PostFailed
<1>4. WorkerTypeOK' /\ QueueTypeOK(PodEvents)' /\ QueueSound'
  <2>1. CASE SkipContainer(w) \/ Invalidate(w) \/ PostNotFound(w) \/ PostClientError(w)
    BY <1>1, <1>3, <2>1, NextContainerProperties
       DEF SkipContainer, Invalidate, PostNotFound, PostClientError
  <2>2. CASE PostFailed(w)
    BY <1>1, <1>3, <2>2, NextContainerProperties DEF PostFailed
  <2>3. CASE StartPost(w)
    BY <1>1, <1>3, <2>3, SameContainerProperties DEF StartPost, AtContainer
  <2>4. CASE PostOk(w)
    BY <1>1, <1>3, <2>4, SameContainerProperties DEF PostOk, AtContainer
  <2> QED
    BY <2>1, <2>2, <2>3, <2>4
<1>5. ReportTypeOK'
  <2>1. CASE SkipContainer(w) \/ StartPost(w)
    BY <2>1 DEF SkipContainer, StartPost, cacheVars, serverVars, TypeOK, ReportTypeOK
  <2>2. CASE PostOk(w) \/ Invalidate(w)
    BY <1>2, <2>2 DEF PostOk, Invalidate, serverVars, TypeOK, ReportTypeOK
  <2>3. CASE PostNotFound(w)
    BY <1>2, <2>3 DEF PostNotFound, TypeOK, ReportTypeOK
  <2>4. CASE PostClientError(w)
    BY <1>2, <2>4 DEF PostClientError, cacheVars, TypeOK, ReportTypeOK
  <2>5. CASE PostFailed(w)
    BY <2>5 DEF PostFailed, cacheVars, TypeOK, ReportTypeOK
  <2> QED
    BY <2>1, <2>2, <2>3, <2>4, <2>5
<1> QED
  BY <1>3, <1>4, <1>5, ClusterAndRunUnchanged DEF TypeOK

LEMMA NetworkStep ==
    ASSUME TypeOK, QueueSound, Network
    PROVE  TypeOK' /\ QueueSound'
<1>1. UNCHANGED <<clusterVars, queueVars, runVars, cacheVars, handled>>
  BY DEF Network
<1>2. ASSUME NEW w \in Workers, ServerApply(w) \/ AnswerLost(w) \/ RequestDelayed(w)
      PROVE  TypeOK' /\ QueueSound'
  <2>1. pc[w] \in AtContainer
    BY <1>2 DEF ServerApply, AnswerLost, RequestDelayed, AtContainer
  <2>2. RecordOf(w) \in Records
    BY <2>1, RecordOfType DEF TypeOK, AtContainer
  <2>3. WorkerTypeOK' /\ QueueTypeOK(PodEvents)' /\ QueueSound'
    <3>1. CASE ServerApply(w)
      BY <1>1, <2>1, <3>1, SameContainerProperties DEF ServerApply, AtContainer
    <3>2. CASE AnswerLost(w)
      BY <1>1, <2>1, <3>2, SameContainerProperties DEF AnswerLost, AtContainer
    <3>3. CASE RequestDelayed(w)
      BY <1>1, <3>3, WorkersUnchanged, QueueUnchanged, QueueSoundKept
         DEF RequestDelayed, TypeOK, QueueSound, SingleFlight
    <3> QED
      BY <1>2, <3>1, <3>2, <3>3
  <2>4. ReportTypeOK'
    BY <1>1, <1>2, <2>2
       DEF ServerApply, AnswerLost, RequestDelayed, Apply, cacheVars, TypeOK, ReportTypeOK
  <2> QED
    BY <1>1, <2>3, <2>4, ClusterAndRunUnchanged DEF TypeOK
<1>3. ASSUME NEW r \in late, LateApply(r)
      PROVE  TypeOK' /\ QueueSound'
  <2>1. ReportTypeOK'
    BY <1>1, <1>3 DEF LateApply, Apply, cacheVars, TypeOK, ReportTypeOK
  <2>2. WorkerTypeOK' /\ QueueTypeOK(PodEvents)' /\ QueueSound'
    BY <1>1, <1>3, WorkersUnchanged, QueueUnchanged, QueueSoundKept
       DEF LateApply, TypeOK, QueueSound, SingleFlight
  <2> QED
    BY <1>1, <2>1, <2>2, ClusterAndRunUnchanged DEF TypeOK
<1> QED
  BY <1>2, <1>3 DEF Network

LEMMA TimerSteps ==
    ASSUME TypeOK, QueueSound, Expire \/ RetryDelayEnds
    PROVE  TypeOK' /\ QueueSound'
<1>1. UNCHANGED <<clusterVars, runVars, workerVars, serverVars, handled>>
  BY DEF Expire, RetryDelayEnds
<1>2. QueueTypeOK(PodEvents)' /\ QueueConsistent' /\ processing' = processing
  BY DelayEndsProperties, QueueUnchanged DEF Expire, RetryDelayEnds, TypeOK, QueueSound, SingleFlight
<1>3. ReportTypeOK'
  BY DEF Expire, RetryDelayEnds, cacheVars, serverVars, TypeOK, ReportTypeOK
<1> QED
  BY <1>1, <1>2, <1>3, ClusterAndRunUnchanged, WorkersUnchanged, QueueSoundKept DEF TypeOK

LEMMA LifecycleStep ==
    ASSUME TypeOK, QueueSound, Lifecycle
    PROVE  TypeOK' /\ QueueSound'
<1>1. UNCHANGED <<clusterVars, workerVars, cacheVars, serverVars, handled>>
  BY DEF Lifecycle
<1>2. QueueTypeOK(PodEvents)' /\ QueueConsistent' /\ processing' = processing
  BY QueueUnchanged, ShutDownProperties DEF Lifecycle, RunReturns, TypeOK, QueueSound, SingleFlight
<1>3. RunTypeOK'
  BY DEF Lifecycle, StartWorkers, SyncFails, Cancel, RunReturns, Exit, TypeOK, RunTypeOK
<1>4. ClusterTypeOK'
  BY <1>1 DEF TypeOK, ClusterTypeOK, clusterVars
<1> QED
  BY <1>1, <1>2, <1>3, <1>4, WorkersUnchanged, ReportUnchanged, QueueSoundKept DEF TypeOK

LEMMA StutterStep ==
    ASSUME TypeOK, QueueSound, UNCHANGED vars
    PROVE  TypeOK' /\ QueueSound'
<1>1. UNCHANGED <<clusterVars, queueVars, runVars, workerVars, cacheVars, serverVars, handled>>
  BY DEF vars
<1>2. QueueTypeOK(PodEvents)' /\ QueueConsistent' /\ processing' = processing
  BY <1>1, QueueUnchanged DEF TypeOK, QueueSound, SingleFlight
<1> QED
  BY <1>1, <1>2, ClusterAndRunUnchanged, WorkersUnchanged, ReportUnchanged, QueueSoundKept
     DEF TypeOK

LEMMA InitWithTypes ==
    ASSUME NEW bulkClusterSync \in BOOLEAN, InitWith(bulkClusterSync)
    PROVE  TypeOK /\ QueueSound
<1>1. ClusterTypeOK /\ RunTypeOK
  <2>1. notes \in Seq(Notifications)
    BY DEF InitWith
  <2> QED
    BY <2>1 DEF InitWith, ClusterTypeOK, RunTypeOK
<1>2. ReportTypeOK
  BY DEF InitWith, ReportTypeOK
<1>3. WorkerTypeOK
  BY DEF InitWith, WorkerTypeOK, WorkerOK, PCs
<1>4. QueueTypeOK(PodEvents) /\ QueueConsistent
  <2>1. queue = <<>> /\ queue \in Seq(PodEvents) /\ DOMAIN queue = {}
    BY DEF InitWith, QueueInit
  <2> QED
    BY <2>1 DEF InitWith, QueueInit, QueueTypeOK, QueueConsistent, Queued
<1>5. QueueSound
  BY <1>4 DEF InitWith, QueueInit, QueueSound, SingleFlight
<1> QED
  BY <1>1, <1>2, <1>3, <1>4, <1>5 DEF TypeOK

LEMMA InitTypes == Init => TypeOK /\ QueueSound
BY InitWithTypes DEF Init

LEMMA NextTypes == TypeOK /\ QueueSound /\ [Next]_vars => TypeOK' /\ QueueSound'
<1> SUFFICES ASSUME TypeOK, QueueSound, [Next]_vars PROVE TypeOK' /\ QueueSound'
  OBVIOUS
<1>1. CASE Cluster
  BY <1>1, ClusterStep
<1>2. CASE Deliver
  BY <1>2, DeliverStep
<1>3. ASSUME NEW w \in Workers, Work(w) PROVE TypeOK' /\ QueueSound'
  BY <1>3, GetEventStep, FindingSteps, RecordContainerSteps, FinishEventStep
     DEF Work, Resolving
<1>4. CASE Network
  BY <1>4, NetworkStep
<1>5. CASE Expire \/ RetryDelayEnds
  BY <1>5, TimerSteps
<1>6. CASE Lifecycle
  BY <1>6, LifecycleStep
<1>7. CASE UNCHANGED vars
  BY <1>7, StutterStep
<1> QED
  BY <1>1, <1>2, <1>3, <1>4, <1>5, <1>6, <1>7 DEF Next, Running, Exited

\* Every variable keeps its type, and the loop over the containers of a pod
\* (processEvent) never runs past the last one.
THEOREM TypeCorrect == Spec => []TypeOK
<1>1. TypeOK /\ QueueSound /\ [Next]_vars => TypeOK' /\ QueueSound'
  BY NextTypes
<1> QED
  BY InitTypes, <1>1, PTL DEF Spec

LEMMA AlwaysQueueSound == Spec => []QueueSound
<1>1. TypeOK /\ QueueSound /\ [Next]_vars => TypeOK' /\ QueueSound'
  BY NextTypes
<1> QED
  BY InitTypes, <1>1, PTL DEF Spec

\* However many workers processNextItem runs in, and although events are added again
\* while a worker holds them, no event is processed by two workers at once.
THEOREM EventsSingleFlight == Spec => []SingleFlight
<1>1. QueueSound => SingleFlight
  BY DEF QueueSound
<1> QED
  BY AlwaysQueueSound, <1>1, PTL

(***************************************************************************)
(* The observedDeployments cache.                                          *)
(***************************************************************************)
\* A step of one worker leaves the others where they are.
LEMMA OthersKeep ==
    ASSUME ClusterTypeOK, WorkerTypeOK, NEW w \in Workers, NEW v \in Workers, v # w,
           Work(w) \/ ServerApply(w) \/ AnswerLost(w) \/ RequestDelayed(w)
    PROVE  /\ pc'[v] = pc[v] /\ RecordOf(v)' = RecordOf(v)
           /\ event'[v] = event[v] /\ subject'[v] = subject[v]
           /\ wl'[v] = wl[v] /\ at'[v] = at[v] /\ lastErr'[v] = lastErr[v]
<1>1. \E step \in PCs : pc' = [pc EXCEPT ![w] = step]
  <2>1. CASE GetEvent(w) \/ Lookup(w) \/ CheckActive(w) \/ StartPost(w) \/ PostOk(w)
    BY <2>1 DEF GetEvent, Lookup, CheckActive, StartPost, PostOk, Goto, PCs
  <2>2. CASE Resolving(w)
    BY <2>2, ResolvingStep DEF PCs
  <2>3. CASE \/ SkipContainer(w) \/ Invalidate(w) \/ PostNotFound(w) \/ PostClientError(w)
             \/ PostFailed(w)
    BY <2>3 DEF SkipContainer, Invalidate, PostNotFound, PostClientError, PostFailed,
                NextContainer, Goto, PCs
  <2>4. CASE FinishEvent(w) \/ ServerApply(w) \/ AnswerLost(w)
    BY <2>4 DEF FinishEvent, ServerApply, AnswerLost, Goto, PCs
  <2>5. CASE RequestDelayed(w)
    BY <2>5 DEF RequestDelayed, workerVars, WorkerTypeOK
  <2> QED
    BY <2>1, <2>2, <2>3, <2>4, <2>5 DEF Work, Resolving
<1>2. /\ event'[v] = event[v] /\ subject'[v] = subject[v]
      /\ wl'[v] = wl[v] /\ at'[v] = at[v] /\ lastErr'[v] = lastErr[v]
  <2>1. CASE GetEvent(w) \/ Lookup(w) \/ Resolving(w) \/ CheckActive(w)
    BY <2>1 DEF GetEvent, Lookup, Resolving, ResolveWorkload, FindNoJob, TryCronJob, Resolved,
                CheckActive, WorkerTypeOK
  <2>2. CASE SkipContainer(w) \/ StartPost(w) \/ PostOk(w) \/ Invalidate(w)
    BY <2>2 DEF SkipContainer, StartPost, PostOk, Invalidate, NextContainer, WorkerTypeOK
  <2>3. CASE PostNotFound(w) \/ PostClientError(w) \/ PostFailed(w)
    BY <2>3 DEF PostNotFound, PostClientError, PostFailed, NextContainer, WorkerTypeOK
  <2>4. CASE FinishEvent(w)
    BY <2>4 DEF FinishEvent, WorkerTypeOK
  <2>5. CASE ServerApply(w) \/ AnswerLost(w) \/ RequestDelayed(w)
    BY <2>5 DEF ServerApply, AnswerLost, RequestDelayed, workerVars
  <2> QED
    BY <2>1, <2>2, <2>3, <2>4, <2>5 DEF Work, Resolving
<1> QED
  BY <1>1, <1>2 DEF WorkerTypeOK, RecordOf

\* Where a record can be cached or a worker stop being between Set and Delete.
LEMMA ObservedChanges ==
    ASSUME TypeOK, [Next]_vars
    PROVE  \/ \E w \in Workers : PostOk(w)
           \/ \E w \in Workers : Invalidate(w)
           \/ /\ observed' \subseteq observed
              /\ \A v \in Workers : pc[v] = "invalidate" =>
                    pc'[v] = "invalidate" /\ RecordOf(v)' = RecordOf(v)
<1> DEFINE Keeps == \A v \in Workers : pc[v] = "invalidate" =>
                        pc'[v] = "invalidate" /\ RecordOf(v)' = RecordOf(v)
<1>1. ASSUME UNCHANGED workerVars PROVE Keeps
  BY <1>1 DEF workerVars, RecordOf
<1>2. CASE \/ Cluster \/ Deliver \/ Expire \/ RetryDelayEnds \/ Lifecycle
           \/ \E r \in late : LateApply(r) /\ Network
           \/ UNCHANGED vars
  <2>1. UNCHANGED workerVars
    BY <1>2 DEF Cluster, Deliver, Expire, RetryDelayEnds, Lifecycle, LateApply, vars
  <2>2. observed' \subseteq observed
    BY <1>2 DEF Cluster, Deliver, Expire, RetryDelayEnds, Lifecycle, Network, vars, cacheVars
  <2> QED
    BY <1>1, <2>1, <2>2
<1>3. ASSUME NEW w \in Workers, Work(w), ~PostOk(w), ~Invalidate(w)
      PROVE  observed' \subseteq observed /\ Keeps
  <2>1. pc[w] # "invalidate"
    BY <1>3 DEF Work, GetEvent, Lookup, ResolveWorkload, FindNoJob, TryCronJob, Resolved,
                CheckActive, SkipContainer,
                StartPost, PostNotFound, PostClientError, PostFailed, FinishEvent
  <2>2. observed' = observed
    BY <1>3 DEF Work, GetEvent, Lookup, ResolveWorkload, FindNoJob, TryCronJob, Resolved,
                CheckActive, SkipContainer,
                StartPost, PostNotFound, PostClientError, PostFailed, FinishEvent, cacheVars
  <2>3. \A v \in Workers : v # w => pc'[v] = pc[v] /\ RecordOf(v)' = RecordOf(v)
    BY <1>3, OthersKeep DEF TypeOK
  <2> QED
    BY <2>1, <2>2, <2>3
<1>4. ASSUME NEW w \in Workers, Network, ServerApply(w) \/ AnswerLost(w) \/ RequestDelayed(w)
      PROVE  observed' \subseteq observed /\ Keeps
  <2>1. pc[w] # "invalidate"
    BY <1>4 DEF ServerApply, AnswerLost, RequestDelayed
  <2>2. observed' = observed
    BY <1>4 DEF Network, cacheVars
  <2>3. \A v \in Workers : v # w => pc'[v] = pc[v] /\ RecordOf(v)' = RecordOf(v)
    BY <1>4, OthersKeep DEF TypeOK
  <2> QED
    BY <2>1, <2>2, <2>3
<1> QED
  BY <1>2, <1>3, <1>4 DEF Next, Running, Exited, Network

LEMMA NextExclusive ==
    ASSUME TypeOK, CreateDeleteExclusive, [Next]_vars
    PROVE  CreateDeleteExclusive'
<1> SUFFICES ASSUME NEW r \in observed', Opposite(r) \in observed'
             PROVE  \E w \in Workers : pc'[w] = "invalidate" /\ RecordOf(w)' \in {r, Opposite(r)}
  BY DEF CreateDeleteExclusive
<1>1. ASSUME NEW w \in Workers, PostOk(w)
      PROVE  \E v \in Workers : pc'[v] = "invalidate" /\ RecordOf(v)' \in {r, Opposite(r)}
  <2>1. /\ observed' = observed \cup {RecordOf(w)} /\ pc'[w] = "invalidate"
        /\ RecordOf(w)' = RecordOf(w) /\ pc[w] = "answered"
    BY <1>1 DEF PostOk, Goto, TypeOK, WorkerTypeOK, RecordOf
  <2>2. \A v \in Workers : v # w => pc'[v] = pc[v] /\ RecordOf(v)' = RecordOf(v)
    BY <1>1, OthersKeep DEF TypeOK, Work
  <2>3. CASE RecordOf(w) \in {r, Opposite(r)}
    BY <2>1, <2>3
  <2>4. CASE RecordOf(w) \notin {r, Opposite(r)}
    <3>1. r \in observed /\ Opposite(r) \in observed
      BY <2>1, <2>4
    <3>2. PICK v \in Workers : pc[v] = "invalidate" /\ RecordOf(v) \in {r, Opposite(r)}
      BY <3>1 DEF CreateDeleteExclusive
    <3>3. v # w
      BY <2>1, <3>2
    <3> QED
      BY <2>2, <3>2, <3>3
  <2> QED
    BY <2>3, <2>4
<1>2. ASSUME NEW w \in Workers, Invalidate(w)
      PROVE  \E v \in Workers : pc'[v] = "invalidate" /\ RecordOf(v)' \in {r, Opposite(r)}
  <2>1. observed' = observed \ {Opposite(RecordOf(w))} /\ pc[w] = "invalidate"
    BY <1>2 DEF Invalidate
  <2>2. \A v \in Workers : v # w => pc'[v] = pc[v] /\ RecordOf(v)' = RecordOf(v)
    BY <1>2, OthersKeep DEF TypeOK, Work
  <2>3. PICK v \in Workers : pc[v] = "invalidate" /\ RecordOf(v) \in {r, Opposite(r)}
    BY <2>1 DEF CreateDeleteExclusive
  <2>4. v # w
    <3>1. r \in Records
      BY <2>1 DEF TypeOK, ReportTypeOK
    <3>2. RecordOf(w) # r
      BY <2>1
    <3>3. RecordOf(w) # Opposite(r)
      BY <2>1, <3>1, OppositeProperties
    <3> QED
      BY <2>3, <3>2, <3>3
  <2> QED
    BY <2>2, <2>3, <2>4
<1>3. ASSUME observed' \subseteq observed,
             \A v \in Workers : pc[v] = "invalidate" =>
                pc'[v] = "invalidate" /\ RecordOf(v)' = RecordOf(v)
      PROVE  \E v \in Workers : pc'[v] = "invalidate" /\ RecordOf(v)' \in {r, Opposite(r)}
  BY <1>3 DEF CreateDeleteExclusive
<1> QED
  BY <1>1, <1>2, <1>3, ObservedChanges

\* The cache never holds the CREATED and the DELETED key of one deployment name and
\* digest (recordContainer's Set and Delete), except in the middle of an update of
\* the two; whatever the interleaving of any number of workers.
THEOREM CacheExclusive == Spec => []CreateDeleteExclusive
<1>1. Init => CreateDeleteExclusive
  BY DEF Init, InitWith, CreateDeleteExclusive
<1>2. TypeOK /\ CreateDeleteExclusive /\ [Next]_vars => CreateDeleteExclusive'
  BY NextExclusive
<1> QED
  BY <1>1, <1>2, TypeCorrect, PTL DEF Spec

\* The strengthening of CachedWasApplied: so is what a worker is about to cache.
AnsweredWasApplied ==
    \A w \in Workers : pc[w] \in {"answered", "invalidate"} => RecordOf(w) \in applied

\* Only the API's application of a record takes a worker to its answer.
LEMMA AnsweredFrom ==
    ASSUME TypeOK, NEW w \in Workers, Work(w), pc'[w] \in {"answered", "invalidate"}
    PROVE  pc[w] = "answered" /\ RecordOf(w)' = RecordOf(w)
<1>1. CASE GetEvent(w) \/ Lookup(w) \/ CheckActive(w) \/ StartPost(w) \/ FinishEvent(w)
  BY <1>1 DEF GetEvent, Lookup, CheckActive, StartPost, FinishEvent, Goto, TypeOK, WorkerTypeOK
<1>2. CASE Resolving(w)
  BY <1>2, ResolvingStep DEF TypeOK, WorkerTypeOK
<1>3. CASE \/ SkipContainer(w) \/ Invalidate(w) \/ PostNotFound(w) \/ PostClientError(w)
           \/ PostFailed(w)
  BY <1>3 DEF SkipContainer, Invalidate, PostNotFound, PostClientError, PostFailed,
              NextContainer, Goto, TypeOK, WorkerTypeOK
<1>4. CASE PostOk(w)
  BY <1>4 DEF PostOk, RecordOf
<1> QED
  BY <1>1, <1>2, <1>3, <1>4 DEF Work, Resolving

LEMMA WorkAnswered ==
    ASSUME TypeOK, AnsweredWasApplied, NEW w \in Workers, Work(w)
    PROVE  AnsweredWasApplied' /\ applied' = applied
<1>1. applied' = applied
  BY DEF Work, GetEvent, Lookup, ResolveWorkload, FindNoJob, TryCronJob, Resolved,
         CheckActive, SkipContainer, StartPost,
         PostOk, Invalidate, PostNotFound, PostClientError, PostFailed, FinishEvent,
         serverVars
<1>2. \A v \in Workers : v # w => pc'[v] = pc[v] /\ RecordOf(v)' = RecordOf(v)
  BY OthersKeep DEF TypeOK
<1>3. pc'[w] \in {"answered", "invalidate"} => pc[w] = "answered" /\ RecordOf(w)' = RecordOf(w)
  BY AnsweredFrom
<1> QED
  BY <1>1, <1>2, <1>3 DEF AnsweredWasApplied

LEMMA NetworkAnswered ==
    ASSUME TypeOK, AnsweredWasApplied, Network
    PROVE  AnsweredWasApplied' /\ applied \subseteq applied'
<1>1. ASSUME NEW w \in Workers, ServerApply(w) \/ AnswerLost(w) \/ RequestDelayed(w)
      PROVE  AnsweredWasApplied' /\ applied \subseteq applied'
  <2>1. applied \subseteq applied'
    BY <1>1 DEF ServerApply, AnswerLost, RequestDelayed, Apply
  <2>2. \A v \in Workers : v # w => pc'[v] = pc[v] /\ RecordOf(v)' = RecordOf(v)
    BY <1>1, OthersKeep DEF TypeOK
  <2>3. pc'[w] \in {"answered", "invalidate"} => RecordOf(w)' \in applied'
    <3>1. CASE ServerApply(w)
      BY <3>1 DEF ServerApply, Apply, RecordOf
    <3>2. CASE AnswerLost(w) \/ RequestDelayed(w)
      BY <2>1, <3>2 DEF AnswerLost, RequestDelayed, Goto, workerVars, RecordOf,
                        AnsweredWasApplied, TypeOK, WorkerTypeOK
    <3> QED
      BY <1>1, <3>1, <3>2
  <2> QED
    BY <2>1, <2>2, <2>3 DEF AnsweredWasApplied
<1>2. ASSUME NEW r \in late, LateApply(r)
      PROVE  AnsweredWasApplied' /\ applied \subseteq applied'
  BY <1>2 DEF LateApply, Apply, workerVars, AnsweredWasApplied, RecordOf
<1> QED
  BY <1>1, <1>2 DEF Network

LEMMA NextApplied ==
    ASSUME TypeOK, AnsweredWasApplied, CachedWasApplied, [Next]_vars
    PROVE  AnsweredWasApplied' /\ CachedWasApplied'
<1>1. CASE \/ Cluster \/ Deliver \/ Expire \/ RetryDelayEnds \/ Lifecycle \/ UNCHANGED vars
  <2>1. UNCHANGED <<workerVars, applied>> /\ observed' \subseteq observed
    BY <1>1 DEF Cluster, Deliver, Expire, RetryDelayEnds, Lifecycle, vars, cacheVars, serverVars
  <2> QED
    BY <2>1 DEF AnsweredWasApplied, CachedWasApplied, workerVars, RecordOf
<1>2. ASSUME NEW w \in Workers, Work(w)
      PROVE  AnsweredWasApplied' /\ CachedWasApplied'
  <2>1. CASE PostOk(w)
    BY <1>2, <2>1, WorkAnswered DEF PostOk, AnsweredWasApplied, CachedWasApplied
  <2>2. CASE ~PostOk(w)
    <3>1. observed' \subseteq observed
      BY <1>2, <2>2 DEF Work, GetEvent, Lookup, ResolveWorkload, FindNoJob, TryCronJob, Resolved,
                CheckActive, SkipContainer,
            StartPost, Invalidate, PostNotFound, PostClientError, PostFailed, FinishEvent,
            cacheVars
    <3> QED
      BY <1>2, <3>1, WorkAnswered DEF CachedWasApplied
  <2> QED
    BY <2>1, <2>2
<1>3. CASE Network
  <2>1. observed' = observed
    BY <1>3 DEF Network, cacheVars
  <2> QED
    BY <1>3, <2>1, NetworkAnswered DEF CachedWasApplied
<1> QED
  BY <1>1, <1>2, <1>3 DEF Next, Running, Exited

\* A key of the cache, which suppresses reports, stands for a record the API has
\* applied: recordContainer caches nothing that was refused, lost or only sent.
THEOREM CacheJustified == Spec => []CachedWasApplied
<1>1. Init => AnsweredWasApplied /\ CachedWasApplied
  BY DEF Init, InitWith, AnsweredWasApplied, CachedWasApplied
<1>2. TypeOK /\ AnsweredWasApplied /\ CachedWasApplied /\ [Next]_vars
        => AnsweredWasApplied' /\ CachedWasApplied'
  BY NextApplied
<1> QED
  BY <1>1, <1>2, TypeCorrect, PTL DEF Spec

(***************************************************************************)
(* Refinement.  The controller's posts are a behaviour of ApiCall: what    *)
(* recordContainer does between a post and its end is covered by what the  *)
(* client promises (ApiClientProofs).                                      *)
(***************************************************************************)
phases == [w \in Workers |-> Phase(w)]
requests == [w \in Workers |-> IF Phase(w) = "idle" THEN Nil ELSE RecordOf(w)]

SamePost(w) == pc'[w] = pc[w] /\ RecordOf(w)' = RecordOf(w)
OnlyWorker(w) == \A v \in Workers \ {w} : SamePost(v)

\* A step of one worker changes the phase and the request of that worker only.
LEMMA WorkerMoves ==
  ASSUME NEW w \in Workers, OnlyWorker(w)
  PROVE  /\ phases' = [phases EXCEPT ![w] = Phase(w)']
         /\ Phase(w)' = "idle" => requests' = [requests EXCEPT ![w] = Nil]
         /\ Phase(w)' # "idle" => requests' = [requests EXCEPT ![w] = RecordOf(w)']
<1>1. \A v \in Workers \ {w} : Phase(v)' = Phase(v) /\ RecordOf(v)' = RecordOf(v)
  BY DEF OnlyWorker, SamePost, Phase
<1>2. phases' = [v \in Workers |-> Phase(v)']
  BY DEF phases
<1>3. requests' = [v \in Workers |-> IF Phase(v)' = "idle" THEN Nil ELSE RecordOf(v)']
  BY DEF requests
<1>4. phases' = [phases EXCEPT ![w] = Phase(w)']
  BY <1>1, <1>2 DEF phases
<1>5. requests' = [requests EXCEPT ![w] = IF Phase(w)' = "idle" THEN Nil ELSE RecordOf(w)']
  BY <1>1, <1>3 DEF requests
<1> QED BY <1>4, <1>5

\* What changes neither a post nor the API's state is a stutter.
LEMMA PostsUnchanged ==
  ASSUME \A w \in Workers : SamePost(w), UNCHANGED <<applied, late>>
  PROVE  UNCHANGED Contract!vars
<1>1. \A w \in Workers : Phase(w)' = Phase(w) /\ RecordOf(w)' = RecordOf(w)
  BY DEF SamePost, Phase
<1>2. phases' = [v \in Workers |-> Phase(v)'] /\ phases' = phases
  BY <1>1 DEF phases
<1>3. requests' = [v \in Workers |-> IF Phase(v)' = "idle" THEN Nil ELSE RecordOf(v)']
  BY DEF requests
<1>4. requests' = requests
  BY <1>1, <1>3 DEF requests
<1> QED BY <1>2, <1>4 DEF Contract!vars, phases, requests

LEMMA UntouchedWorkers ==
  ASSUME UNCHANGED workerVars
  PROVE  \A w \in Workers : SamePost(w)
BY DEF workerVars, SamePost, RecordOf

\* A worker that does not post before a step, nor after it.
LEMMA IdleStep ==
  ASSUME NEW w \in Workers, OnlyWorker(w), Phase(w) = "idle", Phase(w)' = "idle",
         UNCHANGED <<applied, late>>
  PROVE  UNCHANGED Contract!vars
<1>1. phases' = [phases EXCEPT ![w] = "idle"] /\ requests' = [requests EXCEPT ![w] = Nil]
  BY WorkerMoves
<1>2. phases' = phases /\ requests' = requests
  BY <1>1 DEF phases, requests
<1> QED BY <1>2 DEF Contract!vars, phases, requests

\* The end of a post.
LEMMA EndStep ==
  ASSUME NEW w \in Workers, OnlyWorker(w), Phase(w)' = "idle",
         Phase(w) \in {"posting", "answered", "accepted"}, UNCHANGED <<applied, late>>
  PROVE  Contract!Next
<1>1. phases' = [phases EXCEPT ![w] = "idle"] /\ requests' = [requests EXCEPT ![w] = Nil]
  BY WorkerMoves
<1>2. CASE Phase(w) = "accepted"
  <2>1. Contract!Leave(w)
    BY <1>1, <1>2 DEF Contract!Leave, Contract!Ended, Contract!Enter, phases, requests
  <2> QED BY <2>1 DEF Contract!Next
<1>3. CASE Phase(w) \in {"posting", "answered"}
  <2>1. Contract!Fail(w)
    BY <1>1, <1>3 DEF Contract!Fail, Contract!Ended, Contract!Enter, phases, requests
  <2> QED BY <2>1 DEF Contract!Next
<1> QED BY <1>2, <1>3

\* A post that stays in hand.
LEMMA PostKept ==
  ASSUME NEW w \in Workers, OnlyWorker(w), Phase(w) # "idle", Phase(w)' # "idle",
         RecordOf(w)' = RecordOf(w)
  PROVE  /\ phases' = [phases EXCEPT ![w] = Phase(w)'] /\ requests' = requests
         /\ phases[w] = Phase(w) /\ requests[w] = RecordOf(w)
<1>1. phases[w] = Phase(w) /\ requests[w] = RecordOf(w)
  BY DEF phases, requests
<1>2. requests' = [requests EXCEPT ![w] = requests[w]]
  BY <1>1, WorkerMoves
<1>3. requests' = requests
  BY <1>2 DEF requests
<1> QED BY <1>1, <1>3, WorkerMoves

\* Each step of a worker is a step of its call, or none.
LEMMA WorkImplements ==
  ASSUME TypeOK, NEW w \in Workers, Work(w)
  PROVE  [Contract!Next]_(Contract!vars)
<1>1. OnlyWorker(w)
  BY OthersKeep DEF OnlyWorker, SamePost, TypeOK
<1>2. UNCHANGED <<applied, late>>
  BY DEF Work, GetEvent, Lookup, ResolveWorkload, FindNoJob, TryCronJob, Resolved,
         CheckActive, SkipContainer, StartPost,
         PostOk, Invalidate, PostNotFound, PostClientError, PostFailed, FinishEvent, serverVars
<1>3. pc \in [Workers -> PCs]
  BY DEF TypeOK, WorkerTypeOK
<1>4. CASE GetEvent(w) \/ Lookup(w) \/ CheckActive(w) \/ FinishEvent(w)
  <2>1. Phase(w) = "idle" /\ Phase(w)' = "idle"
    BY <1>3, <1>4 DEF GetEvent, Lookup, CheckActive, FinishEvent, Goto, Phase
  <2> QED BY <1>1, <1>2, <2>1, IdleStep
<1>5. CASE Resolving(w)
  <2>1. Phase(w) = "idle" /\ Phase(w)' = "idle"
    BY <1>3, <1>5, ResolvingStep DEF TypeOK, Phase
  <2> QED BY <1>1, <1>2, <2>1, IdleStep
<1>6. CASE SkipContainer(w)
  <2>1. Phase(w) = "idle" /\ Phase(w)' = "idle"
    BY <1>3, <1>6 DEF SkipContainer, NextContainer, Goto, Phase
  <2> QED BY <1>1, <1>2, <2>1, IdleStep
<1>7. CASE StartPost(w)
  <2>1. /\ Phase(w) = "idle" /\ Phase(w)' = "posting" /\ RecordOf(w)' = RecordOf(w)
        /\ pc[w] = "container"
    BY <1>3, <1>7 DEF StartPost, Goto, Phase, RecordOf
  <2>2. RecordOf(w) \in Records
    BY <2>1, RecordOfType DEF TypeOK
  <2>3. Contract!Begin(w)
    BY <1>1, <1>2, <2>1, <2>2, WorkerMoves
       DEF Contract!Begin, Contract!Enter, phases, requests
  <2> QED BY <2>3 DEF Contract!Next
<1>8. CASE PostOk(w)
  <2>1. /\ Phase(w) = "answered" /\ Phase(w)' = "accepted" /\ RecordOf(w)' = RecordOf(w)
    BY <1>3, <1>8 DEF PostOk, Goto, Phase, RecordOf
  <2>2. Contract!Accept(w)
    BY <1>1, <1>2, <2>1, PostKept DEF Contract!Accept, Contract!Enter, phases, requests
  <2> QED BY <2>2 DEF Contract!Next
<1>9. CASE Invalidate(w) \/ PostNotFound(w) \/ PostClientError(w) \/ PostFailed(w)
  <2>1. Phase(w) \in {"posting", "answered", "accepted"} /\ Phase(w)' = "idle"
    BY <1>3, <1>9
       DEF Invalidate, PostNotFound, PostClientError, PostFailed, NextContainer, Goto, Phase
  <2> QED BY <1>1, <1>2, <2>1, EndStep
<1> QED BY <1>4, <1>5, <1>6, <1>7, <1>8, <1>9 DEF Work, Resolving

\* So is each step of the network.
LEMMA NetworkImplements ==
  ASSUME TypeOK, Network
  PROVE  Contract!Next
<1>1. pc \in [Workers -> PCs]
  BY DEF TypeOK, WorkerTypeOK
<1>2. ASSUME NEW w \in Workers, ServerApply(w) \/ AnswerLost(w) \/ RequestDelayed(w)
      PROVE  Contract!Next
  <2>1. OnlyWorker(w)
    BY <1>2, OthersKeep DEF OnlyWorker, SamePost, TypeOK
  <2>2. RecordOf(w)' = RecordOf(w)
    BY <1>2 DEF ServerApply, AnswerLost, RequestDelayed, workerVars, RecordOf
  <2>3. CASE ServerApply(w)
    <3>1. Phase(w) = "posting" /\ Phase(w)' = "answered"
      BY <1>1, <2>3 DEF ServerApply, Goto, Phase
    <3>2. Contract!Apply(w)
      BY <2>1, <2>2, <2>3, <3>1, PostKept
         DEF ServerApply, Apply, Contract!Apply, Contract!Enter, phases, requests
    <3> QED BY <3>2 DEF Contract!Next
  <2>4. CASE AnswerLost(w)
    <3>1. Phase(w) = "answered" /\ Phase(w)' = "posting"
      BY <1>1, <2>4 DEF AnswerLost, Goto, Phase
    <3>2. Contract!AnswerLost(w)
      BY <2>1, <2>2, <2>4, <3>1, PostKept
         DEF AnswerLost, Contract!AnswerLost, Contract!Enter, phases, requests
    <3> QED BY <3>2 DEF Contract!Next
  <2>5. CASE RequestDelayed(w)
    <3>1. Phase(w) = "posting" /\ Phase(w)' = "posting"
      BY <1>1, <2>5 DEF RequestDelayed, workerVars, Phase
    <3>2. phases' = phases /\ requests' = requests /\ requests[w] = RecordOf(w)
      BY <2>1, <2>2, <3>1, PostKept DEF phases
    <3>3. Contract!Delayed(w)
      BY <2>5, <3>1, <3>2 DEF RequestDelayed, Contract!Delayed, phases, requests
    <3> QED BY <3>3 DEF Contract!Next
  <2> QED BY <1>2, <2>3, <2>4, <2>5
<1>3. ASSUME NEW r \in late, LateApply(r)
      PROVE  Contract!Next
  <2>1. \A w \in Workers : Phase(w)' = Phase(w) /\ RecordOf(w)' = RecordOf(w)
    BY <1>3 DEF LateApply, workerVars, Phase, RecordOf
  <2>2. Contract!LateApply(r)
    BY <1>3, <2>1 DEF LateApply, Apply, Contract!LateApply
  <2> QED BY <2>2 DEF Contract!Next
<1> QED BY <1>2, <1>3 DEF Network

LEMMA InitImplements == Init => Contract!Init
<1> SUFFICES ASSUME Init PROVE Contract!Init
  OBVIOUS
<1>1. \A w \in Workers : Phase(w) = "idle"
  BY DEF Init, InitWith, Phase
<1> QED BY <1>1 DEF Init, InitWith, Contract!Init

\* For any number of workers, pods and workloads the workers' posts are a behaviour of
\* ApiCall: a record is not changed while it is posted, is cached only in a call that
\* was accepted, and nothing else is assumed of a call.
THEOREM PostsImplementContract == Spec => KeepsContract
<1>1. ASSUME TypeOK, [Next]_vars
      PROVE  [Contract!Next]_(Contract!vars)
  <2>1. ASSUME NEW w \in Workers, Work(w)
        PROVE  [Contract!Next]_(Contract!vars)
    BY <1>1, <2>1, WorkImplements
  <2>2. CASE Network
    BY <1>1, <2>2, NetworkImplements
  <2>3. CASE Cluster \/ Deliver \/ Expire \/ RetryDelayEnds \/ Lifecycle \/ UNCHANGED vars
    <3>1. UNCHANGED workerVars /\ UNCHANGED serverVars
      BY <2>3 DEF Cluster, Deliver, Expire, RetryDelayEnds, Lifecycle, vars
    <3> QED BY <3>1, UntouchedWorkers, PostsUnchanged DEF serverVars
  <2> QED BY <1>1, <2>1, <2>2, <2>3 DEF Next, Running, Exited
<1> QED BY InitImplements, TypeCorrect, <1>1, PTL DEF Spec, KeepsContract, Contract!Spec
=============================================================================
