------------------------------ MODULE Controller ------------------------------
(***************************************************************************)
(* The deployment-tracker controller: internal/controller/controller.go    *)
(* and reporting.go.                                                       *)
(*                                                                         *)
(* The informer keeps a copy of the cluster's pods (indexer) and of its    *)
(* workloads (lister) and notifies the controller of every pod it sees     *)
(* appear, change or disappear (notes).  The notification handlers put pod *)
(* events in the work queue, and the workers take them out: they find the  *)
(* workload of the pod, and report each container to the deployment record *)
(* API unless a cache says that this is not needed.                        *)
(***************************************************************************)
EXTENDS WorkQueue, Workload

CONSTANTS
    Workers,      \* the worker goroutines
    Pods,         \* the pods that ever exist, by UID
    PodInfo,      \* their fixed part: [ns, name, owners, containers]
    Workloads,    \* the workload objects the listers may hold
    Permanent,    \* those that exist throughout
    Phases,       \* the pod phases that occur
    Stamps,       \* whether pods get a deletion timestamp: {FALSE} or BOOLEAN
    Template,     \* the placeholders of the deployment name template
    MaxBacklog,   \* bound: notifications not yet delivered
    MaxFailures,  \* bound: requests refused, failed, lost or delayed
    MaxCancels,   \* bound: termination signals and failed cache syncs (0 or 1)
    Nil           \* Go's nil

VARIABLES
    indexer,   \* the informer's pods: key -> pod object, or Nil
    lister,    \* the workload objects in the informers' caches
    notes,     \* the notifications the informer has not delivered yet
    born,      \* the pods the informer has seen
    replaced,  \* history: the pods seen in place of another one, or replaced by one
    doomed,    \* history: the pods that were being deleted already when they were seen Running
    main,      \* how far Run is
    syncing,   \* the gate of the Add handler (set only with BulkClusterSync)
    pc,        \* where each worker is
    event,     \* the event it processes
    subject,   \* the pod object it processes
    wl,        \* the workload of that pod
    at,        \* the index of the container it is at
    lastErr,   \* a container of this event could not be posted
    observed,  \* the observedDeployments cache, as the records its keys stand for
    unknown,   \* the unknownArtifacts cache
    server,    \* the API: deployment name -> the record it holds, or Nil
    late,      \* requests given up by the client that may still reach the API
    applied,   \* history: the records the API applied
    refused,   \* history: the records the API answered with a 4xx other than 404
    missing,   \* history: the digests the API answered 404 for
    handled,   \* history: <<type, pod>> of the events processed without error
    failures,  \* the requests refused, failed, lost or delayed so far
    cancels    \* the termination signals and failed cache syncs so far

clusterVars == <<indexer, lister, notes, born, replaced, doomed>>
runVars     == <<main, syncing, cancels>>
workerVars  == <<pc, event, subject, wl, at, lastErr>>
cacheVars   == <<observed, unknown>>
serverVars  == <<server, late, applied, refused, missing, failures>>
vars == <<clusterVars, queueVars, runVars, workerVars, cacheVars, serverVars, handled>>

-----------------------------------------------------------------------------
(***************************************************************************)
(* Data.                                                                   *)
(***************************************************************************)
Created == "CREATED"
Deleted == "DELETED"
NoDigest == ""

Key(p) == <<PodInfo[p].ns, PodInfo[p].name>>
Keys == {Key(p) : p \in Pods}
PodObjects == [pod : Pods, phase : Phases, deleting : BOOLEAN]

Containers(p) == PodInfo[p].containers
Owners(obj) == PodInfo[obj.pod].owners

CreatedEvent(key) == [type |-> Created, key |-> key, pod |-> Nil]
DeletedEvent(obj) == [type |-> Deleted, key |-> Key(obj.pod), pod |-> obj]
PodEvents == {CreatedEvent(k) : k \in Keys} \cup {DeletedEvent(obj) : obj \in PodObjects}

Notifications ==
    {n \in [old : PodObjects \cup {Nil}, new : PodObjects \cup {Nil}] :
        n.old # Nil \/ n.new # Nil}

\* getARDeploymentName: the placeholders of the template filled in.
DeploymentName(ns, name, container) ==
    [f \in Template |-> CASE f = "namespace"      -> ns
                          [] f = "deploymentName" -> name
                          [] f = "containerName"  -> container]

\* getContainerDigest: while the pod is Pending only its init containers have run.
ContainerDigest(obj, i) ==
    LET c == Containers(obj.pod)[i]
    IN  IF obj.phase = "Pending" /\ ~c.init THEN NoDigest ELSE c.digest

\* buildRecord; a cache key names the same three things (CREATED for deployed).
BuildRecord(type, obj, i, name) ==
    [dn     |-> DeploymentName(PodInfo[obj.pod].ns, name, Containers(obj.pod)[i].name),
     digest |-> ContainerDigest(obj, i),
     status |-> IF type = Deleted THEN "decommissioned" ELSE "deployed"]

Opposite(r) == [r EXCEPT !.status = IF @ = "deployed" THEN "decommissioned" ELSE "deployed"]

Resolutions == {Resolve(l, PodInfo[p].ns, PodInfo[p].owners) :
                    l \in SUBSET Workloads, p \in Pods}
Digests == UNION {{Containers(p)[i].digest : i \in DOMAIN Containers(p)} : p \in Pods}
ContainerNames == UNION {{Containers(p)[i].name : i \in DOMAIN Containers(p)} : p \in Pods}
Namespaces == {PodInfo[p].ns : p \in Pods}
DeploymentNames ==
    {DeploymentName(ns, id.name, c) :
        ns \in Namespaces, id \in Resolutions, c \in ContainerNames}
Records == [dn : DeploymentNames, digest : Digests \cup {NoDigest},
            status : {"deployed", "decommissioned"}]

ASSUME PodInfoAssumption ==
    \A p \in Pods :
        /\ Containers(p) # <<>>
        /\ Containers(p) \in Seq({Containers(p)[i] : i \in DOMAIN Containers(p)})
\* Kubernetes admits no owner reference without a name.
ASSUME OwnersAssumption ==
    \A p \in Pods :
        /\ DOMAIN PodInfo[p].owners \subseteq Nat
        /\ \A i \in DOMAIN PodInfo[p].owners : IsName(PodInfo[p].owners[i].name)
ASSUME TemplateAssumption ==
    Template # {} /\ Template \subseteq {"namespace", "deploymentName", "containerName"}
ASSUME PermanentAssumption == Permanent \subseteq Workloads
ASSUME StampsAssumption == Stamps \subseteq BOOLEAN
ASSUME NilAssumption == Nil \notin PodObjects \cup PodEvents \cup Records
ASSUME BoundsAssumption ==
    MaxBacklog \in Nat /\ MaxFailures \in Nat /\ MaxCancels \in Nat

RecordOf(w) == BuildRecord(event[w].type, subject[w], at[w], wl[w].name)

-----------------------------------------------------------------------------
(***************************************************************************)
(* The cluster, as the informers see it.  A pod is seen at most once; its  *)
(* phase only moves forward and a deletion timestamp stays.                *)
(***************************************************************************)
Notify(old, new) ==
    /\ Len(notes) < MaxBacklog
    /\ notes' = Append(notes, [old |-> old, new |-> new])

LegalPhase(old, new) ==
    \/ old = new
    \/ old = "Pending"
    \/ old = "Running" /\ IsTerminalPhase(new)

PodAdded(p, phase) ==
    LET obj == [pod |-> p, phase |-> phase, deleting |-> FALSE]
    IN  /\ p \notin born
        /\ indexer[Key(p)] = Nil
        /\ Notify(Nil, obj)
        /\ indexer' = [indexer EXCEPT ![Key(p)] = obj]
        /\ born' = born \cup {p}
        /\ UNCHANGED <<lister, replaced, doomed>>

\* An update or, with nothing changed, the periodic resync.
PodUpdated(k, phase, deleting) ==
    LET old == indexer[k]
        new == [old EXCEPT !.phase = phase, !.deleting = deleting]
    IN  /\ old # Nil
        /\ LegalPhase(old.phase, phase)
        /\ old.deleting => deleting
        /\ Notify(old, new)
        /\ indexer' = [indexer EXCEPT ![k] = new]
        /\ doomed' = IF old.phase # "Running" /\ phase = "Running" /\ deleting
                     THEN doomed \cup {old.pod} ELSE doomed
        /\ UNCHANGED <<lister, born, replaced>>

PodRemoved(k) ==
    /\ indexer[k] # Nil
    /\ Notify(indexer[k], Nil)
    /\ indexer' = [indexer EXCEPT ![k] = Nil]
    /\ UNCHANGED <<lister, born, replaced, doomed>>

\* After a broken watch the informer lists again: a pod that was deleted and
\* created anew under its name meanwhile is notified as an update of the old one.
PodReplaced(p, phase) ==
    LET old == indexer[Key(p)]
        new == [pod |-> p, phase |-> phase, deleting |-> FALSE]
    IN  /\ p \notin born
        /\ old # Nil
        /\ Notify(old, new)
        /\ indexer' = [indexer EXCEPT ![Key(p)] = new]
        /\ born' = born \cup {p}
        /\ replaced' = replaced \cup {p, old.pod}
        /\ UNCHANGED <<lister, doomed>>

WorkloadAdded(o) ==
    /\ o \notin lister
    /\ lister' = lister \cup {o}
    /\ UNCHANGED <<indexer, notes, born, replaced, doomed>>

WorkloadRemoved(o) ==
    /\ o \in lister \ Permanent
    /\ lister' = lister \ {o}
    /\ UNCHANGED <<indexer, notes, born, replaced, doomed>>

Cluster ==
    /\ \/ \E p \in Pods, phase \in Phases : PodAdded(p, phase)
       \/ \E k \in Keys, phase \in Phases, d \in Stamps : PodUpdated(k, phase, d)
       \/ \E k \in Keys : PodRemoved(k)
       \/ \E p \in Pods, phase \in Phases : PodReplaced(p, phase)
       \/ \E o \in Workloads : WorkloadAdded(o)
       \/ \E o \in Workloads : WorkloadRemoved(o)
    /\ UNCHANGED <<queueVars, runVars, workerVars, cacheVars, serverVars, handled>>

-----------------------------------------------------------------------------
(***************************************************************************)
(* The informer's notification handlers (New).  The informer delivers its  *)
(* notifications one at a time and in order.                               *)
(***************************************************************************)
IsJobTerminal(obj) == IsTerminalPhase(obj.phase) /\ GetJobOwnerName(Owners(obj)) # NoName

\* A pod whose first sighting is reported.
Reportable(obj) ==
    \/ obj.phase = "Running" /\ HasSupportedOwner(Owners(obj))
    \/ IsJobTerminal(obj)

\* A faulty variant: pods of short Jobs that were never seen Running are missed.
BecameRunning(old, new) ==
    /\ ~new.deleting /\ HasSupportedOwner(Owners(new))
    /\ old.phase # "Running" /\ new.phase = "Running"

\* An update that is reported: the pod just became Running, or it belongs to a
\* Job and went to a terminal phase without being seen Running.
BecameReportable(old, new) ==
    \/ /\ ~new.deleting /\ HasSupportedOwner(Owners(new))
       /\ old.phase # "Running" /\ new.phase = "Running"
    \/ /\ ~IsTerminalPhase(old.phase) /\ old.phase # "Running"
       /\ IsJobTerminal(new)

Enqueue(cond, e) == IF cond THEN Add(e) ELSE UNCHANGED queueVars

AddFunc ==
    LET new == Head(notes).new
    IN  /\ Head(notes).old = Nil
        /\ Enqueue(~syncing /\ Reportable(new), CreatedEvent(Key(new.pod)))

UpdateFunc ==
    LET old == Head(notes).old
        new == Head(notes).new
    IN  /\ old # Nil /\ new # Nil
        /\ Enqueue(BecameReportable(old, new), CreatedEvent(Key(new.pod)))

DeleteFunc ==
    LET old == Head(notes).old
    IN  /\ Head(notes).new = Nil
        /\ Enqueue(HasSupportedOwner(Owners(old)), DeletedEvent(old))

Deliver ==
    /\ notes # <<>>
    /\ AddFunc \/ UpdateFunc \/ DeleteFunc
    /\ notes' = Tail(notes)
    /\ UNCHANGED <<indexer, lister, born, replaced, doomed, runVars, workerVars, cacheVars,
                   serverVars, handled>>

-----------------------------------------------------------------------------
(***************************************************************************)
(* A worker: processNextItem, processEvent and recordContainer.            *)
(*                                                                         *)
(*   idle -> lookup -> resolve (-> cronjob) -> active -> container         *)
(*                         -> posting -> answered -> invalidate -> done    *)
(***************************************************************************)
PCs == {"idle", "lookup", "resolve", "cronjob", "active", "container", "posting",
        "answered", "invalidate", "done"}

Goto(w, step) == pc' = [pc EXCEPT ![w] = step]

\* workqueue.Get; a DELETED event brings the pod it is about.
GetEvent(w) ==
    /\ pc[w] = "idle"
    /\ main # "syncing"
    /\ queue # <<>>
    /\ Get(Head(queue))
    /\ event' = [event EXCEPT ![w] = Head(queue)]
    /\ subject' = [subject EXCEPT ![w] = Head(queue).pod]
    /\ Goto(w, IF Head(queue).type = Deleted THEN "resolve" ELSE "lookup")
    /\ UNCHANGED <<wl, at, lastErr, clusterVars, runVars, cacheVars, serverVars, handled>>

\* A CREATED event is about the pod that has this key now, if there is one.
Lookup(w) ==
    /\ pc[w] = "lookup"
    /\ subject' = [subject EXCEPT ![w] = indexer[event[w].key]]
    /\ Goto(w, IF indexer[event[w].key] = Nil THEN "done" ELSE "resolve")
    /\ UNCHANGED <<event, wl, at, lastErr, clusterVars, queueVars, runVars, cacheVars,
                   serverVars, handled>>

\* Resolve returns: without a workload there is nothing to report.
Resolved(w, id) ==
    /\ wl' = [wl EXCEPT ![w] = id]
    /\ Goto(w, CASE id = NoIdentity -> "done"
                 [] id # NoIdentity /\ event[w].type = Deleted -> "active"
                 [] OTHER -> "container")
    /\ UNCHANGED <<event, subject, at, lastErr, clusterVars, queueVars, runVars,
                   cacheVars, serverVars, handled>>

ResolveWorkload(w) ==
    LET obj == subject[w]
        ns  == PodInfo[obj.pod].ns
    IN  /\ pc[w] = "resolve"
        /\ ~LacksJob(lister, ns, Owners(obj))
        /\ Resolved(w, Resolve(lister, ns, Owners(obj)))

\* The Job lister does not have the pod's Job; the CronJob lister is asked next.
FindNoJob(w) ==
    /\ pc[w] = "resolve"
    /\ LacksJob(lister, PodInfo[subject[w].pod].ns, Owners(subject[w]))
    /\ Goto(w, "cronjob")
    /\ UNCHANGED <<event, subject, wl, at, lastErr, clusterVars, queueVars, runVars,
                   cacheVars, serverVars, handled>>

TryCronJob(w) ==
    LET obj == subject[w]
    IN  /\ pc[w] = "cronjob"
        /\ Resolved(w, MissingJobWorkload(lister, PodInfo[obj.pod].ns,
                                          GetJobOwnerName(Owners(obj))))

\* While the workload exists a pod deletion is only a scale-down or a rollout.
CheckActive(w) ==
    /\ pc[w] = "active"
    /\ Goto(w, IF IsActive(lister, PodInfo[subject[w].pod].ns, wl[w])
               THEN "done" ELSE "container")
    /\ UNCHANGED <<event, subject, wl, at, lastErr, clusterVars, queueVars, runVars,
                   cacheVars, serverVars, handled>>

\* A faulty variant: the error of an earlier container is forgotten.
NextContainerLastWins(w, failed) ==
    /\ lastErr' = [lastErr EXCEPT ![w] = failed]
    /\ at' = [at EXCEPT ![w] = @ + 1]
    /\ Goto(w, IF at[w] < Len(Containers(subject[w].pod)) THEN "container" ELSE "done")
    /\ UNCHANGED <<event, subject, wl>>

\* A faulty variant: the loop runs one container too far.
NextContainerPastEnd(w, failed) ==
    /\ lastErr' = [lastErr EXCEPT ![w] = @ \/ failed]
    /\ at' = [at EXCEPT ![w] = @ + 1]
    /\ Goto(w, IF at[w] <= Len(Containers(subject[w].pod)) THEN "container" ELSE "done")
    /\ UNCHANGED <<event, subject, wl>>

\* The rest of the loop over the containers, then over the init containers.
NextContainer(w, failed) ==
    /\ lastErr' = [lastErr EXCEPT ![w] = @ \/ failed]
    /\ at' = [at EXCEPT ![w] = @ + 1]
    /\ Goto(w, IF at[w] < Len(Containers(subject[w].pod)) THEN "container" ELSE "done")
    /\ UNCHANGED <<event, subject, wl>>

\* No digest yet, reported lately, or an artifact the API does not know.
Suppressed(r) ==
    \/ r.digest = NoDigest
    \/ r \in observed
    \/ r.digest \in unknown

SkipContainer(w) ==
    /\ pc[w] = "container"
    /\ Suppressed(RecordOf(w))
    /\ NextContainer(w, FALSE)
    /\ UNCHANGED <<clusterVars, queueVars, runVars, cacheVars, serverVars, handled>>

\* A faulty variant: the record is cached before the API has answered.
StartPostCaches(w) ==
    /\ pc[w] = "container"
    /\ ~Suppressed(RecordOf(w))
    /\ observed' = observed \cup {RecordOf(w)}
    /\ Goto(w, "posting")
    /\ UNCHANGED <<event, subject, wl, at, lastErr, clusterVars, queueVars, runVars,
                   unknown, serverVars, handled>>

StartPost(w) ==
    /\ pc[w] = "container"
    /\ ~Suppressed(RecordOf(w))
    /\ Goto(w, "posting")
    /\ UNCHANGED <<event, subject, wl, at, lastErr, clusterVars, queueVars, runVars,
                   cacheVars, serverVars, handled>>

\* A faulty variant: an answer other than 2xx is taken for success.
PostOkAnyStatus(w) ==
    /\ pc[w] \in {"posting", "answered"}
    /\ observed' = observed \cup {RecordOf(w)}
    /\ Goto(w, "invalidate")
    /\ UNCHANGED <<event, subject, wl, at, lastErr, clusterVars, queueVars, runVars,
                   unknown, serverVars, handled>>

\* The API's 2xx answer arrives: the record is cached ...
PostOk(w) ==
    /\ pc[w] = "answered"
    /\ observed' = observed \cup {RecordOf(w)}
    /\ Goto(w, "invalidate")
    /\ UNCHANGED <<event, subject, wl, at, lastErr, clusterVars, queueVars, runVars,
                   unknown, serverVars, handled>>

\* A faulty variant: the opposite record stays cached.
InvalidateNothing(w) ==
    /\ pc[w] = "invalidate"
    /\ NextContainer(w, FALSE)
    /\ UNCHANGED <<clusterVars, queueVars, runVars, cacheVars, serverVars, handled>>

\* ... and the opposite record is no longer.
Invalidate(w) ==
    /\ pc[w] = "invalidate"
    /\ observed' = observed \ {Opposite(RecordOf(w))}
    /\ NextContainer(w, FALSE)
    /\ UNCHANGED <<clusterVars, queueVars, runVars, unknown, serverVars, handled>>

\* 404: the digest is not asked for again for a while.
PostNotFound(w) ==
    /\ pc[w] = "posting"
    /\ failures < MaxFailures
    /\ failures' = failures + 1
    /\ unknown' = unknown \cup {RecordOf(w).digest}
    /\ missing' = missing \cup {RecordOf(w).digest}
    /\ NextContainer(w, FALSE)
    /\ UNCHANGED <<clusterVars, queueVars, runVars, observed, server, late, applied,
                   refused, handled>>

\* Another 4xx: logged and given up.
PostClientError(w) ==
    /\ pc[w] = "posting"
    /\ failures < MaxFailures
    /\ failures' = failures + 1
    /\ refused' = refused \cup {RecordOf(w)}
    /\ NextContainer(w, FALSE)
    /\ UNCHANGED <<clusterVars, queueVars, runVars, cacheVars, server, late, applied,
                   missing, handled>>

\* The client's retries are exhausted or its context was cancelled, whether or
\* not the API applied one of the requests.
PostFailed(w) ==
    /\ pc[w] \in {"posting", "answered"}
    /\ \/ failures < MaxFailures /\ failures' = failures + 1
       \/ main # "up" /\ UNCHANGED failures
    /\ NextContainer(w, TRUE)
    /\ UNCHANGED <<clusterVars, queueVars, runVars, cacheVars, server, late, applied,
                   refused, missing, handled>>

\* The history notes the events processed when the digests of the pod were known.
NoteHandled(w) ==
    handled' = IF /\ subject[w] # Nil /\ ~lastErr[w]
                  /\ event[w].type = Deleted \/ subject[w].phase # "Pending"
               THEN handled \cup {<<event[w].type, subject[w].pod>>}
               ELSE handled

\* A faulty variant: Forget and Done, but the failed event is not queued again.
FinishEventOnce(w) ==
    /\ pc[w] = "done"
    /\ Finish(event[w], FALSE)
    /\ NoteHandled(w)
    /\ pc' = [pc EXCEPT ![w] = "idle"]
    /\ event' = [event EXCEPT ![w] = Nil]
    /\ subject' = [subject EXCEPT ![w] = Nil]
    /\ wl' = [wl EXCEPT ![w] = NoIdentity]
    /\ at' = [at EXCEPT ![w] = 1]
    /\ lastErr' = [lastErr EXCEPT ![w] = FALSE]
    /\ UNCHANGED <<clusterVars, runVars, cacheVars, serverVars>>

\* The end of processNextItem.
FinishEvent(w) ==
    /\ pc[w] = "done"
    /\ Finish(event[w], lastErr[w])
    /\ NoteHandled(w)
    /\ pc' = [pc EXCEPT ![w] = "idle"]
    /\ event' = [event EXCEPT ![w] = Nil]
    /\ subject' = [subject EXCEPT ![w] = Nil]
    /\ wl' = [wl EXCEPT ![w] = NoIdentity]
    /\ at' = [at EXCEPT ![w] = 1]
    /\ lastErr' = [lastErr EXCEPT ![w] = FALSE]
    /\ UNCHANGED <<clusterVars, runVars, cacheVars, serverVars>>

Work(w) ==
    \/ GetEvent(w) \/ Lookup(w)
    \/ ResolveWorkload(w) \/ FindNoJob(w) \/ TryCronJob(w) \/ CheckActive(w)
    \/ SkipContainer(w) \/ StartPost(w)
    \/ PostOk(w) \/ Invalidate(w) \/ PostNotFound(w) \/ PostClientError(w) \/ PostFailed(w)
    \/ FinishEvent(w)

-----------------------------------------------------------------------------
(***************************************************************************)
(* The API: the last record applied for a deployment name is the one it    *)
(* holds.  The client sends a request again when no answer arrives; the    *)
(* request that went unanswered may have been applied, or be applied later. *)
(***************************************************************************)
Apply(r) ==
    /\ server' = [server EXCEPT ![r.dn] = r]
    /\ applied' = applied \cup {r}

ServerApply(w) ==
    /\ pc[w] = "posting"
    /\ Apply(RecordOf(w))
    /\ Goto(w, "answered")
    /\ UNCHANGED <<event, subject, wl, at, lastErr, late, refused, missing, failures>>

AnswerLost(w) ==
    /\ pc[w] = "answered"
    /\ failures < MaxFailures
    /\ failures' = failures + 1
    /\ Goto(w, "posting")
    /\ UNCHANGED <<event, subject, wl, at, lastErr, server, late, applied, refused, missing>>

RequestDelayed(w) ==
    /\ pc[w] = "posting"
    /\ failures < MaxFailures
    /\ failures' = failures + 1
    /\ late' = late \cup {RecordOf(w)}
    /\ UNCHANGED <<workerVars, server, applied, refused, missing>>

LateApply(r) ==
    /\ r \in late
    /\ late' = late \ {r}
    /\ Apply(r)
    /\ UNCHANGED <<workerVars, refused, missing, failures>>

Network ==
    /\ \/ \E w \in Workers : ServerApply(w) \/ AnswerLost(w) \/ RequestDelayed(w)
       \/ \E r \in late : LateApply(r)
    /\ UNCHANGED <<clusterVars, queueVars, runVars, cacheVars, handled>>

-----------------------------------------------------------------------------
(***************************************************************************)
(* Timers: cache entries expire, and the delay of a failed event ends.     *)
(***************************************************************************)
Expire ==
    /\ \/ \E r \in observed : observed' = observed \ {r} /\ UNCHANGED unknown
       \/ \E d \in unknown : unknown' = unknown \ {d} /\ UNCHANGED observed
    /\ UNCHANGED <<clusterVars, queueVars, runVars, workerVars, serverVars, handled>>

RetryDelayEnds ==
    /\ \E e \in waiting : DelayEnds(e)
    /\ UNCHANGED <<clusterVars, runVars, workerVars, cacheVars, serverVars, handled>>

-----------------------------------------------------------------------------
(***************************************************************************)
(* Run and the signal handler of main.go.                                  *)
(*   syncing -> up -> cancelled -> returned -> exited; syncing -> failed   *)
(***************************************************************************)
\* A faulty variant: the listers may still be empty.
StartWorkersEarly ==
    /\ main = "syncing"
    /\ main' = "up"
    /\ UNCHANGED <<syncing, cancels>>

\* WaitForCacheSync returned: the listers hold what existed at the start.
StartWorkers ==
    /\ main = "syncing"
    /\ Permanent \subseteq lister
    /\ main' = "up"
    /\ UNCHANGED <<syncing, cancels>>

\* The caches are not synced in time, or a signal arrives meanwhile: Run fails.
SyncFails ==
    /\ main = "syncing"
    /\ cancels < MaxCancels
    /\ cancels' = cancels + 1
    /\ main' = "failed"
    /\ UNCHANGED syncing

\* A signal: the context is cancelled.  Workers go on, but their requests fail.
Cancel ==
    /\ main = "up"
    /\ cancels < MaxCancels
    /\ cancels' = cancels + 1
    /\ main' = "cancelled"
    /\ UNCHANGED syncing

\* Run returns and its deferred ShutDown runs.
RunReturns ==
    /\ main = "cancelled"
    /\ ShutDown
    /\ main' = "returned"
    /\ UNCHANGED <<syncing, cancels>>

\* main returns: the process ends whatever its workers were doing.
Exit ==
    /\ main = "returned"
    /\ main' = "exited"
    /\ UNCHANGED <<syncing, cancels>>

Lifecycle ==
    /\ \/ (StartWorkers \/ SyncFails \/ Cancel \/ Exit) /\ UNCHANGED queueVars
       \/ RunReturns
    /\ UNCHANGED <<clusterVars, workerVars, cacheVars, serverVars, handled>>

-----------------------------------------------------------------------------
\* New: with BulkClusterSync the gate of the Add handler is closed.
InitWith(bulkClusterSync) ==
    /\ indexer = [k \in Keys |-> Nil]
    /\ lister = {}
    /\ notes = <<>>
    /\ born = {}
    /\ replaced = {}
    /\ doomed = {}
    /\ QueueInit
    /\ main = "syncing"
    /\ syncing = bulkClusterSync
    /\ cancels = 0
    /\ pc = [w \in Workers |-> "idle"]
    /\ event = [w \in Workers |-> Nil]
    /\ subject = [w \in Workers |-> Nil]
    /\ wl = [w \in Workers |-> NoIdentity]
    /\ at = [w \in Workers |-> 1]
    /\ lastErr = [w \in Workers |-> FALSE]
    /\ observed = {}
    /\ unknown = {}
    /\ server = [dn \in DeploymentNames |-> Nil]
    /\ late = {}
    /\ applied = {}
    /\ refused = {}
    /\ missing = {}
    /\ handled = {}
    /\ failures = 0

\* The controller without BulkClusterSync; Startup adds the other one.
Init == InitWith(FALSE)

Running == main \notin {"failed", "exited"}
Exited == ~Running /\ UNCHANGED vars

Next ==
    \/ /\ Running
       /\ \/ Cluster
          \/ Deliver
          \/ \E w \in Workers : Work(w)
          \/ Network
          \/ Expire
          \/ RetryDelayEnds
          \/ Lifecycle
    \/ Exited

Spec == Init /\ [][Next]_vars

(***************************************************************************)
(* Fairness.  The informer, the timers and the workers are goroutines that *)
(* the Go scheduler runs whenever they can; every HTTP request ends, by an *)
(* answer or by the client's timeout.  The cluster owes nobody a step, and *)
(* no signal need ever arrive.                                             *)
(***************************************************************************)
Answer(w) ==
    ServerApply(w) /\ UNCHANGED <<clusterVars, queueVars, runVars, cacheVars, handled>>

Start ==
    StartWorkers /\ UNCHANGED <<clusterVars, queueVars, workerVars, cacheVars, serverVars,
                                handled>>

FairSpec ==
    /\ Spec
    /\ WF_vars(Running /\ Deliver)
    /\ WF_vars(Running /\ RetryDelayEnds)
    /\ WF_vars(Start)
    /\ \A w \in Workers : WF_vars(Running /\ (Work(w) \/ Answer(w)))

-----------------------------------------------------------------------------
(***************************************************************************)
(* Properties.                                                             *)
(***************************************************************************)
\* What a worker has at hand at each step: it processes an event, with a pod and
\* a workload by the time it needs them, and is never past the last container.
WorkerOK(w) ==
    /\ pc[w] = "idle" <=> event[w] = Nil
    /\ pc[w] \notin {"idle", "lookup", "done"} => subject[w] # Nil
    /\ pc[w] \in {"idle", "lookup", "resolve", "cronjob", "active"} =>
          at[w] = 1 /\ ~lastErr[w]
    /\ pc[w] = "cronjob" => ThroughJob(Owners(subject[w]))
    /\ pc[w] \in {"active", "container", "posting", "answered", "invalidate"} =>
          wl[w] \in Resolutions
    /\ pc[w] \in {"container", "posting", "answered", "invalidate"} =>
          at[w] <= Len(Containers(subject[w].pod))

ClusterTypeOK ==
    /\ indexer \in [Keys -> PodObjects \cup {Nil}]
    /\ lister \subseteq Workloads
    /\ notes \in Seq(Notifications)
    /\ born \subseteq Pods
    /\ replaced \subseteq Pods
    /\ doomed \subseteq Pods

RunTypeOK ==
    /\ main \in {"syncing", "up", "cancelled", "returned", "failed", "exited"}
    /\ syncing \in BOOLEAN
    /\ cancels \in Nat

WorkerTypeOK ==
    /\ pc \in [Workers -> PCs]
    /\ event \in [Workers -> PodEvents \cup {Nil}]
    /\ subject \in [Workers -> PodObjects \cup {Nil}]
    /\ wl \in [Workers -> Resolutions \cup {NoIdentity}]
    /\ at \in [Workers -> Nat \ {0}]
    /\ lastErr \in [Workers -> BOOLEAN]
    /\ \A w \in Workers : WorkerOK(w)

ReportTypeOK ==
    /\ observed \subseteq Records
    /\ unknown \subseteq Digests \cup {NoDigest}
    /\ server \in [DeploymentNames -> Records \cup {Nil}]
    /\ late \subseteq Records
    /\ applied \subseteq Records
    /\ refused \subseteq Records
    /\ missing \subseteq Digests \cup {NoDigest}
    /\ handled \subseteq {Created, Deleted} \X Pods
    /\ failures \in Nat

\* Every variable has its type, and the loop of processEvent finds what it uses.
TypeOK ==
    ClusterTypeOK /\ QueueTypeOK(PodEvents) /\ RunTypeOK /\ WorkerTypeOK /\ ReportTypeOK

\* Two workers never process the same event, although it is added again while one of
\* them does (a pod of the same name appears) or fails and is retried (Get, Done and
\* AddRateLimited as processNextItem calls them).
SingleFlight ==
    \A v, w \in Workers : v # w /\ event[v] = event[w] => event[v] = Nil

\* The observedDeployments cache never holds both the CREATED and the DELETED key
\* of a deployment name and digest, which would suppress every later report
\* about it, except while a worker is between its Set and its Delete; whatever
\* the order in which two workers report the two.
CreateDeleteExclusive ==
    \A r \in observed :
        Opposite(r) \in observed =>
            \E w \in Workers : pc[w] = "invalidate" /\ RecordOf(w) \in {r, Opposite(r)}

\* What the observedDeployments cache suppresses, the API has applied: no key
\* is cached on the strength of a request that was refused, lost or delayed.
CachedWasApplied == observed \subseteq applied

Undelivered(k) ==
    \E i \in DOMAIN notes :
        \/ notes[i].old # Nil /\ Key(notes[i].old.pod) = k
        \/ notes[i].new # Nil /\ Key(notes[i].new.pod) = k

\* The notification handlers, the queue and the workers never lose a pod: once
\* what the informer knows of a key is delivered, a reportable pod under it has
\* its CREATED event outstanding or has been processed without error since its
\* digests are known; through errors, retries, a second pod under the same
\* name and pods that change while they are processed; also if it is being deleted,
\* and if it belongs to a Job and was never seen Running.  (UpdateFunc makes two
\* exceptions: a pod seen in place of another one, as it compares the two, and one
\* that was being deleted already when it was seen Running.)
CreatedAccountedFor ==
    main \in {"syncing", "up"} =>
        \A k \in Keys :
            LET obj == indexer[k]
            IN  (obj # Nil /\ ~Undelivered(k)) =>
                    \/ ~Reportable(obj) \/ obj.pod \in replaced \cup doomed
                    \/ Outstanding(CreatedEvent(k))
                    \/ <<Created, obj.pod>> \in handled

\* The same of deletions: a supported pod that is gone has its DELETED event
\* outstanding, with the pod as it was last seen, or it has been processed.
DeletedAccountedFor ==
    main \in {"syncing", "up"} =>
        \A p \in born \ replaced :
            \/ indexer[Key(p)] # Nil /\ indexer[Key(p)].pod = p
            \/ Undelivered(Key(p))
            \/ ~HasSupportedOwner(PodInfo[p].owners)
            \/ \E e \in dirty \cup processing \cup waiting :
                    e.type = Deleted /\ e.pod.pod = p
            \/ <<Deleted, p>> \in handled

\* The deployment names a container may be reported under.
ReportedAs ==
    [p \in Pods |-> [i \in DOMAIN Containers(p) |->
        {DeploymentName(PodInfo[p].ns, Resolve(l, PodInfo[p].ns, PodInfo[p].owners).name,
                        Containers(p)[i].name) : l \in SUBSET Workloads}]]

\* A CREATED event that counts as processed has had each container of its pod
\* answered for: the API applied or refused its record, or does not know the
\* artifact.  No error of one container is lost behind the success of another,
\* and no cache entry suppresses what was never reported.
HandledMeansReported ==
    \A p \in {q \in Pods : HasSupportedOwner(PodInfo[q].owners)} :
      <<Created, p>> \in handled =>
        \A i \in DOMAIN Containers(p) :
            LET digest == Containers(p)[i].digest
            IN  \/ digest = NoDigest
                \/ digest \in missing
                \/ \E r \in applied \cup refused :
                        /\ r.status = "deployed" /\ r.digest = digest
                        /\ r.dn \in ReportedAs[p][i]

\* No other workload shares its deployment names with one that exists throughout: by
\* the default template, none of another kind has its name in its namespace.
DistinctNames ==
    \A o \in Permanent, p, q \in Pods, l \in SUBSET Workloads :
        LET id == Resolve(l, PodInfo[p].ns, PodInfo[p].owners)
        IN  \A i \in DOMAIN Containers(p), j \in DOMAIN Containers(q) :
                DeploymentName(PodInfo[p].ns, id.name, Containers(p)[i].name)
                  = DeploymentName(o.ns, o.name, Containers(q)[j].name)
                => o.ns = PodInfo[p].ns /\ o.kind = id.kind /\ o.name = id.name

\* No deployment of a workload that exists throughout is ever decommissioned: a
\* pod deletion is told from the end of its workload, whatever the order in which
\* Run, the handlers and the workers get to see the pod, its Job and the CronJob.
PermanentStaysDeployed ==
    \A r \in applied \cup late : r.status = "decommissioned" =>
        \A o \in Permanent, p \in Pods : \A i \in DOMAIN Containers(p) :
            r.dn # DeploymentName(o.ns, o.name, Containers(p)[i].name)

\* No two workloads of reported pods share a deployment name.
NamesIdentify ==
    \A p, q \in Pods, l, m \in SUBSET Workloads :
        LET id    == Resolve(l, PodInfo[p].ns, PodInfo[p].owners)
            other == Resolve(m, PodInfo[q].ns, PodInfo[q].owners)
        IN  \A i \in DOMAIN Containers(p), j \in DOMAIN Containers(q) :
                DeploymentName(PodInfo[p].ns, id.name, Containers(p)[i].name)
                  = DeploymentName(PodInfo[q].ns, other.name, Containers(q)[j].name)
                => PodInfo[p].ns = PodInfo[q].ns /\ id = other

\* A Job has the name that one of these CronJobs gives its Jobs.
GeneratedBy(workloads, ns, job) ==
    /\ Len(job) > 1 /\ job[Len(job)] \in Numerals
    /\ \E o \in workloads :
            o.ns = ns /\ o.kind = "CronJob" /\ o.name = WithoutSuffix(job)

\* A Job that owns a pod was generated by a CronJob that stays, or by none.
CronJobsStay ==
    \A p \in Pods :
        LET ns  == PodInfo[p].ns
            job == GetJobOwnerName(PodInfo[p].owners)
            CronJobOf(o) == OwnerName(o.owners, "CronJob")
            same == {o \in Workloads : o.ns = ns /\ o.kind = "Job" /\ o.name = job}
        IN  job # NoName =>
                \/ /\ GeneratedBy(Permanent, ns, job)
                   /\ \A o \in same : CronJobOf(o) = WithoutSuffix(job)
                \/ /\ ~GeneratedBy(Workloads, ns, job)
                   /\ \A o \in same : CronJobOf(o) = NoName

\* A container goes by one deployment name: what the deletion of a pod decommissions
\* is what its creation deployed, also when the Job between the pod and its CronJob
\* is seen by one worker and gone for another (Resolve, as long as the CronJob stays).
StableIdentity ==
    \A p \in Pods : \A i \in DOMAIN Containers(p) :
        \A r, s \in applied \cup late :
            r.dn \in ReportedAs[p][i] /\ s.dn \in ReportedAs[p][i] => r.dn = s.dn

(***************************************************************************)
(* A worker's post, as the client promises it (ApiCall).                   *)
(***************************************************************************)
Phase(w) ==
    CASE pc[w] \in {"posting", "answered"} -> pc[w]
      [] pc[w] = "invalidate" -> "accepted"
      [] OTHER -> "idle"

Contract == INSTANCE ApiCall WITH
    Callers  <- Workers,
    Requests <- Records,
    phase    <- [w \in Workers |-> Phase(w)],
    request  <- [w \in Workers |-> IF Phase(w) = "idle" THEN Nil ELSE RecordOf(w)]

\* The workers rely on no more than what the client keeps: what they do between
\* a post and its end is a behaviour of ApiCall, for any interleaving of workers,
\* lost answers and late requests; in particular the record a worker posts does
\* not change under it, although the pod and the listers do.
KeepsContract == Contract!Spec

Present(p) == indexer[Key(p)] # Nil /\ indexer[Key(p)].pod = p
Serving == main \in {"syncing", "up"}

\* A pod that becomes reportable and stays is eventually processed without
\* error, provided that the requests eventually succeed.
CreatedHandled ==
    \A p \in Pods :
        (Present(p) /\ Reportable(indexer[Key(p)]) /\ p \notin replaced \cup doomed)
        ~> (<<Created, p>> \in handled \/ ~Present(p) \/ ~Serving)

\* So is the deletion of a supported pod.
DeletedHandled ==
    \A p \in Pods :
        (p \in born \ replaced /\ ~Present(p) /\ HasSupportedOwner(PodInfo[p].owners))
        ~> (<<Deleted, p>> \in handled \/ ~Serving)

(***************************************************************************)
(* Statements of the repository that the code does not live up to.         *)
(***************************************************************************)
\* The Controller's comment on observedDeployments: "best effort cache to avoid
\* redundant posts".  So, when a CREATED report is suppressed by the cache and
\* every pod of that deployment name runs the reported digest, the API already
\* holds that record and the post was redundant.
SuppressedIsRedundant ==
    \A w \in Workers :
        LET r == RecordOf(w)
        IN  (/\ pc[w] = "container" /\ event[w].type = Created
             /\ r \in observed
             /\ \A p \in Pods : Present(p) =>
                    \A i \in DOMAIN Containers(p) :
                        r.dn \in ReportedAs[p][i] => Containers(p)[i].digest = r.digest)
            => server[r.dn] = r

\* README: "Graceful shutdown: Properly drains work queue before terminating".
ShutdownDrains == main = "exited" => dirty \cup processing \cup waiting = {}
=============================================================================
