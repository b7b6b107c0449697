-------------------------------- MODULE Startup --------------------------------
(***************************************************************************)
(* The controller with BulkClusterSync: Run and processSyncEvents          *)
(* (controller.go, reporting.go).  While the informers fill their caches   *)
(* the gate keeps added pods out of the queue; then the gate is opened,    *)
(* the indexer is listed, and what it holds is submitted to the API as one *)
(* job.  The workers start when the job has ended, one way or another.     *)
(* The process may crash and be started anew at any time; it persists      *)
(* nothing.                                                                *)
(*                                                                         *)
(* PodInfo has here for each pod the time it was created, and for each     *)
(* container the name of its image, by which a job names its errors.       *)
(***************************************************************************)
EXTENDS Controller, SyncRecords

VARIABLES
    boot,        \* how far processSyncEvents is
    listed,      \* history: the pods that were listed and eligible
    todo,        \* the listed pods makeSyncRecords has not reached
    making,      \* the pod it is at, with its workload and its container, or Nil
    snapshot,    \* the candidates it has chosen
    job,         \* the records of the accepted job that the API has yet to process
    rejected,    \* the image names the job reports as not_found
    unanswered   \* history: the records cached without an answer about them

makeVars == <<listed, todo, making, snapshot>>
jobVars  == <<makeVars, job, rejected, unanswered>>
bootVars == <<vars, boot, jobVars>>

PresentObjects == {indexer[k] : k \in {j \in Keys : indexer[j] # Nil}}

SyncCandidate(obj, i, name) ==
    [dn      |-> DeploymentName(PodInfo[obj.pod].ns, name, Containers(obj.pod)[i].name),
     digest  |-> ContainerDigest(obj, i),
     image   |-> Containers(obj.pod)[i].image,
     running |-> obj.phase = "Running",
     created |-> PodInfo[obj.pod].created]

SyncRecord(c) == [dn |-> c.dn, digest |-> c.digest, status |-> "deployed"]
Submitted == {SyncRecord(c) : c \in snapshot}

-----------------------------------------------------------------------------
(***************************************************************************)
(* Run, up to the start of the workers.                                    *)
(***************************************************************************)
Booting(from, to) ==
    /\ main = "syncing"
    /\ boot = from
    /\ boot' = to

\* A faulty variant: the gate stays closed while the pods are listed.
GateStaysClosed ==
    /\ Booting("caches", "open")
    /\ Permanent \subseteq lister
    /\ UNCHANGED <<vars, jobVars>>

\* A faulty variant: the caches need not be synced.
OpenGateEarly ==
    /\ Booting("caches", "open")
    /\ syncing' = FALSE
    /\ UNCHANGED <<main, cancels, clusterVars, queueVars, workerVars, cacheVars, serverVars,
                   handled, jobVars>>

\* WaitForCacheSync returned.
OpenGate ==
    /\ Booting("caches", "open")
    /\ Permanent \subseteq lister
    /\ syncing' = FALSE
    /\ UNCHANGED <<main, cancels, clusterVars, queueVars, workerVars, cacheVars, serverVars,
                   handled, jobVars>>

ListPods ==
    /\ Booting("open", "listing")
    /\ todo' = PresentObjects
    /\ listed' = {obj.pod : obj \in {o \in PresentObjects : Reportable(o)}}
    /\ UNCHANGED <<vars, making, snapshot, job, rejected, unanswered>>

(***************************************************************************)
(* makeSyncRecords: the pods come in no particular order, and each is      *)
(* resolved by what the listers hold when it is reached.                   *)
(***************************************************************************)
Making ==
    /\ Booting("listing", "listing")
    /\ UNCHANGED <<vars, listed, job, rejected, unanswered>>

SyncName(obj) == Resolve(lister, PodInfo[obj.pod].ns, Owners(obj)).name
NoJob(obj) == LacksJob(lister, PodInfo[obj.pod].ns, Owners(obj))

\* A pod is eligible on the Add handler's terms, if it has a workload.
SkipPod(obj) ==
    /\ Making
    /\ making = Nil
    /\ obj \in todo
    /\ ~Reportable(obj) \/ SyncName(obj) = NoName
    /\ todo' = todo \ {obj}
    /\ UNCHANGED <<making, snapshot>>

\* The pod has no name yet if the CronJob lister has to be asked after the Job lister.
TakePod(obj) ==
    /\ Making
    /\ making = Nil
    /\ obj \in todo
    /\ Reportable(obj) /\ SyncName(obj) # NoName
    /\ todo' = todo \ {obj}
    /\ making' = [obj |-> obj, name |-> IF NoJob(obj) THEN NoName ELSE SyncName(obj), at |-> 1]
    /\ UNCHANGED snapshot

NameWithoutJob ==
    LET obj == making.obj
        id  == MissingJobWorkload(lister, PodInfo[obj.pod].ns, GetJobOwnerName(Owners(obj)))
    IN  /\ Making
        /\ making # Nil /\ making.name = NoName
        /\ making' = [making EXCEPT !.name = id.name]
        /\ UNCHANGED <<todo, snapshot>>

TakeContainer ==
    /\ Making
    /\ making # Nil /\ making.name # NoName
    /\ snapshot' = Collapse(snapshot, SyncCandidate(making.obj, making.at, making.name))
    /\ making' = IF making.at < Len(Containers(making.obj.pod))
                 THEN [making EXCEPT !.at = @ + 1]
                 ELSE Nil
    /\ UNCHANGED todo

MakeSyncRecords ==
    \/ \E obj \in todo : SkipPod(obj) \/ TakePod(obj)
    \/ NameWithoutJob \/ TakeContainer

Made(to) ==
    /\ Booting("listing", to)
    /\ todo = {} /\ making = Nil

\* There is nothing to report.
NoSyncRecords ==
    /\ Made("ready")
    /\ snapshot = {}
    /\ UNCHANGED <<vars, jobVars>>

Submitting(to) == Made(to) /\ snapshot # {}

\* fillCachesFromSubmitted
FillFromSubmitted ==
    /\ observed' = observed \cup Submitted
    /\ UNCHANGED unknown

\* A faulty variant: an image name stands for every digest submitted under it.
AllDigestsOf(image) == {c.digest : c \in {d \in snapshot : d.image = image}}

\* The digest an image name stands for, if a single record was submitted under it.
DigestsOf(image) ==
    LET records == {c \in snapshot : c.image = image}
    IN  {c.digest : c \in {d \in records : records = {d}}}

\* fillCachesFromJobResult
FillFromJobResult ==
    /\ observed' = observed \cup Submitted
    /\ unknown' = unknown \cup UNION {DigestsOf(image) : image \in rejected}

\* CreateClusterJob: 409, a job of this cluster is pending already; it may be the one
\* that an earlier attempt of this call has created, whose answer was lost ...
CreateConflict ==
    /\ Submitting("noAnswer")
    /\ FillFromSubmitted
    /\ unanswered' = unanswered \cup Submitted
    /\ late' \in {late, late \cup Submitted}
    /\ UNCHANGED <<clusterVars, queueVars, runVars, workerVars, server, applied, refused,
                   missing, failures, handled, makeVars, job, rejected>>

\* ... 404, the API has no such job ...
CreateNotFound ==
    /\ Submitting("ready")
    /\ UNCHANGED <<vars, jobVars>>

\* ... any other error ends Run, whether or not the API has got the request ...
CreateFails ==
    /\ Submitting("ready")
    /\ main' = "failed"
    /\ late' \in {late, late \cup Submitted}
    /\ UNCHANGED <<syncing, cancels, clusterVars, queueVars, workerVars, cacheVars, server,
                   applied, refused, missing, failures, handled, jobVars>>

\* ... or the job is accepted.
CreateAccepted ==
    /\ Submitting("accepted")
    /\ job' = Submitted
    /\ UNCHANGED <<vars, makeVars, rejected, unanswered>>

\* WaitForClusterJob fails or takes more than five minutes.
WaitFails ==
    /\ Booting("accepted", "noAnswer")
    /\ FillFromSubmitted
    /\ unanswered' = unanswered \cup job
    /\ late' = late \cup job
    /\ job' = {}
    /\ UNCHANGED <<clusterVars, queueVars, runVars, workerVars, server, applied, refused,
                   missing, failures, handled, makeVars, rejected>>

\* The job ends "failed": what it has not processed, it never will.
JobFailed ==
    /\ Booting("accepted", "jobFailed")
    /\ job' = {}
    /\ UNCHANGED <<vars, makeVars, rejected, unanswered>>

\* A faulty variant: the caches are filled while the job is still pending.
JobCompletedEarly ==
    /\ Booting("accepted", "ready")
    /\ FillFromJobResult
    /\ UNCHANGED <<clusterVars, queueVars, runVars, workerVars, serverVars, handled, jobVars>>

\* Every record has been applied or rejected.
JobCompleted ==
    /\ Booting("accepted", "ready")
    /\ job = {}
    /\ FillFromJobResult
    /\ UNCHANGED <<clusterVars, queueVars, runVars, workerVars, serverVars, handled, jobVars>>

BootStartWorkers ==
    /\ main = "syncing"
    /\ boot \in {"ready", "noAnswer", "jobFailed"}
    /\ main' = "up"
    /\ UNCHANGED <<syncing, cancels, clusterVars, queueVars, workerVars, cacheVars, serverVars, handled,
                   boot, jobVars>>

BootSyncFails ==
    /\ boot = "caches"
    /\ SyncFails
    /\ UNCHANGED <<clusterVars, queueVars, workerVars, cacheVars, serverVars, handled,
                   boot, jobVars>>

\* A signal or the end of the process, as without the bulk sync.
BootStop ==
    /\ \/ (Cancel \/ Exit) /\ UNCHANGED queueVars
       \/ RunReturns
    /\ UNCHANGED <<clusterVars, workerVars, cacheVars, serverVars, handled, boot, jobVars>>

Boot ==
    \/ OpenGate \/ ListPods \/ MakeSyncRecords \/ NoSyncRecords
    \/ CreateConflict \/ CreateNotFound \/ CreateFails \/ CreateAccepted
    \/ WaitFails \/ JobFailed \/ JobCompleted
    \/ BootStartWorkers \/ BootSyncFails \/ BootStop

-----------------------------------------------------------------------------
(***************************************************************************)
(* The API processes the records of an accepted job: each is applied, or   *)
(* rejected with an error that gives its image name and a cause.           *)
(***************************************************************************)
JobApplies(r) ==
    /\ Apply(r)
    /\ UNCHANGED <<refused, missing, failures, rejected>>

JobRejects(c) ==
    /\ failures < MaxFailures
    /\ failures' = failures + 1
    /\ \/ /\ missing' = missing \cup {c.digest}
          /\ rejected' = rejected \cup {c.image}
          /\ UNCHANGED refused
       \/ /\ refused' = refused \cup {SyncRecord(c)}
          /\ UNCHANGED <<missing, rejected>>
    /\ UNCHANGED <<server, applied>>

JobProceeds ==
    /\ boot = "accepted"
    /\ \E c \in snapshot :
          /\ SyncRecord(c) \in job
          /\ job' = job \ {SyncRecord(c)}
          /\ JobApplies(SyncRecord(c)) \/ JobRejects(c)
    /\ UNCHANGED <<clusterVars, queueVars, runVars, workerVars, cacheVars, late, handled,
                   boot, makeVars, unanswered>>

(***************************************************************************)
(* A crash, or the restart of a process that has ended: only the API keeps *)
(* what it has.  The informers list again: a pod that is still there is    *)
(* seen anew, one that is gone is never heard of.  MaxCancels bounds it    *)
(* together with the signals and the failed cache syncs.                   *)
(***************************************************************************)
InFlight == {RecordOf(w) : w \in {v \in Workers : pc[v] = "posting"}}

Restart ==
    /\ cancels < MaxCancels
    /\ cancels' = cancels + 1
    /\ indexer' = [k \in Keys |-> Nil]
    /\ lister' = {}
    /\ notes' = <<>>
    /\ born' = born \ {obj.pod : obj \in PresentObjects}
    /\ queue' = <<>> /\ dirty' = {} /\ processing' = {} /\ waiting' = {} /\ draining' = FALSE
    /\ main' = "syncing"
    /\ syncing' = TRUE
    /\ pc' = [w \in Workers |-> "idle"]
    /\ event' = [w \in Workers |-> Nil]
    /\ subject' = [w \in Workers |-> Nil]
    /\ wl' = [w \in Workers |-> NoIdentity]
    /\ at' = [w \in Workers |-> 1]
    /\ lastErr' = [w \in Workers |-> FALSE]
    /\ observed' = {} /\ unknown' = {}
    /\ late' = late \cup job \cup InFlight
    /\ boot' = "caches"
    /\ listed' = {} /\ todo' = {} /\ making' = Nil /\ snapshot' = {}
    /\ job' = {} /\ rejected' = {}
    /\ replaced' = {} /\ doomed' = {}
    /\ UNCHANGED <<server, applied, refused, missing, failures, handled, unanswered>>

-----------------------------------------------------------------------------
BootInit ==
    /\ InitWith(TRUE)
    /\ boot = "caches"
    /\ listed = {}
    /\ todo = {}
    /\ making = Nil
    /\ snapshot = {}
    /\ job = {}
    /\ rejected = {}
    /\ unanswered = {}

BootNext ==
    \/ /\ Running
       /\ \/ Cluster \/ Deliver \/ \E w \in Workers : Work(w)
          \/ Network \/ Expire \/ RetryDelayEnds
       /\ UNCHANGED <<boot, jobVars>>
    \/ Running /\ (Boot \/ JobProceeds)
    \/ Restart
    \/ ~Running /\ UNCHANGED bootVars

BootSpec == BootInit /\ [][BootNext]_bootVars

-----------------------------------------------------------------------------
(***************************************************************************)
(* Properties.                                                             *)
(***************************************************************************)
SyncNames == {id.name : id \in Resolutions} \cup {NoName}

SyncTypeOK ==
    /\ boot \in {"caches", "open", "listing", "accepted", "ready", "noAnswer", "jobFailed"}
    /\ listed \subseteq Pods
    /\ todo \subseteq PodObjects
    /\ making # Nil =>
          /\ making \in [obj : PodObjects, name : SyncNames, at : Nat]
          /\ making.at \in DOMAIN Containers(making.obj.pod)
          /\ making.name = NoName => ThroughJob(Owners(making.obj))
    /\ Submitted \subseteq Records
    /\ \A c, d \in snapshot : c.dn = d.dn => c = d
    /\ job \subseteq Submitted
    /\ rejected \subseteq {c.image : c \in snapshot}
    /\ unanswered \subseteq Records
    /\ main = "up" => boot \in {"ready", "noAnswer", "jobFailed"} /\ ~syncing

\* Every variable has its type, the records have each a name of its own, and the
\* workers start only after the gate is open and the job has come to its end.
BootTypeOK == TypeOK /\ SyncTypeOK

\* Between the gate, the list and the handlers no pod is lost: a reportable pod of
\* which the handlers have been told is in the queue, is processed, or was or will be
\* listed; also when it is notified late, in the middle of the sync, or after a
\* restart, and whatever becomes of the job.
GateLosesNothing ==
    Serving =>
        \A k \in Keys :
            LET obj == indexer[k]
            IN  (obj # Nil /\ ~Undelivered(k)) =>
                    \/ ~Reportable(obj) \/ obj.pod \in replaced \cup doomed
                    \/ boot \in {"caches", "open"} \/ obj.pod \in listed
                    \/ Outstanding(CreatedEvent(k))
                    \/ <<Created, obj.pod>> \in handled

\* The caches suppress a report only if the API has answered for the record, with the
\* exception of those that processSyncEvents submitted to a job that this process has
\* no answer of (a conflict or an end of the wait): a job that failed, one that is still
\* pending and the jobs of earlier processes suppress nothing.
CachedWasAnswered ==
    \A r \in observed :
        \/ r \in applied \cup refused
        \/ r.digest \in missing
        \/ boot = "noAnswer" /\ r \in Submitted

\* The API was asked for every digest that the caches hold to be unknown to it:
\* errors that name images never suppress reports about another digest.
UnknownIsMissing == unknown \subseteq missing

\* A CREATED event that counts as processed has had each container of its pod
\* answered for, in this process or an earlier one, or cached by a job of which no
\* answer came; no error of one container is lost behind the success of another.
HandledMeansAccounted ==
    \A p \in {q \in Pods : HasSupportedOwner(PodInfo[q].owners)} :
        <<Created, p>> \in handled =>
            \A i \in DOMAIN Containers(p) :
                LET digest == Containers(p)[i].digest
                IN  \/ digest \in missing \cup {NoDigest}
                    \/ \E r \in applied \cup refused \cup unanswered :
                            /\ r.status = "deployed" /\ r.digest = digest
                            /\ r.dn \in ReportedAs[p][i]

\* The comment in processSyncEvents on a job that failed: its records are not cached,
\* as "suppressing re-posts would delay self-healing".  So a pod of a failed job is
\* posted again: once the workers run, its event is outstanding or processed.
FailedJobHeals ==
    main = "up" /\ boot = "jobFailed" =>
        \A p \in listed :
            \/ ~Present(p) \/ Undelivered(Key(p)) \/ p \in replaced
            \/ Outstanding(CreatedEvent(Key(p)))
            \/ <<Created, p>> \in handled
=============================================================================
