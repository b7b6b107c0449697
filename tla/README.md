# deployment-tracker in TLA+

TLA+ models of the deployment-tracker controller, TLC configurations that check
them on small clusters, and theorems checked by TLAPS. Paths below are relative
to the repository root.

## 1. The system

The program watches the pods of a cluster and keeps the *deployment records* of
an API up to date: a record says that a deployment name runs an image digest
(`deployed`) or no longer does (`decommissioned`).

```
 cluster --watch--> informers --notifications--> handlers --Add--> work queue
                       |                                             | Get/Done
                  listers, indexer --Resolve/IsActive/GetByKey--> workers (n)
                                                                     | PostOne
      observedDeployments, unknownArtifacts (TTL caches) <-----------+--> API
```

| Component | State | Operations | Hard part |
|---|---|---|---|
| Notification handlers (`internal/controller/controller.go`, `New`) | `syncing` gate | AddFunc, UpdateFunc, DeleteFunc | what is never notified again must not be missed; short Jobs |
| Work queue (client-go) | queue, dirty and processing sets, delayed items | Add, Get, Done, AddRateLimited, ShutDown | an item added while it is processed; retries; shutdown |
| Workers (`controller.go`, `reporting.go`) | the event, pod, workload and container at hand | processNextItem, processEvent, recordContainer | two workers at one workload; stale reads; one container of several failing |
| Caches (`reporting.go`) | `observedDeployments`, `unknownArtifacts` | Get, Set, Delete, expiry | check-then-act, Set and Delete as two steps, expiry at any time |
| Workload resolver (`internal/workload`) | reads the listers | Resolve, IsActive | listers change between two calls; Jobs deleted before their pods |
| Start-up sync (`controller.go`, `Run`; `reporting.go`, `processSyncEvents`) | gate, caches, records submitted | makeSyncRecords, CreateClusterJob, WaitForClusterJob, cache fills | job outcomes, order of pods, handlers running meanwhile |
| API client (`pkg/deploymentrecord/client.go`) | `rateLimitDeadline`, shared by all calls | PostOne, CreateClusterJob, WaitForClusterJob, doWithRetry, setRetryAfter | lost and late requests; two callers that record a rate limit at once; the end of the context in every wait |
| Metadata aggregator (`internal/metadata`) | queue and visited set of a search | breadth-first search of owners | ownership cycles, missing owners, tag limit |
| Records, image references (`record.go`, `pkg/ociutil`) | none | pure functions | boundary cases |
| Process (`cmd/deployment-tracker/main.go`) | signal, context | start, signal, exit | work in flight when the process ends |

What makes each part correct:

* handlers and queue: no reportable pod and no deletion is lost, and no event is
  processed by two workers at once;
* workers and caches: an event counts as processed only if every container was
  answered for; a cache entry always stands for something the API applied; the
  two keys of a record are never both cached;
* resolver: a pod deletion is told from the end of its workload;
* start-up sync: one record per deployment name, and caches filled only from what
  was (or may have been) accepted;
* client: every call returns; one that returns without error was applied; the
  shared rate-limit deadline covers what every answer asked for and is never
  shortened;
* metadata: the search ends, visits what can be reached and prefers the tag of the
  nearest owner.

## 2. The modules

| Module | Models |
|---|---|
| `WorkQueue` | the client-go rate-limiting queue as the controller uses it (a dependency, modelled from its use) |
| `Workload` | `internal/workload`: `Resolve`, `IsActive` and the owner-reference helpers, as operators over a lister's contents |
| `Controller` | cluster as seen by the informers, handlers, workers, caches, the API and the life of the process; EXTENDS the two above |
| `ApiCall` | abstract: what a call of the API promises its caller |
| `ApiClient` | `pkg/deploymentrecord/client.go`: the retry loop of several goroutines with their shared deadline, and the calls built on it; implements `ApiCall` |
| `SyncRecords` | the body of `makeSyncRecords`' loop, as operators |
| `Snapshot` | `makeSyncRecords` as a program over pods listed in any order; EXTENDS `SyncRecords` |
| `Startup` | the controller with `BulkClusterSync`: gate, listing, job, cache fills, crash and restart; EXTENDS `Controller` and `SyncRecords` |
| `Metadata` | `internal/metadata`: the search through a pod's owners |
| `ControllerProofs` | theorems on `Controller`: types, queue, caches, and that it implements `ApiCall` |
| `AccountingProofs`, `ReportingProofs` | theorems on `Controller`: no pod is lost; what the workers report. Each EXTENDS the one before |
| `StartupProofs` | theorems on `Startup`, from those above |
| `ApiClientProofs`, `SnapshotProofs`, `MetadataProofs` | theorems on the module of the name |
| `MCRollout`, `MCReuse`, `MCJobs`, `MCStartup` | small clusters for `Controller` and `Startup` |
| `MCClient`, `MCSnapshot`, `MCMetadata` | small instances of the other three |

How they compose: the workers' post is not modelled twice. `Controller` keeps of
`doWithRetry` only that a request may be applied without an answer or long after
the call; `ApiClient` has the loop itself. Both are shown to be behaviours of
`ApiCall` under a refinement mapping (`KeepsContract` in each module), so what the
controller assumes of a post is what the client delivers. `Startup` adds its
variables to those of `Controller` and lets the handlers, the workers and the API
run while the sync does.

### State and code

`Controller`:

* `indexer` is the pod informer's store, `notes` what the informer has not yet
  handed to the handlers, `lister` the workload objects of the five listers.
  The two are updated independently, as separate watches are.
* A pod *object* is `[pod, phase, deleting]`. What never changes (namespace,
  name, owners, containers and digests) is in `PodInfo`. A Kubernetes name that
  is taken apart at dashes is the sequence of its parts, and `Numerals` are the
  parts made of digits.
* `pc[w]` is where worker `w` is. One step of the model runs to the next point
  where another goroutine or the API can interfere: the lookup in the indexer,
  `Resolve`, which for a Job that is gone reads a second lister after the first
  (`FindNoJob`, `TryCronJob`), `IsActive`, the look at the caches before the post, the post, the
  `Set` and the `Delete` of the cache (two steps, since two locks are taken),
  and the `AddRateLimited`/`Done` at the end. The two
  look-ups before the post, between which the code only compares, are taken as
  one step: the post that follows is what makes their answers stale.
* A worker that posts is at `posting` until the API has applied the record, then
  at `answered` until the answer arrives. `AnswerLost` and `RequestDelayed` are
  what `doWithRetry` cannot tell apart: a request that was applied without an
  answer, and one that may be applied after the worker has given up on it
  (`late`). `PostNotFound`, `PostClientError`, `PostFailed` and `PostOk` are the
  four outcomes of `PostOne`.
* `observed` holds records: the key `CREATED||dn||digest` is the record
  `[dn, digest, "deployed"]` and the DELETED key is its `Opposite`.
* Time: an entry of a cache may expire in any state (`Expire`), the delay of a
  retry may end in any state (`RetryDelayEnds`).
* `main` is how far `Run` and `main()` are: syncing, up, cancelled (a signal has
  cancelled the context), returned (`ShutDown` was called), exited; or failed, when
  the caches were not synced.
* `born`, `replaced`, `doomed`, `applied`, `refused`, `missing` and `handled` are
  history variables; no guard of the program reads them except that a pod is seen
  only once (`born`). `doomed` are the pods that were first seen Running while they
  were being deleted already.

`ApiClient`:

* One pass of `doWithRetry` is `Backoff` (`waitForBackoff`), `ReadDeadline` and
  `Sleep` (`waitForServerRateLimit`, which reads the shared deadline once),
  `Send` (the throttler), then an answer: `Apply` and `Success`, `Rejected`,
  `RequestFails`, or `RateLimited`. `setRetryAfter` is three steps:
  `RateLimited` computes the deadline, `LoadDeadline` loads the shared one and
  `SwapDeadline` is the compare-and-swap.
* `RateLimitDelay` is `parseRateLimitDelay`: the largest of the delays the
  headers ask for, a minute if there are none. Headers that do not parse count
  as absent.
* `cancelled` is the process's context, `timedOut` the five-minute context of
  the caller that waits for a job. `asked` is history: what the answers of this
  call have asked for.
* Backoff, throttling and the pause between two polls take any time.
* `Outcome` is what each method makes of an answer: PostOne's errors,
  CreateClusterJob's conflict and not-found, everything else.

`Startup`: `boot` is how far `Run` is between the cache sync and the start of the
workers. `OpenGate` and `ListPods` are separate, so that notifications come between
them. `makeSyncRecords` runs pod by pod and container by container: `todo` are the
listed pods not reached, `SkipPod` and `TakePod` resolve one of them by what the
listers hold at that moment, `NameWithoutJob` is the second lister as for the
workers, and `TakeContainer` puts a candidate in `snapshot`.
`CreateAccepted`, `CreateConflict`, `CreateNotFound` and `CreateFails` are
the outcomes of CreateClusterJob (the job of a conflict may be that of an earlier
attempt whose answer was lost: its records may yet be applied), `JobCompleted`, `JobFailed` and `WaitFails` of the wait.
`JobApplies` and `JobRejects` are the API working on the job. `Restart` is a crash at
any point, or a restart after the end: informers, queue, workers and caches start
empty, requests in flight may still be applied, the API keeps what it has, and the
exemptions `replaced` and `doomed` start anew.

`Snapshot`: `view` are the pods as listed, `winners` what the map of
`makeSyncRecords` holds. `Metadata`: `Visit` and `Skip` are a round of the search's
loop, `OwnerFetched` and `OwnerMissing` a round of the loop over the references of
the `current` object, of which `refs` are left. What an object refers to and which
of those owners can be had is chosen when it is visited, hence every graph of owners
and every pattern of failed GETs is explored; `edges` is the history of it.

Abstracted: image names (except in `Startup`, where a job names its errors by
them), logging and metrics, the wording of errors. The digests of the containers
of a Pending pod are unknown (those of init containers are known), those of any
other pod known. In the runs of `Controller` alone `syncing` stays FALSE: a
controller without `BulkClusterSync`.

## 3. What is checked

| Run | Instance | Properties | Distinct states |
|---|---|---|---|
| `rollout` | 2 workers; 2 pods of one Deployment with digests d1, d2; 1 failure | CreateDeleteExclusive, CachedWasApplied, CreatedAccountedFor, DeletedAccountedFor, HandledMeansReported | 544 000 |
| `reuse` | 2 workers; a StatefulSet pod and its successor under the same name, with digests d1, d2; Pending, Running; 1 failure | SingleFlight, CreatedAccountedFor, DeletedAccountedFor, HandledMeansReported, KeepsContract | 561 000 |
| `jobs` | 2 workers; a pod of a Job of a permanent CronJob and an unowned pod of the same name; Pending, Running, Succeeded; deletion timestamps; 1 signal or failed cache sync | CreatedAccountedFor, PermanentStaysDeployed, StableIdentity | 476 000 |
| `live` | 2 workers; a StatefulSet pod with an init container; Pending, Running; 1 failure; fairness | TypeOK, HandledMeansReported, CreatedHandled, DeletedHandled | 69 000 |
| `client` | 2 callers, one posts and one polls a job; 1 retry; clock up to 2; fairness | TypeOK, DeadlineCovers, DeadlineMonotone, OwnRateLimitRespected, KeepsContract, CallsReturn | 360 000 |
| `startup` | 1 worker; 1 pod of a Deployment that stays, whose main and init container run two digests of one image; 1 failure; 1 crash, signal or failed cache sync | BootTypeOK, GateLosesNothing, CachedWasAnswered, UnknownIsMissing, HandledMeansAccounted, PermanentStaysDeployed | 546 000 |
| `snapshot` | 3 pods, 3 creation times, 5 lists of containers, symmetric | TypeOK, SnapshotComplete, UniqueTargetWins | 124 000 |
| `metadata` | a pod and 4 owners, up to 2 references per object; limit of 3 tags | TypeOK, Complete, NearestWins, Terminates | 50 000 |
| `rollback` | 1 worker; 3 pods of a Deployment: d1, d2, d1 | SuppressedIsRedundant, violated | |
| `shutdown` | 1 worker, 1 pod, 1 signal | ShutdownDrains, violated | |
| `failedjob` | as `startup` | FailedJobHeals, violated | |
| `order` | 3 pods, 3 creation times, one container each with digest d1 or d2 | NewestRunningWins, violated | |

The properties of the controller:

* **SingleFlight**: no two workers hold the same event. It takes two workers and an
  event that is added again while one of them processes it, as in
  `reuse`: the second pod takes the name of the first, so its event is the same.
* **CreateDeleteExclusive**: the CREATED and the DELETED key of a record are not
  both cached unless a worker is between its Set and its Delete. If they stayed
  both cached, both kinds of report would be suppressed.
* **CachedWasApplied**: whatever is suppressed as already observed was applied.
* **CreatedAccountedFor, DeletedAccountedFor**: once the notifications about a key
  are delivered, a reportable pod (a deletion) is outstanding in the queue or has
  been processed without error. A pod that is being deleted is reportable too: the
  pod of a short Job may get its deletion timestamp before the controller has seen
  it Running (`controller.go:231-237`). Two kinds of pods are excepted: those seen *in
  place of* another pod after a relist, as `UpdateFunc` compares phases and not UIDs
  (`replaced`); and those first seen Running with a deletion timestamp already set,
  which `UpdateFunc` passes over on purpose (`doomed`).
* **HandledMeansReported**: a CREATED event counts as processed only if each
  container with a digest was applied or refused by the API, or is unknown to it.
* **PermanentStaysDeployed**: a workload that exists throughout is never
  decommissioned. That is what waiting for the caches and `IsActive` are for.
* **StableIdentity**: all records about a container, deployed and decommissioned,
  carry one deployment name, although the Job between a pod and its CronJob may be
  there for one worker and gone for another. This rests on the fallback on the
  generated Job name, and holds as long as the CronJob stays.
* **CreatedHandled, DeletedHandled**: every such event is eventually processed.
* **KeepsContract**: a record is not changed while it is posted, and is cached
  only in a call that the API accepted.

Of the client:

* **DeadlineCovers, DeadlineMonotone**: no rate-limit answer is lost when two
  callers record theirs at once, and none shortens what another has recorded.
* **OwnRateLimitRespected**: no caller sends before its own answers allow. (Of the
  answers of *others* the code does not guarantee it, see below.)
* **KeepsContract**: a call that ends without error was applied.
* **CallsReturn**: retries, compare-and-swap, sleeps and polls all end.

Of the start:

* **GateLosesNothing**: between the gate, the listing and the handlers no
  reportable pod is lost, whenever its notification is delivered, whatever
  becomes of the job, and after a restart. That needs the order of `Run`: first
  the gate, then the listing.
* **CachedWasAnswered**: what the caches suppress, the API has answered for, except
  the records this process submitted to a job it has no answer of. A job that failed,
  one still pending and the jobs of an earlier process suppress nothing. (The comment
  at `internal/controller/reporting.go:364-366` does count "job failure" among the
  cases in which the caches are filled from what was submitted; see below.)
* **UnknownIsMissing**: errors that name images never suppress reports about
  another digest of the same image.
* **HandledMeansAccounted**: HandledMeansReported with what a job answered for.
* **SnapshotComplete, UniqueTargetWins**: one record with a digest per deployment
  name, none missing; a newest running pod alone with its digest is always
  chosen, in every order of the listing.

Of the metadata: **Complete** (what is reachable through the successful GETs is
visited, and nothing else, its risks collected, a tag left out only at the limit),
**NearestWins** and **Terminates**, over all graphs with cycles and diamonds.

### Statements the code does not live up to

* `rollback`: `observedDeployments` is documented as a "best effort cache to avoid
  redundant posts" (`internal/controller/controller.go:88`). Reporting d1, then
  d2, then d1 again within two minutes suppresses the third report, as only the
  DELETED key *of the same digest* is removed by a post. The API keeps d2 although
  all pods run d1. `SuppressedIsRedundant` asks that a suppressed report be one
  the API already holds, when all pods of that name run that digest.
* `shutdown`: `README.md:19` promises "Properly drains work queue before
  terminating". `Run` calls `ShutDown` and returns without waiting for its
  workers, and `main` returns.
* `failedjob`: `processSyncEvents` leaves the caches alone when a job failed, as
  "suppressing re-posts would delay self-healing". But the pods of that job were
  kept out of the queue by the gate, and nothing posts them again: the informers do
  resync every 30 seconds (`internal/controller/controller.go:417`), but `UpdateFunc`
  enqueues only a change of phase.
* `order`: `makeSyncRecords` picks "the newest running pod so the snapshot
  reflects the rollout target". A pod that runs the digest already chosen is
  skipped without a look at its age, and the winner keeps the age of the pod it
  came from. Of three running pods, d1 created at 1, d1 created at 3 and d2 created
  at 2, listed in that order, d2 is submitted; with the newest listed first it is d1.

Three more, which need no run. The comment at `pkg/deploymentrecord/client.go:485-486`
says that `waitForServerRateLimit` "blocks until the global server rate limit backoff
has elapsed. All workers sharing this client observe the same deadline". It reads the
deadline once: a worker that sleeps when another one's answer extends the deadline
wakes at the old one and sends. What does hold is `OwnRateLimitRespected`. The other
two are about a job that failed. The comment at
`internal/controller/reporting.go:193` says the unknown artifacts are filled from its
errors, and the one at `internal/controller/reporting.go:364-366` that
`fillCachesFromSubmitted` is used for "409 conflict, wait timeout, job failure". The code
(lines 190-198) returns without filling either cache, which is what the longer comment
at line 191 asks of the first; the model follows the code, and CachedWasAnswered states
the rule that it keeps.

### Bounds

* `MaxBacklog = 1`: notifications the informer holds back. Handlers do nothing but
  add to the queue; a longer backlog only delays an `Add`. What the cluster does
  is unconstrained otherwise: the backlog only slows it down.
* `MaxFailures = 1` (0 in `jobs`): requests refused,
  failed, lost or delayed, and records a job rejects. One is enough for an error on
  the first, second or last container, for a retry that meets newer events, and for
  one request that is applied late. A delayed request and a call that is given up in
  the same behaviour need two, which only the proofs cover: they are for any number.
* `MaxCancels`: 0, or 1 in `jobs`, `shutdown`, `startup` and `failedjob`. It bounds signals,
  failed cache syncs and, in `Startup`, restarts together.
* Pods are seen once each by a process, so that their number bounds the history.
  Two pods under one key give reuse of a key while it is processed; two pods of
  one Deployment give both orders of their events and workload removal in between.
  `Startup` has one pod: the order of the listing is the subject of `Snapshot`.
* `client`: `MaxTime = 2` and `Retries = 1` give two rate-limit answers with
  different deadlines, recorded by two callers in every order, a sleep that a
  later deadline overtakes, and a retry that is the last one. The real client
  retries three times (`client.go:77`); the loop carries nothing from one attempt to the next but
  its number. A rate-limit answer that would put the deadline past the clock's
  bound does not happen.
* `Workers` is a symmetry set in the safety runs of `Controller` (the workers are
  the same code), `Pods` in those of `Snapshot`; none in runs with liveness.

CHECK_DEADLOCK stays on except in the runs of `Startup`: the process has an
explicit stuttering step after its end, and before it some step is possible. In
those runs the system really comes to rest: its one pod has been seen and is gone,
and the workers wait for an event for ever.

### Fairness

`FairSpec` of `Controller` assumes weak fairness of the delivery of notifications,
the end of a retry's delay, the start of the workers once the caches are synced,
and each worker: all are goroutines that the Go scheduler runs, and every request
ends by an answer or by the 30-second timeout of the HTTP client
(`internal/controller/controller.go:46`). Nothing is assumed of the
cluster, of expiry or of signals. As failures are bounded, the liveness properties
say that events are processed *provided that* requests eventually succeed.

`FairSpec` of `ApiClient` assumes that each caller takes a step when it can (the
same two reasons), that the clock advances up to its bound, and that the five
minutes of a job end. No answer of a particular kind need ever come: `CallsReturn`
holds even if the API only ever fails. `Metadata` assumes that its loop runs: each
GET returns or fails.

## 4. What is proved

For every value of the constants that satisfies the assumptions below:

| Module | Theorem | Property |
|---|---|---|
| `ControllerProofs` | `TypeCorrect` | `Spec => []TypeOK` |
| | `EventsSingleFlight` | `Spec => []SingleFlight` |
| | `CacheExclusive` | `Spec => []CreateDeleteExclusive` |
| | `CacheJustified` | `Spec => []CachedWasApplied` |
| | `PostsImplementContract` | `Spec => KeepsContract` |
| `AccountingProofs` | `NoPodLost` | `Spec => []CreatedAccountedFor` |
| | `NoDeletionLost` | `Spec => []DeletedAccountedFor` |
| `ReportingProofs` | `NothingUnreported` | `Spec => []HandledMeansReported` |
| | `PermanentNeverDecommissioned` | `DistinctNames` implies `Spec => []PermanentStaysDeployed` |
| | `IdentityStable` | `NamesIdentify` and `CronJobsStay` imply `Spec => []StableIdentity` |
| `StartupProofs` | `BootTypeCorrect` | `BootSpec => []BootTypeOK` |
| | `BootSingleFlight` | `BootSpec => []SingleFlight` |
| | `GateLosesNoPod` | `BootSpec => []GateLosesNothing` |
| | `BootCacheAnswered` | `BootSpec => []CachedWasAnswered` |
| | `BootUnknownMissing` | `BootSpec => []UnknownIsMissing` |
| | `BootNothingUnreported` | `BootSpec => []HandledMeansAccounted` |
| | `BootPermanentNeverDecommissioned` | `DistinctNames` implies `BootSpec => []PermanentStaysDeployed` |
| | `BootIdentityStable` | `NamesIdentify` and `CronJobsStay` imply `BootSpec => []StableIdentity` |
| `ApiClientProofs` | `TypeCorrect` | `Spec => []TypeOK` |
| | `RateLimitsRecorded` | `Spec => []DeadlineCovers` |
| | `NeverShortened` | `Spec => DeadlineMonotone` |
| | `OwnLimitsRespected` | `Spec => OwnRateLimitRespected` |
| | `ImplementsContract` | `Spec => KeepsContract` (of `ApiClient`) |
| | `AcceptedCallsApplied` | `Spec => []Contract!AcceptedWasApplied` (of `ApiClient`) |
| `SnapshotProofs` | `TypeCorrect` | `Spec => []TypeOK` |
| | `NothingMissing` | `Spec => []SnapshotComplete` |
| | `TargetWins` | `Spec => []UniqueTargetWins` |
| `MetadataProofs` | `TypeCorrect` | `Spec => []TypeOK` |
| | `SearchComplete` | `Spec => []Complete` |
| | `NearestValueWins` | `Spec => []NearestWins` |

### Assumptions

All are named in the module that declares the constants, and TLC evaluates them in
each run. For `Controller`: pods have a non-empty sequence of containers; owner
references have a name (`OwnersAssumption`; the API server refuses one without);
the template has a placeholder (what `ValidTemplate` checks); the permanent
workloads are workloads; `Stamps` are Booleans; `Nil` is not a pod object, event or
record; the bounds are naturals. For `ApiClient`: callers call the client's methods
and times are naturals. For `Snapshot`: pods have a non-empty sequence of
containers. For `Metadata`: there are finitely many objects and annotations, and
keys are ordered (they are naturals).

Three premises are stated by the theorems that need them and are not assumptions of
the model, since the code does not enforce them:

* `DistinctNames`: no other workload has the deployment names of a permanent one.
  A template may omit `{{namespace}}`, and two workloads of different kinds may share
  a name. Then deleting one does decommission the name of the other.
* `NamesIdentify`: the same for any two workloads of pods.
* `CronJobsStay`: a Job that owns a pod has the name its CronJob generates and that
  CronJob stays, or it belongs to no CronJob. A Job made by hand of a CronJob
  (`kubectl create job --from`) is resolved to the CronJob while it exists and to
  itself when it is gone, so StableIdentity does not hold of it.

The clusters of the runs that check these properties satisfy them: `MCJobs` and
`MCStartup` say so (ASSUME).

### The arguments

* `Controller`. `TypeOK` contains `WorkerOK`: a worker at a given step has an
  event, a pod, a workload and a container index in range. `TypeOK` is not
  inductive alone: that the event `FinishEvent` gives back is one the queue
  handed out needs `QueueSound`: the queue's sets go together (`QueueConsistent`), what
  is being processed is what the workers hold, and `SingleFlight`. The two together
  are inductive (`InitTypes`, `NextTypes`). There is one lemma per group of actions
  (`ClusterStep`, `DeliverStep`, `GetEventStep`, `FindingSteps`,
  `RecordContainerSteps`, `NetworkStep`, `LifecycleStep`, ...), and one per operation
  of the queue (`AddProperties`, `FinishProperties`, ...).
* `CacheExclusive`: a record enters the cache only in `PostOk`, which puts the
  worker at `invalidate`; it leaves that step only by removing the opposite record
  (`ObservedChanges`, `OthersKeep`). Hence a pair of opposite entries always has a
  worker that is about to remove one of them.
* `CacheJustified`: strengthened to `AnsweredWasApplied`: the record of a worker
  at `answered` was applied. `applied` only grows and only `PostOk` caches.
* `PostsImplementContract`: a step of a worker changes the phase and the request of
  that worker only (`WorkerMoves`), and each is a step of `ApiCall` or a stutter
  (`WorkImplements`, `NetworkImplements`). It needs `TypeOK`: what is posted is a
  record.
* `NoPodLost`, `NoDeletionLost` rest on `Accounting`. The properties speak of a moment
  when all notifications about a key are delivered; the invariants `CreatedInv` and
  `DeletedInv` say where the obligation is at any moment: in a notification that
  `UpdateFunc` or `AddFunc` will act on, in the queue or waiting for a retry, with a
  worker that will look the pod up or has it, or in `handled`. A step of the cluster
  that makes a pod reportable adds a notification that announces it, and each later
  step hands the obligation on or, at a lookup, renews it with the pod as it is now.
  `FollowInv` ties a worker's pod to its event, and `HandlersOpen` says that the queue
  still takes what the handlers add.
* `NothingUnreported` rests on `Reporting(known)`: for a worker without an error, all
  containers left behind are accounted for (`LoopInv`); so is all that the caches
  suppress (`CacheInv`) and what is in `handled` (`HandledInv`); and the workload at
  hand is one that `Resolve` gave (`ResolvedInv`). `known` is what the API answered for:
  as a parameter it lets `StartupProofs` use the same lemmas with the records that
  a job carried.
* `PermanentNeverDecommissioned`: workers run only on caches that hold the permanent
  workloads (`CachesSynced`), so a worker that is past `CheckActive` with a deletion
  has an identity that is none of theirs (`PermanentInv`), and by `DistinctNames` a
  deployment name that is none of theirs.
* `IdentityStable`: what a worker reports was resolved from a synced lister
  (`SyncedInv`), and with `CronJobsStay` all of those give a pod one workload
  (`OneWorkload`, `JobResolves`), the fallback on the generated name included.
  Any other lister would give that one or the bare Job, which, by `NamesIdentify`, no
  pod of another Job goes by.
* `Startup`: each step of `BootNext` is a step of the controller whose effect the lemmas
  of the modules before cover, or one of `Run`. `SyncInv` adds how `boot`, `main`, the
  gate and the job go together. `BootCacheAnswered` and `BootNothingUnreported` need
  `JobInv`: while a job is waited for, each record submitted is still in the job or has
  an answer, and an image name in an error stands for a digest the API does not know.
  They use `CacheInv` with two parameters: what may ever have been posted or submitted
  (`Known`), for the pods that were processed, and what may be in the caches now
  (`Suppressible`: what was answered for, and what was submitted if no answer came).
  `GateLosesNoPod` needs `GateInv`: from the listing on, a reportable pod is in the list
  or its obligation is where `CreatedInv` says. `BootPermanentNeverDecommissioned`
  covers restarts: a request in flight at a crash becomes `late`, and it was the record
  of a worker for which `PermanentInv` held; `BootSynced` is that invariant for all
  processes. `BootIdentityStable` adds to the invariant of `IdentityStable` that the pod
  that makeSyncRecords is at was resolved from a synced lister, or is past the Job lister,
  which did not have its Job (`MakingNamed`), and that all that was submitted has a name
  found so (`SubmittedNamed`).
* `RateLimitsRecorded` rests on `DeadlineInv`, which adds to DeadlineCovers that a
  caller at `swap` has loaded an earlier deadline than the one it wants to store.
  `NeverShortened` follows from the same invariant.
* `OwnLimitsRespected` rests on the other conjuncts of `WaitsLongEnough`: a caller
  that sleeps does so until a time not before what it was asked, and one past the
  sleep has reached that time. The deadline it reads covers its own answers by `DeadlineCovers`.
* `ImplementsContract`: each step of a call is a step of `ApiCall` or a stutter
  (`StepImplements`, with `PostingStep` and `AnsweredStep` for the two phases of a
  call that is not idle). It needs `TypeOK`: a caller has a request exactly when
  it is not idle.
* `AcceptedCallsApplied` is what the callers rely on, of the client itself: from a 2xx
  answer until the call is sent again or left, `applied` has its request (`StepApplied`).
* `NothingMissing` and `TargetWins` rest on `TypeOK`, which says that each winner
  is a candidate the loop has considered, and on `CollapseProperties`: a round of
  the loop keeps the winners unique and with a digest (`Collapsed`), and never
  leaves a name without one. That preference is strict (`PreferenceIsStrict`)
  gives TargetWins.
* `Metadata`, the tags: `TagsAdded` says what a round over an object's annotations adds.
  It counts: the first m of a set of keys are at most m (`FirstBounded`), and m unless
  they are all (`FirstFilled`).
* `SearchComplete` rests on `SearchInv`: an owner that could be fetched is visited, in
  the queue, or among the references still to look up. When nothing is left, the
  visited objects are closed under owners, hence hold all that is reachable.
* `NearestValueWins` rests on `Bfs(d, lev)`: there are labels of the visited objects
  and of the queue's entries by which the queue is sorted and spans two levels at
  most. The labels are not in the model; the invariant says that they exist, and each
  step gives the next ones (`BfsVisits`, `BfsSkips`, `BfsFetches`, `BfsMisses`).
  `NearLabels` shows that they are the distances of the reference definition `Near`, a
  recursive function. That a function satisfies its recursion is shown by giving one,
  made of the paths from the pod (`WithinRecurs`), and induction over its argument
  by a least counterexample (`LeastElement`).

### Only model-checked

The liveness properties CreatedHandled, DeletedHandled, CallsReturn and Terminates:
fairness and ENABLED are beyond the prover. So are, by their nature, the four
violated statements.

## 5. Not modelled

* Image names, the syntax of digests, records (`record.go`, `pkg/ociutil`): pure
  functions on strings; a record is its deployment name, digest and status.
* Metrics: counters the program never reads.
* Flags, configuration, keys and the template's parsing: input handling without
  state that changes afterwards. Templates that lack a placeholder are excluded
  as in `ValidTemplate`.
* The HTTP transport, the access token and the JSON of requests: I/O. That a token
  cannot be had is `NotSent`, that an answer cannot be parsed is a branch of
  `Success`.
* Overflow of a `Retry-After` header that is too large for a duration: times are
  unbounded naturals.
* Manifests, Dockerfile, Makefile: static.

## 6. What is left

* Each safety property that a run checks is a theorem. StableIdentity is proved of
  `Startup` and checked of `Controller` only: the pod of `startup` belongs to a
  Deployment, whose name does not depend on the listers. Not stated of `Startup`, neither
  as a run's property nor as a theorem, are CreateDeleteExclusive and KeepsContract:
  the fills of the caches put records there that no worker posted, so that they would
  need to be stated for it anew.
* The hazards without a property (`PROJECT.json`), most of them about values that are
  not in the model: names that collide, durations that overflow, an order of posts
  that the API cannot tell.
