------------------------------ MODULE WorkQueue ------------------------------
(***************************************************************************)
(* The typed rate-limiting work queue of client-go, as controller.go uses  *)
(* it (it is a dependency, not code of this repository).  The queue holds  *)
(* an item at most once; an item added while a worker holds it is handed   *)
(* out again only after that worker calls Done.                            *)
(***************************************************************************)
EXTENDS Naturals, Sequences

VARIABLES
    queue,       \* the items ready to be handed out, oldest first
    dirty,       \* the items that still have to be processed
    processing,  \* the items some worker holds, from Get to Done
    waiting,     \* the items AddRateLimited keeps back until their delay ends
    draining     \* ShutDown was called

queueVars == <<queue, dirty, processing, waiting, draining>>

Queued == {queue[i] : i \in DOMAIN queue}
Outstanding(e) == e \in dirty \cup processing \cup waiting

QueueTypeOK(Items) ==
    /\ queue \in Seq(Items)
    /\ dirty \subseteq Items
    /\ processing \subseteq Items
    /\ waiting \subseteq Items
    /\ draining \in BOOLEAN

\* What is queued is what is to be processed and not being processed, once.
QueueConsistent ==
    /\ Queued = dirty \ processing
    /\ \A i, j \in DOMAIN queue : queue[i] = queue[j] => i = j

QueueInit ==
    /\ queue = <<>>
    /\ dirty = {}
    /\ processing = {}
    /\ waiting = {}
    /\ draining = FALSE

(***************************************************************************)
(* Faulty variants of the queue, for the properties below to be tried on.  *)
(***************************************************************************)
\* Add forgets that a worker holds the item and queues it at once.
AddWhileProcessing(e) ==
    /\ IF draining \/ e \in dirty
       THEN UNCHANGED <<queue, dirty>>
       ELSE /\ dirty' = dirty \cup {e}
            /\ queue' = Append(queue, e)
    /\ UNCHANGED <<processing, waiting, draining>>

\* Add drops an item a worker holds, as a queue without a dirty set does.
AddDropsHeld(e) ==
    /\ IF draining \/ e \in dirty \cup processing
       THEN UNCHANGED <<queue, dirty>>
       ELSE /\ dirty' = dirty \cup {e}
            /\ queue' = Append(queue, e)
    /\ UNCHANGED <<processing, waiting, draining>>

\* An event that failed is queued again but Done is not called for it.
FinishWithoutDone(e, retry) ==
    /\ waiting' = IF retry /\ ~draining THEN waiting \cup {e} ELSE waiting
    /\ processing' = IF retry THEN processing ELSE processing \ {e}
    /\ queue' = IF e \in dirty /\ ~retry THEN Append(queue, e) ELSE queue
    /\ UNCHANGED <<dirty, draining>>

(***************************************************************************)
(* Operations.                                                             *)
(***************************************************************************)
Add(e) ==
    /\ IF draining \/ e \in dirty
       THEN UNCHANGED <<queue, dirty>>
       ELSE /\ dirty' = dirty \cup {e}
            /\ queue' = IF e \in processing THEN queue ELSE Append(queue, e)
    /\ UNCHANGED <<processing, waiting, draining>>

Get(e) ==
    /\ queue # <<>>
    /\ e = Head(queue)
    /\ queue' = Tail(queue)
    /\ dirty' = dirty \ {e}
    /\ processing' = processing \cup {e}
    /\ UNCHANGED <<waiting, draining>>

\* [retry] AddRateLimited(e); then the deferred Done(e).
Finish(e, retry) ==
    /\ waiting' = IF retry /\ ~draining THEN waiting \cup {e} ELSE waiting
    /\ processing' = processing \ {e}
    /\ queue' = IF e \in dirty THEN Append(queue, e) ELSE queue
    /\ UNCHANGED <<dirty, draining>>

\* The delay of a rate-limited item ends: it is added like any other item.
DelayEnds(e) ==
    /\ e \in waiting
    /\ waiting' = waiting \ {e}
    /\ IF draining \/ e \in dirty
       THEN UNCHANGED <<queue, dirty>>
       ELSE /\ dirty' = dirty \cup {e}
            /\ queue' = IF e \in processing THEN queue ELSE Append(queue, e)
    /\ UNCHANGED <<processing, draining>>

\* ShutDown: nothing is added any more and delayed items are dropped; what is
\* queued is still handed out.
ShutDown ==
    /\ draining' = TRUE
    /\ waiting' = {}
    /\ UNCHANGED <<queue, dirty, processing>>
=============================================================================
