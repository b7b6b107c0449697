----------------------------- MODULE AccountingProofs -----------------------------
(***************************************************************************)
(* No pod and no deletion is lost between the informer, the queue and the  *)
(* workers: CreatedAccountedFor and DeletedAccountedFor, for any cluster.  *)
(*                                                                         *)
(* The steps that the controller takes with BulkClusterSync too are dealt  *)
(* with in lemmas that do not mention Next, and for any set of pods that   *)
(* are exempt from being reported.                                         *)
(***************************************************************************)
EXTENDS ControllerProofs

(***************************************************************************)
(* The inductive invariant.                                                *)
(***************************************************************************)
\* A notification whose delivery queues the CREATED event of key k.
Announces(n, k) ==
    /\ n.new # Nil /\ Key(n.new.pod) = k
    /\ \/ n.old = Nil /\ Reportable(n.new)
       \/ n.old # Nil /\ BecameReportable(n.old, n.new)

\* A worker whose success will count as the processing of pod p.
Covers(w, k, p) ==
    /\ event[w] = CreatedEvent(k)
    /\ \/ pc[w] = "lookup"
       \/ subject[w] # Nil /\ subject[w].pod = p /\ subject[w].phase # "Pending"

CreatedFollowed(k, p) ==
    \/ \E i \in DOMAIN notes : Announces(notes[i], k)
    \/ CreatedEvent(k) \in dirty \cup waiting
    \/ \E w \in Workers : Covers(w, k, p)
    \/ <<Created, p>> \in handled

\* The pods that UpdateFunc passes over (CreatedAccountedFor).
Exempt == replaced \cup doomed

\* Every pod that is to be reported, but for the exempt ones, is followed up.
CreatedInv(exempt) ==
    \A k \in Keys :
        LET obj == indexer[k]
        IN  (obj # Nil /\ Reportable(obj) /\ obj.pod \notin exempt)
              => CreatedFollowed(k, obj.pod)

IsDeletionOf(e, p) == e.type = Deleted /\ e.pod.pod = p

DeletedFollowed(p) ==
    \/ \E i \in DOMAIN notes :
          notes[i].new = Nil /\ notes[i].old # Nil /\ notes[i].old.pod = p
    \/ \E e \in dirty \cup waiting : IsDeletionOf(e, p)
    \/ \E w \in Workers : event[w] # Nil /\ IsDeletionOf(event[w], p)
    \/ <<Deleted, p>> \in handled

DeletedInv ==
    \A p \in born \ replaced :
        Present(p) \/ ~HasSupportedOwner(PodInfo[p].owners) \/ DeletedFollowed(p)

FollowInv ==
    /\ \A k \in Keys : indexer[k] # Nil => Key(indexer[k].pod) = k
    /\ \A w \in Workers : event[w] # Nil =>
          IF event[w].type = Deleted
          THEN pc[w] # "lookup" /\ subject[w] = event[w].pod
          ELSE pc[w] # "active"

\* While Run waits or works, the queue takes what the handlers put in it.
HandlersOpen == ~syncing /\ (Serving => ~draining)

Accounting ==
    HandlersOpen /\ FollowInv /\ (Serving => CreatedInv(Exempt) /\ DeletedInv)

(***************************************************************************)
(* Data.                                                                   *)
(***************************************************************************)
LEMMA JobOwnerSupported ==
    ASSUME NEW owners, GetJobOwnerName(owners) # NoName
    PROVE  HasSupportedOwner(owners)
BY DEF GetJobOwnerName, OwnerName, HasSupportedOwner, SupportedKinds

\* An update that makes a pod reportable is one that UpdateFunc acts on, unless the
\* pod was reportable before.
LEMMA BecomesReportable ==
    ASSUME NEW old, NEW new, new.pod = old.pod, LegalPhase(old.phase, new.phase),
           Reportable(new), ~(old.phase # "Running" /\ new.phase = "Running" /\ new.deleting)
    PROVE  Reportable(old) \/ BecameReportable(old, new)
<1>1. Owners(old) = Owners(new)
  BY DEF Owners
<1>2. CASE new.phase = "Running" /\ HasSupportedOwner(Owners(new))
  BY <1>1, <1>2 DEF Reportable, BecameReportable
<1>3. CASE IsJobTerminal(new)
  <2>1. HasSupportedOwner(Owners(new))
    BY <1>3, JobOwnerSupported DEF IsJobTerminal
  <2>2. new.phase # "Running"
    BY <1>3 DEF IsJobTerminal, IsTerminalPhase
  <2> QED
    BY <1>1, <1>3, <2>1, <2>2
       DEF Reportable, BecameReportable, IsJobTerminal, IsTerminalPhase, LegalPhase
<1> QED
  BY <1>2, <1>3 DEF Reportable

LEMMA NotesAppended ==
    ASSUME notes \in Seq(Notifications), NEW n \in Notifications, notes' = Append(notes, n)
    PROVE  /\ \A i \in DOMAIN notes : i \in DOMAIN notes' /\ notes'[i] = notes[i]
           /\ \E i \in DOMAIN notes' : notes'[i] = n
<1>1. Len(notes) + 1 \in DOMAIN notes' /\ notes'[Len(notes) + 1] = n
  OBVIOUS
<1>2. \A i \in DOMAIN notes : i \in DOMAIN notes' /\ notes'[i] = notes[i]
  OBVIOUS
<1> QED
  BY <1>1, <1>2

LEMMA NotesTail ==
    ASSUME notes \in Seq(Notifications), notes # <<>>, notes' = Tail(notes)
    PROVE  \A i \in DOMAIN notes :
              notes[i] = Head(notes) \/ \E j \in DOMAIN notes' : notes'[j] = notes[i]
<1> SUFFICES ASSUME NEW i \in DOMAIN notes, i # 1
             PROVE  \E j \in DOMAIN notes' : notes'[j] = notes[i]
  OBVIOUS
<1>1. i - 1 \in DOMAIN notes' /\ notes'[i - 1] = notes[i]
  OBVIOUS
<1> QED
  BY <1>1

LEMMA KeyType ==
    ASSUME NEW p \in Pods
    PROVE  Key(p) \in Keys
BY DEF Keys

(***************************************************************************)
(* The cluster.                                                            *)
(***************************************************************************)
\* What a step of the cluster does to one key, as the notification tells it.
ClusterMoves(k, n) ==
    /\ n \in Notifications
    /\ notes' = Append(notes, n)
    /\ indexer' = [indexer EXCEPT ![k] = n.new]
    /\ n.old = indexer[k]
    /\ n.new # Nil => n.new \in PodObjects /\ Key(n.new.pod) = k
    /\ n.old # Nil /\ n.new # Nil =>
          \/ n.old.pod \in replaced' /\ n.new.pod \in replaced'
          \/ /\ n.new.pod = n.old.pod
             /\ LegalPhase(n.old.phase, n.new.phase)
             /\ (n.old.phase # "Running" /\ n.new.phase = "Running" /\ n.new.deleting)
                   => n.new.pod \in doomed'
    /\ replaced \subseteq replaced' /\ doomed \subseteq doomed'
    /\ \A p \in born' : p \in born \/ (n.new # Nil /\ n.new.pod = p)

LEMMA ClusterCases ==
    ASSUME ClusterTypeOK, FollowInv, Cluster
    PROVE  \/ UNCHANGED <<indexer, notes, born, replaced, doomed>>
           \/ \E k \in Keys, n \in Notifications : ClusterMoves(k, n)
<1>0. Nil \notin PodObjects
  BY NilAssumption
<1>1. ASSUME NEW p \in Pods, NEW phase \in Phases, PodAdded(p, phase)
      PROVE  \E k \in Keys, n \in Notifications : ClusterMoves(k, n)
  <2> DEFINE obj == [pod |-> p, phase |-> phase, deleting |-> FALSE]
             n   == [old |-> Nil, new |-> obj]
  <2>0. obj \in PodObjects /\ Key(p) \in Keys
    BY DEF PodObjects, Keys
  <2>1. n \in Notifications
    BY <1>0, <2>0 DEF Notifications
  <2>2. ClusterMoves(Key(p), n)
    BY <1>0, <1>1, <2>0, <2>1 DEF PodAdded, Notify, ClusterMoves
  <2> QED
    BY <2>0, <2>1, <2>2
<1>2. ASSUME NEW k \in Keys, NEW phase \in Phases, NEW d \in Stamps, PodUpdated(k, phase, d)
      PROVE  \E n \in Notifications : ClusterMoves(k, n)
  <2> DEFINE old == indexer[k]
             new == [old EXCEPT !.phase = phase, !.deleting = d]
             n   == [old |-> old, new |-> new]
  <2>1. old \in PodObjects /\ Key(old.pod) = k
    BY <1>2 DEF PodUpdated, ClusterTypeOK, FollowInv
  <2>2. /\ new \in PodObjects /\ new.pod = old.pod
        /\ new.phase = phase /\ new.deleting = d /\ old.pod \in Pods
    BY <2>1, StampsAssumption DEF PodObjects
  <2>3. /\ LegalPhase(old.phase, phase) /\ doomed \subseteq doomed'
        /\ (old.phase # "Running" /\ phase = "Running" /\ d) => old.pod \in doomed'
        /\ notes' = Append(notes, n) /\ indexer' = [indexer EXCEPT ![k] = new]
        /\ born' = born /\ replaced' = replaced
    BY <1>2 DEF PodUpdated, Notify
  <2>5. n \in Notifications
    BY <1>0, <2>1, <2>2 DEF Notifications
  <2> HIDE DEF new
  <2>6. ClusterMoves(k, n)
    BY <1>0, <2>1, <2>2, <2>3, <2>5 DEF ClusterMoves
  <2> QED
    BY <2>5, <2>6
<1>3. ASSUME NEW k \in Keys, PodRemoved(k)
      PROVE  \E n \in Notifications : ClusterMoves(k, n)
  <2> DEFINE n == [old |-> indexer[k], new |-> Nil]
  <2>1. n \in Notifications
    BY <1>3 DEF PodRemoved, ClusterTypeOK, Notifications
  <2>2. ClusterMoves(k, n)
    BY <1>3, <2>1 DEF PodRemoved, Notify, ClusterMoves
  <2> QED
    BY <2>1, <2>2
<1>4. ASSUME NEW p \in Pods, NEW phase \in Phases, PodReplaced(p, phase)
      PROVE  \E k \in Keys, n \in Notifications : ClusterMoves(k, n)
  <2> DEFINE obj == [pod |-> p, phase |-> phase, deleting |-> FALSE]
             n   == [old |-> indexer[Key(p)], new |-> obj]
  <2>1. /\ obj \in PodObjects /\ Key(p) \in Keys /\ indexer[Key(p)] \in PodObjects
        /\ n \in Notifications
    BY <1>0, <1>4 DEF PodReplaced, ClusterTypeOK, PodObjects, Notifications, Keys
  <2>2. ClusterMoves(Key(p), n)
    BY <1>0, <1>4, <2>1 DEF PodReplaced, Notify, ClusterMoves
  <2> QED
    BY <2>1, <2>2
<1>5. ASSUME NEW o \in Workloads, WorkloadAdded(o) \/ WorkloadRemoved(o)
      PROVE  UNCHANGED <<indexer, notes, born, replaced, doomed>>
  BY <1>5 DEF WorkloadAdded, WorkloadRemoved
<1> QED
  BY <1>1, <1>2, <1>3, <1>4, <1>5 DEF Cluster

LEMMA ClusterFollow ==
    ASSUME TypeOK, FollowInv, Cluster
    PROVE  FollowInv'
<1>1. UNCHANGED workerVars
  BY DEF Cluster
<1>2. \A k \in Keys : indexer'[k] # Nil => Key(indexer'[k].pod) = k
  <2>1. CASE UNCHANGED <<indexer, notes, born, replaced, doomed>>
    BY <2>1 DEF FollowInv
  <2>2. ASSUME NEW k \in Keys, NEW n \in Notifications, ClusterMoves(k, n)
        PROVE  \A j \in Keys : indexer'[j] # Nil => Key(indexer'[j].pod) = j
    BY <2>2 DEF ClusterMoves, FollowInv, TypeOK, ClusterTypeOK
  <2> QED
    BY <2>1, <2>2, ClusterCases DEF TypeOK
<1> QED
  BY <1>1, <1>2 DEF FollowInv, workerVars

LEMMA ClusterCreated ==
    ASSUME TypeOK, FollowInv, Cluster, NEW X, CreatedInv(X), NEW Y, X \subseteq Y,
           Exempt' \subseteq Y
    PROVE  CreatedInv(Y)'
<1>1. UNCHANGED <<queueVars, workerVars, handled>>
  BY DEF Cluster
<1>2. CASE UNCHANGED <<indexer, notes, born, replaced, doomed>>
  BY <1>1, <1>2 DEF CreatedInv, CreatedFollowed, Covers, queueVars, workerVars
<1>3. ASSUME NEW j \in Keys, NEW n \in Notifications, ClusterMoves(j, n),
             NEW k \in Keys, indexer'[k] # Nil, Reportable(indexer'[k]), NEW p, p = indexer'[k].pod, p \notin Y
      PROVE  CreatedFollowed(k, p)'
  <2>1. /\ \A i \in DOMAIN notes : i \in DOMAIN notes' /\ notes'[i] = notes[i]
        /\ \E i \in DOMAIN notes' : notes'[i] = n
    BY <1>3, NotesAppended DEF ClusterMoves, TypeOK, ClusterTypeOK
  <2>2. ASSUME CreatedFollowed(k, p)
        PROVE  CreatedFollowed(k, p)'
    BY <1>1, <2>1, <2>2 DEF CreatedFollowed, Covers, queueVars, workerVars
  <2>3. CASE k # j
    <3>1. indexer'[k] = indexer[k]
      BY <1>3, <2>3 DEF ClusterMoves, TypeOK, ClusterTypeOK
    <3> QED
      BY <1>3, <2>2, <3>1 DEF CreatedInv
  <2>4. CASE k = j
    <3>1. indexer'[k] = n.new /\ indexer[k] = n.old /\ n.new # Nil /\ Key(n.new.pod) = k
      BY <1>3, <2>4 DEF ClusterMoves, TypeOK, ClusterTypeOK
    <3>2. CASE n.old = Nil
      BY <1>3, <2>1, <3>1, <3>2 DEF CreatedFollowed, Announces
    <3>3. CASE n.old # Nil
      <4>1. /\ n.new.pod = n.old.pod
            /\ LegalPhase(n.old.phase, n.new.phase)
            /\ ~(n.old.phase # "Running" /\ n.new.phase = "Running" /\ n.new.deleting)
        BY <1>3, <3>1, <3>3 DEF ClusterMoves, Exempt
      <4>2. CASE Reportable(n.old)
        BY <1>3, <2>2, <3>1, <3>3, <4>1, <4>2 DEF CreatedInv
      <4>3. CASE BecameReportable(n.old, n.new)
        BY <2>1, <3>1, <3>3, <4>3 DEF CreatedFollowed, Announces
      <4> QED
        BY <1>3, <3>1, <4>1, <4>2, <4>3, BecomesReportable
    <3> QED
      BY <3>2, <3>3
  <2> QED
    BY <2>3, <2>4
<1> QED
  BY <1>2, <1>3, ClusterCases DEF TypeOK, CreatedInv

LEMMA ClusterDeleted ==
    ASSUME TypeOK, FollowInv, Cluster, DeletedInv
    PROVE  DeletedInv'
<1>1. UNCHANGED <<queueVars, workerVars, handled>>
  BY DEF Cluster
<1>2. CASE UNCHANGED <<indexer, notes, born, replaced, doomed>>
  BY <1>1, <1>2
     DEF DeletedInv, DeletedFollowed, IsDeletionOf, Present, queueVars, workerVars
<1>3. ASSUME NEW k \in Keys, NEW n \in Notifications, ClusterMoves(k, n),
             NEW p \in born' \ replaced', ~Present(p)', HasSupportedOwner(PodInfo[p].owners)
      PROVE  DeletedFollowed(p)'
  <2>0. p \in Pods
    BY <1>3 DEF ClusterMoves, PodObjects, TypeOK, ClusterTypeOK
  <2>1. /\ \A i \in DOMAIN notes : i \in DOMAIN notes' /\ notes'[i] = notes[i]
        /\ \E i \in DOMAIN notes' : notes'[i] = n
    BY <1>3, NotesAppended DEF ClusterMoves, TypeOK, ClusterTypeOK
  <2>2. ASSUME DeletedFollowed(p)
        PROVE  DeletedFollowed(p)'
    BY <1>1, <2>1, <2>2 DEF DeletedFollowed, IsDeletionOf, queueVars, workerVars
  <2>3. indexer'[k] = n.new /\ indexer[k] = n.old /\ indexer' = [indexer EXCEPT ![k] = n.new]
    BY <1>3 DEF ClusterMoves, TypeOK, ClusterTypeOK
  <2>4. p \in born /\ p \notin replaced
    BY <1>3, <2>3 DEF ClusterMoves, Present
  <2>5. CASE ~Present(p)
    BY <1>3, <2>2, <2>4, <2>5 DEF DeletedInv
  <2>6. CASE Present(p)
    <3>1. Key(p) = k /\ n.old # Nil /\ n.old.pod = p
      BY <1>3, <2>0, <2>3, <2>6, KeyType DEF Present, FollowInv, TypeOK, ClusterTypeOK
    <3>2. n.new = Nil
      BY <1>3, <2>3, <3>1 DEF ClusterMoves, Present
    <3> QED
      BY <2>1, <3>1, <3>2 DEF DeletedFollowed
  <2> QED
    BY <2>5, <2>6
<1> QED
  BY <1>2, <1>3, ClusterCases DEF TypeOK, DeletedInv

(***************************************************************************)
(* The handlers.                                                           *)
(***************************************************************************)
\* What the delivery of a notification leaves in the queue's sets.
LEMMA DeliverAdds ==
    ASSUME TypeOK, Deliver, ~draining, ~syncing
    PROVE  /\ dirty \subseteq dirty' /\ waiting' = waiting
           /\ \A k \in Keys : Announces(Head(notes), k) => CreatedEvent(k) \in dirty'
           /\ (Head(notes).new = Nil /\ HasSupportedOwner(Owners(Head(notes).old)))
                => DeletedEvent(Head(notes).old) \in dirty'
<1>1. ASSUME NEW e, Add(e)
      PROVE  dirty \subseteq dirty' /\ waiting' = waiting /\ e \in dirty'
  BY <1>1 DEF Add
<1>2. Head(notes) \in Notifications
  BY DEF Deliver, TypeOK, ClusterTypeOK
<1>3. CASE AddFunc
  <2>1. CASE Reportable(Head(notes).new)
    BY <1>1, <1>2, <1>3, <2>1 DEF AddFunc, Enqueue, Announces, Notifications
  <2>2. CASE ~Reportable(Head(notes).new)
    BY <1>2, <1>3, <2>2 DEF AddFunc, Enqueue, Announces, Notifications, queueVars
  <2> QED
    BY <2>1, <2>2
<1>4. CASE UpdateFunc
  <2>1. CASE BecameReportable(Head(notes).old, Head(notes).new)
    BY <1>1, <1>4, <2>1 DEF UpdateFunc, Enqueue, Announces
  <2>2. CASE ~BecameReportable(Head(notes).old, Head(notes).new)
    BY <1>4, <2>2 DEF UpdateFunc, Enqueue, Announces, queueVars
  <2> QED
    BY <2>1, <2>2
<1>5. CASE DeleteFunc
  <2>1. CASE HasSupportedOwner(Owners(Head(notes).old))
    BY <1>1, <1>5, <2>1 DEF DeleteFunc, Enqueue, Announces
  <2>2. CASE ~HasSupportedOwner(Owners(Head(notes).old))
    BY <1>5, <2>2 DEF DeleteFunc, Enqueue, Announces, queueVars
  <2> QED
    BY <2>1, <2>2
<1> QED
  BY <1>3, <1>4, <1>5 DEF Deliver

LEMMA DeliverFollow ==
    ASSUME FollowInv, Deliver
    PROVE  FollowInv'
BY DEF Deliver, FollowInv, workerVars

LEMMA DeliverCreated ==
    ASSUME TypeOK, Deliver, ~draining, ~syncing, NEW X, CreatedInv(X)
    PROVE  CreatedInv(X)'
<1>1. UNCHANGED <<indexer, workerVars, handled>> /\ notes # <<>> /\ notes' = Tail(notes)
  BY DEF Deliver
<1>2. ASSUME NEW k \in Keys, NEW p, CreatedFollowed(k, p)
      PROVE  CreatedFollowed(k, p)'
  <2>1. CASE \E i \in DOMAIN notes : Announces(notes[i], k)
    <3>1. PICK i \in DOMAIN notes : Announces(notes[i], k)
      BY <2>1
    <3>2. CASE notes[i] = Head(notes)
      BY <3>1, <3>2, DeliverAdds DEF CreatedFollowed
    <3>3. CASE \E j \in DOMAIN notes' : notes'[j] = notes[i]
      BY <3>1, <3>3 DEF CreatedFollowed
    <3> QED
      BY <1>1, <3>2, <3>3, NotesTail DEF TypeOK, ClusterTypeOK
  <2>2. CASE \/ CreatedEvent(k) \in dirty \cup waiting
             \/ \E w \in Workers : Covers(w, k, p)
             \/ <<Created, p>> \in handled
    BY <1>1, <2>2, DeliverAdds DEF CreatedFollowed, Covers, workerVars
  <2> QED
    BY <1>2, <2>1, <2>2 DEF CreatedFollowed
<1> QED
  BY <1>1, <1>2 DEF CreatedInv

LEMMA DeliverDeleted ==
    ASSUME TypeOK, Deliver, ~draining, ~syncing, DeletedInv
    PROVE  DeletedInv'
<1>1. /\ UNCHANGED <<indexer, born, replaced, workerVars, handled>>
      /\ notes # <<>> /\ notes' = Tail(notes)
  BY DEF Deliver
<1>2. ASSUME NEW p \in Pods, HasSupportedOwner(PodInfo[p].owners), DeletedFollowed(p)
      PROVE  DeletedFollowed(p)'
  <2>1. CASE \E i \in DOMAIN notes :
                notes[i].new = Nil /\ notes[i].old # Nil /\ notes[i].old.pod = p
    <3>1. PICK i \in DOMAIN notes :
             notes[i].new = Nil /\ notes[i].old # Nil /\ notes[i].old.pod = p
      BY <2>1
    <3>2. CASE notes[i] = Head(notes)
      <4>1. DeletedEvent(Head(notes).old) \in dirty'
        BY <1>2, <3>1, <3>2, DeliverAdds DEF Owners
      <4>2. IsDeletionOf(DeletedEvent(Head(notes).old), p)
        BY <3>1, <3>2 DEF DeletedEvent, IsDeletionOf
      <4> QED
        BY <4>1, <4>2 DEF DeletedFollowed
    <3>3. CASE \E j \in DOMAIN notes' : notes'[j] = notes[i]
      BY <3>1, <3>3 DEF DeletedFollowed
    <3> QED
      BY <1>1, <3>2, <3>3, NotesTail DEF TypeOK, ClusterTypeOK
  <2>2. CASE \/ \E e \in dirty \cup waiting : IsDeletionOf(e, p)
             \/ \E w \in Workers : event[w] # Nil /\ IsDeletionOf(event[w], p)
             \/ <<Deleted, p>> \in handled
    BY <1>1, <2>2, DeliverAdds DEF DeletedFollowed, IsDeletionOf, workerVars
  <2> QED
    BY <1>2, <2>1, <2>2 DEF DeletedFollowed
<1> QED
  BY <1>1, <1>2 DEF DeletedInv, Present, TypeOK, ClusterTypeOK

(***************************************************************************)
(* The workers.                                                            *)
(***************************************************************************)
LEMMA CreatedDiffers ==
    ASSUME NEW e \in PodEvents
    PROVE  /\ e.type # Deleted => e = CreatedEvent(e.key)
           /\ \A k : e = CreatedEvent(k) => e.type # Deleted /\ e.key = k
BY DEF PodEvents, CreatedEvent, DeletedEvent, Created, Deleted

\* Between the lookup of the pod and the end of the event a worker keeps both, and
\* nothing else that the accounting is about changes.
LEMMA MiddleSteps ==
    ASSUME TypeOK, NEW w \in Workers, Work(w), ~GetEvent(w), ~Lookup(w), ~FinishEvent(w)
    PROVE  /\ UNCHANGED <<event, subject, clusterVars, queueVars, runVars, handled>>
           /\ pc[w] \notin {"idle", "lookup"} /\ pc'[w] # "lookup"
           /\ pc'[w] = "active" => event[w].type = Deleted
           /\ \A v \in Workers : v # w => pc'[v] = pc[v]
<1>1. CASE Resolving(w)
  BY <1>1, ResolvingStep DEF TypeOK, WorkerTypeOK
<1>2. CASE CheckActive(w) \/ StartPost(w) \/ PostOk(w)
  BY <1>2 DEF CheckActive, StartPost, PostOk, Goto, TypeOK, WorkerTypeOK
<1>3. CASE SkipContainer(w) \/ Invalidate(w)
  BY <1>3 DEF SkipContainer, Invalidate, NextContainer, Goto, TypeOK, WorkerTypeOK
<1>4. CASE PostNotFound(w) \/ PostClientError(w) \/ PostFailed(w)
  BY <1>4 DEF PostNotFound, PostClientError, PostFailed, NextContainer, Goto, TypeOK,
              WorkerTypeOK
<1> QED
  BY <1>1, <1>2, <1>3, <1>4 DEF Work, Resolving

LEMMA WorkFollow ==
    ASSUME TypeOK, FollowInv, NEW w \in Workers, Work(w)
    PROVE  FollowInv'
<1>1. indexer' = indexer
  BY DEF Work, GetEvent, Lookup, ResolveWorkload, FindNoJob, TryCronJob, Resolved,
         CheckActive, SkipContainer, StartPost,
         PostOk, Invalidate, PostNotFound, PostClientError, PostFailed, FinishEvent,
         clusterVars
<1>2. CASE GetEvent(w)
  BY <1>1, <1>2 DEF GetEvent, Goto, FollowInv, TypeOK, WorkerTypeOK
<1>3. CASE Lookup(w)
  BY <1>1, <1>3 DEF Lookup, Goto, FollowInv, TypeOK, WorkerTypeOK, WorkerOK
<1>4. CASE FinishEvent(w)
  BY <1>1, <1>4 DEF FinishEvent, FollowInv, TypeOK, WorkerTypeOK
<1>5. CASE ~GetEvent(w) /\ ~Lookup(w) /\ ~FinishEvent(w)
  BY <1>1, <1>5, MiddleSteps DEF FollowInv
<1> QED
  BY <1>2, <1>3, <1>4, <1>5

LEMMA WorkCreated ==
    ASSUME TypeOK, FollowInv, ~draining, NEW w \in Workers, Work(w), NEW X, CreatedInv(X)
    PROVE  CreatedInv(X)'
<1>1. UNCHANGED <<indexer, notes>> /\ handled \subseteq handled'
  BY DEF Work, GetEvent, Lookup, ResolveWorkload, FindNoJob, TryCronJob, Resolved,
         CheckActive, SkipContainer, StartPost,
         PostOk, Invalidate, PostNotFound, PostClientError, PostFailed, FinishEvent,
         NoteHandled, clusterVars
<1> SUFFICES ASSUME NEW k \in Keys, NEW p, indexer[k] # Nil, Reportable(indexer[k]),
                    p = indexer[k].pod, CreatedFollowed(k, p)
             PROVE  CreatedFollowed(k, p)'
  BY <1>1 DEF CreatedInv
<1>2. CASE (\E i \in DOMAIN notes : Announces(notes[i], k)) \/ <<Created, p>> \in handled
  BY <1>1, <1>2 DEF CreatedFollowed
<1>3. indexer[k].phase # "Pending"
  BY DEF Reportable, IsJobTerminal, IsTerminalPhase
<1>4. \A v \in Workers : v # w => pc'[v] = pc[v]
  BY OthersKeep DEF TypeOK
<1>5. CASE GetEvent(w)
  <2>1. Head(queue) \in PodEvents
    BY <1>5 DEF GetEvent, TypeOK, QueueTypeOK
  <2>2. CASE Head(queue) = CreatedEvent(k)
    <3>1. Covers(w, k, p)'
      <4>1. Head(queue).type # Deleted
        BY <2>1, <2>2, CreatedDiffers
      <4> QED
        BY <1>5, <2>2, <4>1 DEF GetEvent, Goto, Covers, TypeOK, WorkerTypeOK
    <3> QED
      BY <3>1 DEF CreatedFollowed
  <2>3. CASE Head(queue) # CreatedEvent(k)
    <3>1. CreatedEvent(k) \in dirty \cup waiting => CreatedEvent(k) \in (dirty \cup waiting)'
      BY <1>5, <2>3 DEF GetEvent, Get
    <3>2. ASSUME NEW v \in Workers, Covers(v, k, p)
          PROVE  Covers(v, k, p)'
      <4>1. CreatedEvent(k) # Nil
        BY NilAssumption DEF PodEvents
      <4>2. v # w
        BY <1>5, <3>2, <4>1 DEF GetEvent, Covers, TypeOK, WorkerTypeOK, WorkerOK
      <4> QED
        BY <1>4, <1>5, <3>2, <4>2 DEF GetEvent, Covers, TypeOK, WorkerTypeOK
    <3> QED
      BY <1>2, <3>1, <3>2 DEF CreatedFollowed
  <2> QED
    BY <2>2, <2>3
<1>6. CASE Lookup(w)
  <2>1. UNCHANGED <<queueVars, event>>
    BY <1>6 DEF Lookup
  <2>2. ASSUME NEW v \in Workers, Covers(v, k, p)
        PROVE  Covers(v, k, p)'
    <3>1. CASE v = w
      <4>1. event[w].key = k
        BY <2>2, <3>1 DEF Covers, CreatedEvent
      <4> QED
        BY <1>3, <1>6, <2>2, <3>1, <4>1 DEF Lookup, Covers, TypeOK, WorkerTypeOK
    <3>2. CASE v # w
      BY <1>4, <1>6, <2>2, <3>2 DEF Lookup, Covers, TypeOK, WorkerTypeOK
    <3> QED
      BY <3>1, <3>2
  <2> QED
    BY <1>2, <2>1, <2>2 DEF CreatedFollowed, queueVars
<1>7. CASE FinishEvent(w)
  <2>1. dirty' = dirty /\ waiting \subseteq waiting'
    BY <1>7 DEF FinishEvent, Finish
  <2>2. ASSUME NEW v \in Workers, v # w, Covers(v, k, p)
        PROVE  Covers(v, k, p)'
    BY <1>4, <1>7, <2>2 DEF FinishEvent, Covers, TypeOK, WorkerTypeOK
  <2>3. ASSUME Covers(w, k, p)
        PROVE  CreatedFollowed(k, p)'
    <3>1. subject[w] # Nil /\ subject[w].pod = p /\ subject[w].phase # "Pending"
      BY <1>7, <2>3 DEF FinishEvent, Covers
    <3>2. event[w] = CreatedEvent(k) /\ event[w].type = Created
      BY <2>3 DEF Covers, CreatedEvent
    <3>3. CASE lastErr[w]
      BY <1>7, <3>2, <3>3 DEF FinishEvent, Finish, CreatedFollowed
    <3>4. CASE ~lastErr[w]
      BY <1>7, <3>1, <3>2, <3>4 DEF FinishEvent, NoteHandled, CreatedFollowed
    <3> QED
      BY <3>3, <3>4
  <2> QED
    BY <1>2, <2>1, <2>2, <2>3 DEF CreatedFollowed
<1>8. CASE ~GetEvent(w) /\ ~Lookup(w) /\ ~FinishEvent(w)
  <2>1. /\ UNCHANGED <<event, subject, queueVars>> /\ pc[w] # "lookup"
    BY <1>8, MiddleSteps
  <2>2. ASSUME NEW v \in Workers, Covers(v, k, p)
        PROVE  Covers(v, k, p)'
    BY <1>4, <2>1, <2>2 DEF Covers
  <2> QED
    BY <1>2, <2>1, <2>2 DEF CreatedFollowed, queueVars
<1> QED
  BY <1>5, <1>6, <1>7, <1>8

LEMMA WorkDeleted ==
    ASSUME TypeOK, FollowInv, ~draining, NEW w \in Workers, Work(w), DeletedInv
    PROVE  DeletedInv'
<1>1. UNCHANGED clusterVars /\ handled \subseteq handled'
  BY DEF Work, GetEvent, Lookup, ResolveWorkload, FindNoJob, TryCronJob, Resolved,
         CheckActive, SkipContainer, StartPost,
         PostOk, Invalidate, PostNotFound, PostClientError, PostFailed, FinishEvent,
         NoteHandled
<1> SUFFICES ASSUME NEW p, DeletedFollowed(p)
             PROVE  DeletedFollowed(p)'
  BY <1>1 DEF DeletedInv, Present, clusterVars
<1>2. CASE \/ \E i \in DOMAIN notes :
                 notes[i].new = Nil /\ notes[i].old # Nil /\ notes[i].old.pod = p
           \/ <<Deleted, p>> \in handled
  BY <1>1, <1>2 DEF DeletedFollowed, clusterVars
<1>3. CASE GetEvent(w)
  <2>1. Head(queue) \in PodEvents /\ Head(queue) # Nil
    BY <1>3, EventTypes DEF GetEvent, TypeOK, QueueTypeOK
  <2>2. ASSUME NEW e \in dirty \cup waiting, IsDeletionOf(e, p)
        PROVE  DeletedFollowed(p)'
    <3>1. CASE e = Head(queue)
      BY <1>3, <2>1, <2>2, <3>1 DEF GetEvent, DeletedFollowed, IsDeletionOf, TypeOK, WorkerTypeOK
    <3>2. CASE e # Head(queue)
      BY <1>3, <2>2, <3>2 DEF GetEvent, Get, DeletedFollowed, IsDeletionOf
    <3> QED
      BY <3>1, <3>2
  <2>3. ASSUME NEW v \in Workers, event[v] # Nil, IsDeletionOf(event[v], p)
        PROVE  event'[v] # Nil /\ IsDeletionOf(event'[v], p)
    <3>1. v # w
      BY <1>3, <2>3 DEF GetEvent, TypeOK, WorkerTypeOK, WorkerOK
    <3> QED
      BY <1>3, <2>3, <3>1 DEF GetEvent, TypeOK, WorkerTypeOK
  <2> QED
    BY <1>2, <2>2, <2>3 DEF DeletedFollowed, IsDeletionOf
<1>4. CASE FinishEvent(w)
  <2>1. dirty' = dirty /\ waiting \subseteq waiting'
    BY <1>4 DEF FinishEvent, Finish
  <2>2. ASSUME NEW v \in Workers, v # w, event[v] # Nil, IsDeletionOf(event[v], p)
        PROVE  event'[v] # Nil /\ IsDeletionOf(event'[v], p)
    BY <1>4, <2>2 DEF FinishEvent, TypeOK, WorkerTypeOK
  <2>3. ASSUME event[w] # Nil, IsDeletionOf(event[w], p)
        PROVE  DeletedFollowed(p)'
    <3>1. event[w].type = Deleted /\ subject[w] = event[w].pod /\ subject[w].pod = p
      BY <2>3 DEF IsDeletionOf, FollowInv
    <3>2. subject[w] # Nil
      BY <2>3, <3>1, EventTypes, NilAssumption DEF TypeOK, WorkerTypeOK
    <3>3. CASE lastErr[w]
      BY <1>4, <2>3, <3>3 DEF FinishEvent, Finish, DeletedFollowed, IsDeletionOf
    <3>4. CASE ~lastErr[w]
      BY <1>4, <3>1, <3>2, <3>4 DEF FinishEvent, NoteHandled, DeletedFollowed
    <3> QED
      BY <3>3, <3>4
  <2> QED
    BY <1>2, <2>1, <2>2, <2>3 DEF DeletedFollowed, IsDeletionOf
<1>5. CASE ~GetEvent(w) /\ ~FinishEvent(w)
  <2>1. UNCHANGED <<event, queueVars>>
    BY <1>5, MiddleSteps DEF Lookup
  <2> QED
    BY <1>1, <2>1 DEF DeletedFollowed, IsDeletionOf, queueVars, clusterVars
<1> QED
  BY <1>3, <1>4, <1>5

(***************************************************************************)
(* The other steps.                                                        *)
(***************************************************************************)
\* What is neither a step of the cluster, nor a delivery, nor a step of Work.
LEMMA OtherSteps ==
    ASSUME TypeOK, Network \/ Expire \/ RetryDelayEnds
    PROVE  /\ UNCHANGED <<clusterVars, runVars, event, subject, handled>>
           /\ draining' = draining
           /\ ~draining => dirty \cup waiting \subseteq (dirty \cup waiting)'
           /\ \A v \in Workers : 
                 pc'[v] = pc[v] \/ (pc[v] \in AtContainer /\ pc'[v] \in AtContainer)
<1>1. CASE Network
  <2>1. UNCHANGED <<clusterVars, runVars, queueVars, handled>>
    BY <1>1 DEF Network
  <2>2. ASSUME NEW w \in Workers, ServerApply(w) \/ AnswerLost(w) \/ RequestDelayed(w)
        PROVE  /\ UNCHANGED <<event, subject>>
               /\ \A v \in Workers :
                     pc'[v] = pc[v] \/ (pc[v] \in AtContainer /\ pc'[v] \in AtContainer)
    BY <2>2 DEF ServerApply, AnswerLost, RequestDelayed, Goto, workerVars, AtContainer,
                TypeOK, WorkerTypeOK
  <2>3. ASSUME NEW r \in late, LateApply(r)
        PROVE  UNCHANGED <<event, subject, pc>>
    BY <2>3 DEF LateApply, workerVars
  <2> QED
    BY <1>1, <2>1, <2>2, <2>3 DEF Network, queueVars
<1>2. CASE Expire
  BY <1>2 DEF Expire, queueVars, workerVars
<1>3. CASE RetryDelayEnds
  BY <1>3 DEF RetryDelayEnds, DelayEnds, workerVars
<1> QED
  BY <1>1, <1>2, <1>3

LEMMA OtherFollow ==
    ASSUME TypeOK, FollowInv, Network \/ Expire \/ RetryDelayEnds
    PROVE  FollowInv'
BY OtherSteps DEF FollowInv, clusterVars, AtContainer

LEMMA OtherCreated ==
    ASSUME TypeOK, ~draining, Network \/ Expire \/ RetryDelayEnds, NEW X, CreatedInv(X)
    PROVE  CreatedInv(X)'
<1>1. /\ UNCHANGED <<clusterVars, event, subject, handled>>
      /\ dirty \cup waiting \subseteq (dirty \cup waiting)'
      /\ \A v \in Workers : pc[v] = "lookup" => pc'[v] = "lookup"
  BY OtherSteps DEF AtContainer
<1> QED
  BY <1>1 DEF CreatedInv, CreatedFollowed, Covers, clusterVars

LEMMA OtherDeleted ==
    ASSUME TypeOK, ~draining, Network \/ Expire \/ RetryDelayEnds, DeletedInv
    PROVE  DeletedInv'
<1>1. /\ UNCHANGED <<clusterVars, event, handled>>
      /\ dirty \cup waiting \subseteq (dirty \cup waiting)'
  BY OtherSteps
<1> QED
  BY <1>1 DEF DeletedInv, DeletedFollowed, IsDeletionOf, Present, clusterVars

\* The queue drains only after the context is cancelled.
LEMMA LifecycleAccounting ==
    ASSUME Accounting, Lifecycle
    PROVE  Accounting'
<1>1. /\ UNCHANGED <<clusterVars, workerVars, handled, syncing>>
      /\ Serving' => Serving /\ UNCHANGED queueVars
  BY DEF Lifecycle, StartWorkers, SyncFails, Cancel, RunReturns, Exit, Serving
<1>2. FollowInv'
  BY <1>1 DEF Accounting, FollowInv, clusterVars, workerVars
<1>3. ASSUME Serving', NEW X, CreatedInv(X) PROVE CreatedInv(X)'
  BY <1>1, <1>3 DEF CreatedInv, CreatedFollowed, Covers, clusterVars, workerVars, queueVars
<1>4. ASSUME Serving', DeletedInv PROVE DeletedInv'
  BY <1>1, <1>4 DEF DeletedInv, DeletedFollowed, IsDeletionOf, Present, clusterVars, workerVars,
                    queueVars
<1>5. HandlersOpen'
  BY <1>1 DEF Accounting, HandlersOpen, queueVars
<1> QED
  BY <1>1, <1>2, <1>3, <1>4, <1>5 DEF Accounting, CreatedInv, Exempt, clusterVars

LEMMA InitAccounting == Init => Accounting
BY DEF Init, InitWith, QueueInit, Accounting, HandlersOpen, FollowInv, CreatedInv, DeletedInv

LEMMA NextAccounting ==
    ASSUME TypeOK, Accounting, [Next]_vars
    PROVE  Accounting'
<1>1. ASSUME UNCHANGED <<main, syncing, draining>>, FollowInv',
             ~draining /\ ~syncing /\ CreatedInv(Exempt) => CreatedInv(Exempt)',
             ~draining /\ ~syncing /\ DeletedInv => DeletedInv'
      PROVE  Accounting'
  BY <1>1 DEF Accounting, HandlersOpen, Serving
<1>2. ASSUME UNCHANGED <<replaced, doomed>>, \A X : CreatedInv(X) => CreatedInv(X)'
      PROVE  CreatedInv(Exempt) => CreatedInv(Exempt)'
  BY <1>2 DEF CreatedInv, Exempt
<1>3. CASE Cluster
  <2>1. UNCHANGED <<main, syncing, draining>>
    BY <1>3 DEF Cluster, runVars, queueVars
  <2>2. Exempt \subseteq Exempt'
    BY <1>3 DEF Cluster, PodAdded, PodUpdated, PodRemoved, PodReplaced, WorkloadAdded,
                WorkloadRemoved, Exempt
  <2>3. CreatedInv(Exempt) => CreatedInv(Exempt)'
    BY <1>3, <2>2, ClusterCreated DEF Accounting, CreatedInv
  <2> QED
    BY <1>1, <1>3, <2>1, <2>3, ClusterFollow, ClusterDeleted DEF Accounting
<1>4. CASE Deliver
  <2>1. UNCHANGED <<main, syncing, draining, replaced, doomed>>
    BY <1>4 DEF Deliver, AddFunc, UpdateFunc, DeleteFunc, Enqueue, Add, runVars, queueVars
  <2>2. ~draining /\ ~syncing /\ CreatedInv(Exempt) => CreatedInv(Exempt)'
    BY <1>2, <1>4, <2>1, DeliverCreated
  <2> QED
    BY <1>1, <1>4, <2>1, <2>2, DeliverFollow, DeliverDeleted DEF Accounting
<1>5. ASSUME NEW w \in Workers, Work(w) PROVE Accounting'
  <2>1. UNCHANGED <<main, syncing, draining, replaced, doomed>>
    BY <1>5 DEF Work, GetEvent, Lookup, ResolveWorkload, FindNoJob, TryCronJob, Resolved,
                CheckActive, SkipContainer, StartPost, PostOk, Invalidate, PostNotFound,
                PostClientError, PostFailed, FinishEvent, Get, Finish, clusterVars, queueVars, runVars
  <2>2. ~draining /\ CreatedInv(Exempt) => CreatedInv(Exempt)'
    BY <1>2, <1>5, <2>1, WorkCreated DEF Accounting
  <2> QED
    BY <1>1, <1>5, <2>1, <2>2, WorkFollow, WorkDeleted DEF Accounting
<1>6. CASE Network \/ Expire \/ RetryDelayEnds
  <2>1. UNCHANGED <<main, syncing, draining, replaced, doomed>>
    BY <1>6, OtherSteps DEF runVars, clusterVars
  <2>2. ~draining /\ CreatedInv(Exempt) => CreatedInv(Exempt)'
    BY <1>2, <1>6, <2>1, OtherCreated
  <2> QED
    BY <1>1, <1>6, <2>1, <2>2, OtherFollow, OtherDeleted DEF Accounting
<1>7. CASE Lifecycle
  BY <1>7, LifecycleAccounting
<1>8. CASE UNCHANGED vars
  BY <1>8 DEF vars, clusterVars, queueVars, runVars, workerVars, Accounting, HandlersOpen,
              Serving, FollowInv, Exempt, CreatedInv, CreatedFollowed, Covers, DeletedInv,
              DeletedFollowed, IsDeletionOf, Present
<1> QED
  BY <1>3, <1>4, <1>5, <1>6, <1>7, <1>8 DEF Next, Running, Exited

LEMMA AlwaysAccounting == Spec => []Accounting
<1>1. TypeOK /\ Accounting /\ [Next]_vars => Accounting'
  BY NextAccounting
<1> QED
  BY InitAccounting, <1>1, TypeCorrect, PTL DEF Spec

(***************************************************************************)
(* What is followed up is outstanding or handled.                          *)
(***************************************************************************)
LEMMA HeldIsOutstanding ==
    ASSUME TypeOK, QueueSound, NEW w \in Workers, event[w] # Nil
    PROVE  event[w] \in processing
BY DEF TypeOK, WorkerTypeOK, WorkerOK, QueueSound

LEMMA CreatedOutstanding ==
    ASSUME TypeOK, QueueSound, NEW k \in Keys, ~Undelivered(k), NEW p, CreatedFollowed(k, p)
    PROVE  Outstanding(CreatedEvent(k)) \/ <<Created, p>> \in handled
<1>1. ~ \E i \in DOMAIN notes : Announces(notes[i], k)
  BY DEF Undelivered, Announces
<1>2. ASSUME NEW w \in Workers, Covers(w, k, p)
      PROVE  CreatedEvent(k) \in processing
  <2>1. CreatedEvent(k) # Nil
    BY NilAssumption DEF PodEvents
  <2> QED
    BY <1>2, <2>1, HeldIsOutstanding DEF Covers
<1> QED
  BY <1>1, <1>2 DEF CreatedFollowed, Outstanding

\* The handlers, the queue and the workers lose no pod that is to be reported (New,
\* processNextItem, processEvent), for any cluster, any number of workers and any
\* number of failed requests.
THEOREM NoPodLost == Spec => []CreatedAccountedFor
<1>1. TypeOK /\ QueueSound /\ Accounting => CreatedAccountedFor
  <2> SUFFICES ASSUME TypeOK, QueueSound, Accounting, Serving, NEW k \in Keys,
                      indexer[k] # Nil, ~Undelivered(k), Reportable(indexer[k]),
                      indexer[k].pod \notin replaced \cup doomed
               PROVE  \/ Outstanding(CreatedEvent(k))
                      \/ <<Created, indexer[k].pod>> \in handled
    BY DEF CreatedAccountedFor, Serving
  <2>1. CreatedFollowed(k, indexer[k].pod)
    BY DEF Accounting, CreatedInv, Exempt
  <2> QED
    BY <2>1, CreatedOutstanding
<1> QED
  BY <1>1, TypeCorrect, AlwaysQueueSound, AlwaysAccounting, PTL

\* Nor do they lose the deletion of a pod, under the same conditions.
THEOREM NoDeletionLost == Spec => []DeletedAccountedFor
<1>1. TypeOK /\ QueueSound /\ Accounting => DeletedAccountedFor
  <2> SUFFICES ASSUME TypeOK, QueueSound, Accounting, Serving, NEW p \in born \ replaced,
                      ~Present(p), ~Undelivered(Key(p)),
                      HasSupportedOwner(PodInfo[p].owners)
               PROVE  \/ \E e \in dirty \cup processing \cup waiting :
                            e.type = Deleted /\ e.pod.pod = p
                      \/ <<Deleted, p>> \in handled
    BY DEF DeletedAccountedFor, Serving, Present
  <2>1. DeletedFollowed(p)
    BY DEF Accounting, DeletedInv
  <2>2. ~ \E i \in DOMAIN notes :
            notes[i].new = Nil /\ notes[i].old # Nil /\ notes[i].old.pod = p
    BY DEF Undelivered
  <2> QED
    BY <2>1, <2>2, HeldIsOutstanding DEF DeletedFollowed, IsDeletionOf
<1> QED
  BY <1>1, TypeCorrect, AlwaysQueueSound, AlwaysAccounting, PTL
=============================================================================
