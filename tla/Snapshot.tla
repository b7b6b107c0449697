------------------------------- MODULE Snapshot -------------------------------
(***************************************************************************)
(* makeSyncRecords as a program: the pods are considered in the order in   *)
(* which the indexer happens to list them (that of a Go map), and of each  *)
(* pod its containers and then its init containers.                        *)
(***************************************************************************)
EXTENDS SyncRecords, Sequences

CONSTANTS
    Pods,            \* the pods that are listed, eligible for the snapshot
    Times,           \* their creation times
    ContainerLists,  \* what they may run: sequences of [dn, digest]
    Nil              \* no pod

Views == [running : BOOLEAN, created : Times, containers : ContainerLists]

ASSUME TimesAssumption == Times \subseteq Nat
ASSUME ContainersAssumption ==
    \A list \in ContainerLists :
        /\ list # <<>>
        /\ list \in Seq({list[i] : i \in DOMAIN list})
ASSUME NilAssumption == Nil \notin Pods

VARIABLES
    view,     \* the pods as they were when they were listed
    todo,     \* the pods the loop has not reached
    pod,      \* the pod it is at, or Nil
    next,     \* the container it is at
    winners   \* the candidates chosen so far

vars == <<view, todo, pod, next, winners>>

Containers(p) == view[p].containers

Candidate(p, i) ==
    [dn |-> Containers(p)[i].dn, digest |-> Containers(p)[i].digest,
     running |-> view[p].running, created |-> view[p].created]

Init ==
    /\ view \in [Pods -> Views]
    /\ todo = Pods
    /\ pod = Nil
    /\ next = 1
    /\ winners = {}

TakePod(p) ==
    /\ pod = Nil
    /\ p \in todo
    /\ pod' = p
    /\ todo' = todo \ {p}
    /\ UNCHANGED <<view, next, winners>>

\* A faulty variant: one container too many.
TakeContainerPastEnd ==
    /\ pod # Nil
    /\ winners' = Collapse(winners, Candidate(pod, next))
    /\ IF next <= Len(Containers(pod))
       THEN next' = next + 1 /\ UNCHANGED pod
       ELSE next' = 1 /\ pod' = Nil
    /\ UNCHANGED <<view, todo>>

TakeContainer ==
    /\ pod # Nil
    /\ winners' = Collapse(winners, Candidate(pod, next))
    /\ IF next < Len(Containers(pod))
       THEN next' = next + 1 /\ UNCHANGED pod
       ELSE next' = 1 /\ pod' = Nil
    /\ UNCHANGED <<view, todo>>

Finished == todo = {} /\ pod = Nil
Return == Finished /\ UNCHANGED vars

Next == (\E p \in Pods : TakePod(p)) \/ TakeContainer \/ Return

Spec == Init /\ [][Next]_vars

-----------------------------------------------------------------------------
Considered(p, i) == p \notin todo /\ (pod = p => i < next)

TypeOK ==
    /\ view \in [Pods -> Views]
    /\ todo \subseteq Pods
    /\ pod \in (Pods \ todo) \cup {Nil}
    /\ next \in Nat \ {0}
    /\ pod # Nil => next \in DOMAIN Containers(pod)
    /\ pod = Nil => next = 1
    /\ \A w \in winners : \E p \in Pods : \E i \in DOMAIN Containers(p) :
            Considered(p, i) /\ w = Candidate(p, i)

\* The API requires unique deployment names in a snapshot, and nothing that runs
\* may be missing from it: the winners are one candidate with a digest for each
\* name of which a container with a digest was listed, however containers whose
\* digest is not known yet come in between.
SnapshotComplete ==
    /\ \A v, w \in winners : v.dn = w.dn => v = w
    /\ \A w \in winners : w.digest # ""
    /\ \A p \in Pods : \A i \in DOMAIN Containers(p) :
            Considered(p, i) /\ Candidate(p, i).digest # "" =>
                \E w \in winners : w.dn = Candidate(p, i).dn

\* Preferred to every other candidate of its name, and alone with its digest.
IsUniqueTarget(p, i) ==
    /\ Candidate(p, i).digest # ""
    /\ \A q \in Pods : \A j \in DOMAIN Containers(q) :
          (<<q, j>> # <<p, i>> /\ Candidate(q, j).dn = Candidate(p, i).dn) =>
              /\ Candidate(q, j).digest # Candidate(p, i).digest
              /\ IsPreferredSyncPod(Candidate(p, i), Candidate(q, j))

\* In whatever order the pods are listed: a newest running pod that is the only one
\* to run its digest is what the snapshot reports for its name.
UniqueTargetWins ==
    \A p \in Pods : \A i \in DOMAIN Containers(p) :
        Considered(p, i) /\ IsUniqueTarget(p, i) => Candidate(p, i) \in winners

\* The comment on makeSyncRecords: "We pick the newest running pod so the snapshot
\* reflects the rollout target", and the test NewestWinsRegardlessOfOrder: of pods that
\* all run, the digest that is reported for a name is that of a newest one.
NewestRunningWins ==
    (Finished /\ \A p \in Pods : view[p].running) =>
        \A w \in winners : \E p \in Pods : \E i \in DOMAIN Containers(p) :
            LET c == Candidate(p, i)
            IN  /\ c.dn = w.dn /\ c.digest = w.digest
                /\ \A q \in Pods : \A j \in DOMAIN Containers(q) :
                      LET d == Candidate(q, j)
                      IN  d.dn = w.dn /\ d.digest # "" => ~IsPreferredSyncPod(d, c)
=============================================================================
