------------------------------ MODULE SyncRecords ------------------------------
(***************************************************************************)
(* How makeSyncRecords (internal/controller/reporting.go) collapses what   *)
(* the pods of the cluster run to one candidate per deployment name.  A    *)
(* candidate is a container of a pod:                                      *)
(*   dn, digest   the record it would be reported by; "" is no digest yet  *)
(*   running      the pod is Running, and not terminal                     *)
(*   created      the pod's creation time                                  *)
(***************************************************************************)
EXTENDS Naturals

\* isPreferredSyncPod
IsPreferredSyncPod(candidate, current) ==
    IF candidate.running # current.running
    THEN candidate.running
    ELSE candidate.created > current.created

\* A faulty variant: a container without a digest takes part.
CollapseWithoutDigest(winners, c) ==
    LET existing == {x \in winners : x.dn = c.dn}
    IN  IF \A x \in existing : x.digest # c.digest /\ IsPreferredSyncPod(c, x)
        THEN (winners \ existing) \cup {c}
        ELSE winners

\* A faulty variant: the pod that is listed last wins.
CollapseLast(winners, c) ==
    LET existing == {x \in winners : x.dn = c.dn}
    IN  IF c.digest # "" /\ \A x \in existing : x.digest # c.digest
        THEN (winners \ existing) \cup {c}
        ELSE winners

\* The body of the loop: a candidate replaces the one there is of its name if it
\* has another digest and its pod is preferred.
Collapse(winners, c) ==
    LET existing == {x \in winners : x.dn = c.dn}
    IN  IF c.digest # "" /\ \A x \in existing : x.digest # c.digest /\ IsPreferredSyncPod(c, x)
        THEN (winners \ existing) \cup {c}
        ELSE winners
=============================================================================
