---------------------------- MODULE SnapshotProofs ----------------------------
(***************************************************************************)
(* What makeSyncRecords submits, for any pods with any containers, listed  *)
(* in any order.                                                           *)
(***************************************************************************)
EXTENDS Snapshot, TLAPS

-----------------------------------------------------------------------------
(***************************************************************************)
(* Collapse.                                                               *)
(***************************************************************************)
\* No two records of one name, and none without a digest.
Collapsed(W) ==
    /\ \A v, w \in W : v.dn = w.dn => v = w
    /\ \A w \in W : w.digest # ""

\* A name that has a winner keeps one, a name that gets a candidate has one.
LEMMA CollapseProperties ==
  ASSUME NEW W, Collapsed(W), NEW c
  PROVE  /\ Collapsed(Collapse(W, c))
         /\ Collapse(W, c) \subseteq W \cup {c}
         /\ \A v \in W : \E w \in Collapse(W, c) : w.dn = v.dn
         /\ c.digest # "" => \E w \in Collapse(W, c) : w.dn = c.dn
<1> DEFINE existing == {x \in W : x.dn = c.dn}
           taken == c.digest # "" /\ \A x \in existing : x.digest # c.digest /\ IsPreferredSyncPod(c, x)
<1>1. Collapse(W, c) = IF taken THEN (W \ existing) \cup {c} ELSE W
  BY DEF Collapse
<1>2. CASE taken
  BY <1>1, <1>2 DEF Collapsed
<1>3. CASE ~taken
  BY <1>1, <1>3 DEF Collapsed
<1> QED BY <1>2, <1>3

\* Of two candidates only one can be preferred to the other.
LEMMA PreferenceIsStrict ==
  ASSUME NEW c, NEW d, c.created \in Nat, d.created \in Nat,
         c.running \in BOOLEAN, d.running \in BOOLEAN, IsPreferredSyncPod(c, d)
  PROVE  ~IsPreferredSyncPod(d, c)
BY DEF IsPreferredSyncPod

-----------------------------------------------------------------------------
(***************************************************************************)
(* Types.                                                                  *)
(***************************************************************************)
LEMMA ViewProperties ==
  ASSUME view \in [Pods -> Views], NEW p \in Pods
  PROVE  /\ Containers(p) \in ContainerLists
         /\ Len(Containers(p)) \in Nat \ {0}
         /\ DOMAIN Containers(p) = 1 .. Len(Containers(p))
         /\ view[p].created \in Nat /\ view[p].running \in BOOLEAN
<1>1. view[p] \in Views
  OBVIOUS
<1>2. Containers(p) \in ContainerLists /\ view[p].created \in Times /\ view[p].running \in BOOLEAN
  BY <1>1 DEF Views, Containers
<1>3. ASSUME NEW S, NEW list \in Seq(S), list # <<>>
      PROVE  Len(list) \in Nat \ {0} /\ DOMAIN list = 1 .. Len(list)
  BY <1>3
<1> QED BY <1>2, <1>3, ContainersAssumption, TimesAssumption

\* Taking a pod from the list changes nothing of what was considered.
LEMMA TakePodConsiders ==
  ASSUME TypeOK, NEW p \in Pods, TakePod(p),
         NEW q \in Pods, NEW i \in DOMAIN Containers(q)
  PROVE  Considered(q, i)' <=> Considered(q, i)
<1>1. i \in Nat \ {0} /\ q # Nil
  BY ViewProperties, NilAssumption DEF TypeOK
<1>2. pod = Nil /\ next = 1 /\ p \in todo /\ pod' = p /\ todo' = todo \ {p} /\ next' = 1
  BY DEF TakePod, TypeOK
<1> QED BY <1>1, <1>2 DEF Considered

\* Taking a container adds that container to what was considered.
LEMMA TakeContainerConsiders ==
  ASSUME TypeOK, TakeContainer, NEW q \in Pods, NEW i \in DOMAIN Containers(q)
  PROVE  Considered(q, i)' <=> Considered(q, i) \/ (q = pod /\ i = next)
<1>1. i \in 1 .. Len(Containers(q)) /\ Len(Containers(q)) \in Nat
  BY ViewProperties DEF TypeOK
<1>2. pod \in Pods /\ pod \notin todo /\ next \in Nat
  BY DEF TakeContainer, TypeOK
<1>3. next \in 1 .. Len(Containers(pod))
  BY <1>2, ViewProperties DEF TakeContainer, TypeOK
<1>4. CASE next < Len(Containers(pod))
  BY <1>1, <1>2, <1>4 DEF Considered, TakeContainer
<1>5. CASE ~(next < Len(Containers(pod)))
  BY <1>1, <1>2, <1>3, <1>5, NilAssumption DEF Considered, TakeContainer
<1> QED BY <1>4, <1>5

LEMMA CandidateUnchanged ==
  ASSUME UNCHANGED view
  PROVE  /\ \A p : Containers(p)' = Containers(p)
         /\ \A p, i : Candidate(p, i)' = Candidate(p, i)
BY DEF Containers, Candidate

LEMMA CollapseKeeps ==
  ASSUME NEW W, NEW c
  PROVE  Collapse(W, c) \subseteq W \cup {c}
BY DEF Collapse

LEMMA NextTypeOK ==
  ASSUME TypeOK, [Next]_vars
  PROVE  TypeOK'
<1>1. ASSUME NEW p \in Pods, TakePod(p)
      PROVE  TypeOK'
  <2>1. 1 \in DOMAIN Containers(p) /\ p # Nil
    BY ViewProperties, NilAssumption DEF TypeOK
  <2>2. /\ view' = view /\ winners' = winners /\ next' = 1 /\ pod' = p
        /\ todo' = todo \ {p} /\ todo \subseteq Pods
    BY <1>1 DEF TakePod, TypeOK
  <2>3. \A w \in winners' : \E q \in Pods : \E i \in DOMAIN Containers(q)' :
            Considered(q, i)' /\ w = Candidate(q, i)'
    BY <1>1, <2>2, TakePodConsiders, CandidateUnchanged DEF TypeOK
  <2> QED BY <2>1, <2>2, <2>3, CandidateUnchanged DEF TypeOK
<1>2. CASE TakeContainer
  <2>1. /\ pod \in Pods /\ pod \notin todo /\ next \in DOMAIN Containers(pod)
        /\ view' = view /\ todo' = todo /\ winners' = Collapse(winners, Candidate(pod, next))
    BY <1>2 DEF TakeContainer, TypeOK
  <2>2. winners' \subseteq winners \cup {Candidate(pod, next)}
    BY <2>1, CollapseKeeps
  <2>3. \A w \in winners' : \E q \in Pods : \E i \in DOMAIN Containers(q)' :
            Considered(q, i)' /\ w = Candidate(q, i)'
    BY <1>2, <2>1, <2>2, TakeContainerConsiders, CandidateUnchanged DEF TypeOK
  <2>4. /\ next' \in Nat \ {0}
        /\ pod' \in (Pods \ todo) \cup {Nil}
        /\ pod' # Nil => next' \in DOMAIN Containers(pod')
        /\ pod' = Nil => next' = 1
    BY <1>2, <2>1, NilAssumption, ViewProperties DEF TakeContainer, TypeOK
  <2>5. pod' # Nil => pod' = pod
    BY <1>2 DEF TakeContainer
  <2> QED BY <2>1, <2>3, <2>4, <2>5, CandidateUnchanged DEF TypeOK
<1>3. CASE UNCHANGED vars
  BY <1>3 DEF vars, TypeOK, Containers, Candidate, Considered
<1> QED BY <1>1, <1>2, <1>3 DEF Next, Return

\* The fold stays within the pods and containers it was given, and what it has
\* chosen are containers it has considered.
THEOREM TypeCorrect == Spec => []TypeOK
<1>1. Init => TypeOK
  BY DEF Init, TypeOK
<1> QED BY <1>1, NextTypeOK, PTL DEF Spec

-----------------------------------------------------------------------------
(***************************************************************************)
(* Completeness.                                                           *)
(***************************************************************************)
LEMMA NextComplete ==
  ASSUME TypeOK, SnapshotComplete, [Next]_vars
  PROVE  SnapshotComplete'
<1>1. Collapsed(winners)
  BY DEF Collapsed, SnapshotComplete
<1>2. ASSUME NEW p \in Pods, TakePod(p)
      PROVE  SnapshotComplete'
  <2>1. view' = view /\ winners' = winners
    BY <1>2 DEF TakePod
  <2>2. ASSUME NEW q \in Pods, NEW i \in DOMAIN Containers(q),
               Considered(q, i)', Candidate(q, i).digest # ""
        PROVE  \E w \in winners : w.dn = Candidate(q, i).dn
    BY <1>2, <2>2, TakePodConsiders DEF SnapshotComplete
  <2> QED BY <1>1, <2>1, <2>2 DEF Collapsed, SnapshotComplete, Containers, Candidate
<1>3. CASE TakeContainer
  <2> DEFINE c == Candidate(pod, next)
  <2>1. view' = view /\ winners' = Collapse(winners, c)
    BY <1>3 DEF TakeContainer
  <2> HIDE DEF c
  <2>2. /\ Collapsed(winners')
        /\ \A v \in winners : \E w \in winners' : w.dn = v.dn
        /\ c.digest # "" => \E w \in winners' : w.dn = c.dn
    <3>1. /\ Collapsed(Collapse(winners, c))
          /\ \A v \in winners : \E w \in Collapse(winners, c) : w.dn = v.dn
          /\ c.digest # "" => \E w \in Collapse(winners, c) : w.dn = c.dn
      BY <1>1, CollapseProperties
    <3> QED BY <2>1, <3>1 DEF Collapsed
  <2>3. ASSUME NEW p \in Pods, NEW i \in DOMAIN Containers(p),
               Considered(p, i)', Candidate(p, i).digest # ""
        PROVE  \E w \in winners' : w.dn = Candidate(p, i).dn
    <3>1. Considered(p, i) \/ Candidate(p, i) = c
      BY <1>3, <2>3, TakeContainerConsiders DEF c
    <3>2. CASE Considered(p, i)
      <4>1. PICK v \in winners : v.dn = Candidate(p, i).dn
        BY <2>3, <3>2 DEF SnapshotComplete
      <4> QED BY <2>2, <4>1
    <3> QED BY <2>2, <2>3, <3>1, <3>2
  <2>4. view' = view
    BY <2>1
  <2>5. \A p \in Pods : \A i \in DOMAIN Containers(p)' :
            Considered(p, i)' /\ Candidate(p, i)'.digest # "" =>
                \E w \in winners' : w.dn = Candidate(p, i)'.dn
    BY <2>3, <2>4 DEF Containers, Candidate
  <2> QED BY <2>2, <2>5 DEF Collapsed, SnapshotComplete
<1>4. CASE UNCHANGED vars
  BY <1>4 DEF vars, SnapshotComplete, Containers, Candidate, Considered
<1> QED BY <1>2, <1>3, <1>4 DEF Next, Return

LEMMA CompleteInvariant == Spec => [](TypeOK /\ SnapshotComplete)
<1>1. Init => SnapshotComplete
  BY DEF Init, SnapshotComplete, Considered
<1>2. TypeOK /\ SnapshotComplete /\ [Next]_vars => SnapshotComplete'
  BY NextComplete
<1> QED BY TypeCorrect, <1>1, <1>2, PTL DEF Spec

\* Deployment names are unique in what is submitted, and a name of which a container
\* with a digest was listed is in it, for any pods listed in any order.
THEOREM NothingMissing == Spec => []SnapshotComplete
BY CompleteInvariant, PTL

-----------------------------------------------------------------------------
(***************************************************************************)
(* The rollout target.                                                     *)
(***************************************************************************)
\* A target beats whatever the fold has chosen for its name, and is not beaten: the
\* candidates it is compared with are those of other places.
LEMMA NextUniqueTargetWins ==
  ASSUME TypeOK, UniqueTargetWins, [Next]_vars
  PROVE  UniqueTargetWins'
<1>0. ASSUME UNCHANGED view, NEW p, NEW i
      PROVE  IsUniqueTarget(p, i)' <=> IsUniqueTarget(p, i)
  BY <1>0 DEF IsUniqueTarget, Containers, Candidate
<1>1. ASSUME NEW p \in Pods, TakePod(p)
      PROVE  UniqueTargetWins'
  <2>1. view' = view /\ winners' = winners
    BY <1>1 DEF TakePod
  <2>2. ASSUME NEW q \in Pods, NEW i \in DOMAIN Containers(q), Considered(q, i)', IsUniqueTarget(q, i)
        PROVE  Candidate(q, i) \in winners
    BY <1>1, <2>2, TakePodConsiders DEF UniqueTargetWins
  <2> QED BY <1>0, <2>1, <2>2, CandidateUnchanged DEF UniqueTargetWins
<1>2. CASE TakeContainer
  <2> DEFINE c == Candidate(pod, next)
             existing == {x \in winners : x.dn = c.dn}
             taken == c.digest # "" /\ \A x \in existing : x.digest # c.digest /\ IsPreferredSyncPod(c, x)
  <2>1. /\ view' = view /\ pod \in Pods /\ next \in DOMAIN Containers(pod)
        /\ winners' = IF taken THEN (winners \ existing) \cup {c} ELSE winners
    BY <1>2 DEF TakeContainer, TypeOK, Collapse
  <2>2. ~Considered(pod, next)
    BY <1>2 DEF Considered, TypeOK
  <2>3. ASSUME NEW p \in Pods, NEW i \in DOMAIN Containers(p),
               Considered(p, i)', IsUniqueTarget(p, i)
        PROVE  Candidate(p, i) \in winners'
    <3>1. CASE p = pod /\ i = next
      <4>1. ASSUME NEW x \in existing
            PROVE  x.digest # c.digest /\ IsPreferredSyncPod(c, x)
        <5>1. PICK q \in Pods : \E j \in DOMAIN Containers(q) :
                  Considered(q, j) /\ x = Candidate(q, j)
          BY DEF TypeOK
        <5>2. PICK j \in DOMAIN Containers(q) : Considered(q, j) /\ x = Candidate(q, j)
          BY <5>1
        <5>3. <<q, j>> # <<p, i>>
          BY <2>2, <3>1, <5>2
        <5> QED BY <2>3, <3>1, <4>1, <5>2, <5>3 DEF IsUniqueTarget
      <4>2. c.digest # ""
        BY <2>3, <3>1 DEF IsUniqueTarget
      <4> QED BY <2>1, <3>1, <4>1, <4>2
    <3>2. CASE ~(p = pod /\ i = next)
      <4>1. Candidate(p, i) \in winners
        BY <1>2, <2>3, <3>2, TakeContainerConsiders DEF UniqueTargetWins
      <4>2. ASSUME taken, Candidate(p, i) \in existing
            PROVE  FALSE
        <5>1. IsPreferredSyncPod(c, Candidate(p, i)) /\ c.dn = Candidate(p, i).dn
          BY <4>2
        <5>2. IsPreferredSyncPod(Candidate(p, i), c)
          BY <2>1, <2>3, <3>2, <5>1 DEF IsUniqueTarget
        <5>3. /\ Candidate(p, i).created \in Nat /\ c.created \in Nat
              /\ Candidate(p, i).running \in BOOLEAN /\ c.running \in BOOLEAN
          BY <2>1, ViewProperties DEF TypeOK, Candidate
        <5> HIDE DEF c
        <5> QED BY <5>1, <5>2, <5>3, PreferenceIsStrict
      <4> HIDE DEF c, existing, taken
      <4> QED BY <2>1, <4>1, <4>2
    <3> QED BY <3>1, <3>2
  <2> HIDE DEF c, existing, taken
  <2> QED BY <1>0, <2>1, <2>3 DEF UniqueTargetWins, Containers, Candidate
<1>3. CASE UNCHANGED vars
  <2>1. UNCHANGED <<view, todo, pod, next, winners>>
    BY <1>3 DEF vars
  <2> QED BY <1>0, <2>1 DEF UniqueTargetWins, Containers, Candidate, Considered
<1> QED BY <1>1, <1>2, <1>3 DEF Next, Return

\* In whatever order any pods are listed, a pod that is preferred to all others of its
\* name and alone with its digest is what the snapshot reports.
THEOREM TargetWins == Spec => []UniqueTargetWins
<1>1. Init => UniqueTargetWins
  BY DEF Init, UniqueTargetWins, Considered
<1>2. TypeOK /\ UniqueTargetWins /\ [Next]_vars => UniqueTargetWins'
  BY NextUniqueTargetWins
<1> QED BY TypeCorrect, <1>1, <1>2, PTL DEF Spec

=============================================================================
