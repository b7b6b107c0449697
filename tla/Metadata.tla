------------------------------- MODULE Metadata -------------------------------
(***************************************************************************)
(* The metadata aggregator, internal/metadata/metadata.go: a breadth-first *)
(* search from a pod through the owners the API server returns, which      *)
(* collects runtime risks and a limited number of custom tags.             *)
(*                                                                         *)
(* Owner references may form cycles, an owner may be reached twice, and    *)
(* each GET of an owner may fail.  What an object's references are, and    *)
(* which of them can be fetched, is decided when the object is visited.    *)
(***************************************************************************)
EXTENDS Naturals, Sequences, FiniteSets

CONSTANTS
    Objects,        \* the pod and the objects that may own something, by UID
    Pod,            \* the pod the search starts from
    Fetchable,      \* the objects of a kind that getOwnerMetadata supports
    OwnerLists,     \* the owner references an object may have
    Annotations,    \* object -> its custom tags: [key, ok], ok if within the limits
    Risks,          \* object -> the valid runtime risks it is annotated with
    MaxCustomTags

ASSUME ObjectsAssumption ==
    IsFiniteSet(Objects) /\ Pod \in Objects /\ Fetchable \subseteq Objects
ASSUME OwnerListsAssumption == OwnerLists \subseteq Seq(Objects)
ASSUME LimitAssumption == MaxCustomTags \in Nat
ASSUME KeysAssumption ==
    \A o \in Objects :
        IsFiniteSet(Annotations[o]) /\ \A t \in Annotations[o] : t.key \in Nat

VARIABLES
    queue,    \* the objects to visit
    current,  \* the object visited last
    refs,     \* its owner references that are not looked up yet
    visited,  \* the objects visited
    tags,     \* the tags collected: <<key, the object the value is from>>
    risks,    \* the runtime risks collected
    edges     \* history: <<object, owner>> that could be fetched

vars == <<queue, current, refs, visited, tags, risks, edges>>

ValidKeys(o) == {t.key : t \in {a \in Annotations[o] : a.ok}}
TakenKeys == {t[1] : t \in tags}

\* A faulty variant: the limit is looked at once per object.
TagsOfUnlimited(o) ==
    IF Cardinality(tags) < MaxCustomTags
    THEN {<<k, o>> : k \in ValidKeys(o) \ TakenKeys} ELSE {}

\* The tags an object adds: in the order of their keys, those not there yet, until
\* the limit is reached.
TagsOf(o) ==
    LET new == ValidKeys(o) \ TakenKeys
    IN  {<<k, o>> : k \in {k \in new :
            Cardinality(tags) + Cardinality({j \in new : j < k}) < MaxCustomTags}}

\* A faulty variant: depth first.
EnqueueFirst(o) == queue' = <<o>> \o queue

Enqueue(o) == queue' = Append(queue, o)

\* A faulty variant: the object is not marked.
VisitUnmarked(o) ==
    /\ o \notin visited
    /\ queue' = Tail(queue)
    /\ current' = o
    /\ UNCHANGED visited
    /\ tags' = tags \cup TagsOf(o)
    /\ risks' = risks \cup Risks[o]
    /\ refs' \in OwnerLists
    /\ \E got \in SUBSET ({refs'[i] : i \in DOMAIN refs'} \cap Fetchable) :
            edges' = edges \cup ({o} \X got)

\* One round of the loop, for an object that was not visited ...
Visit(o) ==
    /\ o \notin visited
    /\ queue' = Tail(queue)
    /\ current' = o
    /\ visited' = visited \cup {o}
    /\ tags' = tags \cup TagsOf(o)
    /\ risks' = risks \cup Risks[o]
    /\ refs' \in OwnerLists
    /\ \E got \in SUBSET ({refs'[i] : i \in DOMAIN refs'} \cap Fetchable) :
            edges' = edges \cup ({o} \X got)

\* ... and for one that was.
Skip(o) ==
    /\ o \in visited
    /\ queue' = Tail(queue)
    /\ UNCHANGED <<current, refs, visited, tags, risks, edges>>

\* addOwnersToQueue: the GET of an owner succeeds ...
OwnerFetched ==
    /\ <<current, Head(refs)>> \in edges
    /\ Enqueue(Head(refs))
    /\ refs' = Tail(refs)
    /\ UNCHANGED <<current, visited, tags, risks, edges>>

\* A faulty variant: the first owner that is not there ends the loop.
OwnerMissingReturns ==
    /\ <<current, Head(refs)>> \notin edges
    /\ refs' = <<>>
    /\ UNCHANGED <<queue, current, visited, tags, risks, edges>>

\* ... or it fails, finds nothing, or is not tried for an owner of this kind.
OwnerMissing ==
    /\ <<current, Head(refs)>> \notin edges
    /\ refs' = Tail(refs)
    /\ UNCHANGED <<queue, current, visited, tags, risks, edges>>

Init ==
    /\ queue = <<Pod>>
    /\ current = Pod
    /\ refs = <<>>
    /\ visited = {}
    /\ tags = {}
    /\ risks = {}
    /\ edges = {}

Finished == queue = <<>> /\ refs = <<>>
Return == Finished /\ UNCHANGED vars

Next ==
    \/ refs = <<>> /\ queue # <<>> /\ (Visit(Head(queue)) \/ Skip(Head(queue)))
    \/ refs # <<>> /\ (OwnerFetched \/ OwnerMissing)
    \/ Return

\* The loop runs until it ends: each GET returns or fails.
Spec == Init /\ [][Next]_vars /\ WF_vars(Next)

-----------------------------------------------------------------------------
(***************************************************************************)
(* Reference definitions: the objects at most n owners away from the pod,  *)
(* and all that its owners lead to.                                        *)
(***************************************************************************)
Near[n \in Nat] ==
    IF n = 0 THEN {Pod}
    ELSE LET nearer == Near[n - 1]
         IN  nearer \cup {o \in Objects : \E p \in nearer : <<p, o>> \in edges}

Closed(S) == Pod \in S /\ \A e \in edges : e[1] \in S => e[2] \in S
Reachable == {o \in Objects : \A S \in SUBSET Objects : Closed(S) => o \in S}

TypeOK ==
    /\ queue \in Seq(Objects)
    /\ current \in Objects
    /\ refs \in Seq(Objects)
    /\ visited \subseteq Objects
    /\ tags \subseteq Nat \X Objects
    /\ risks \subseteq UNION {Risks[o] : o \in Objects}
    /\ edges \subseteq Objects \X Fetchable
    /\ \A t, u \in tags : t[1] = u[1] => t = u
    /\ Cardinality(tags) <= MaxCustomTags

\* Cycles of owner references do not keep the search going for ever.
Terminates == <>Finished

\* A failed GET, a cycle or an owner reached twice costs nothing else: the search
\* visits what is reachable through the GETs that succeeded and nothing more,
\* collects all its risks, and leaves out a tag only when the limit is reached.
Complete ==
    Finished =>
        /\ visited = Reachable
        /\ risks = UNION {Risks[o] : o \in Reachable}
        /\ \A o \in Reachable :
              ValidKeys(o) \subseteq TakenKeys \/ Cardinality(tags) = MaxCustomTags

\* A tag that several objects set has the value of the one closest to the pod,
\* whatever the order of the references and the cycles on the way.
NearestWins ==
    \A n \in 0 .. Cardinality(Objects) :
        LET near == Near[n]
        IN  \A t \in tags : t[2] \notin near =>
                \A o \in near \cap visited : t[1] \notin ValidKeys(o)
=============================================================================
