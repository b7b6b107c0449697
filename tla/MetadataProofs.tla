----------------------------- MODULE MetadataProofs -----------------------------
(***************************************************************************)
(* The metadata aggregator, for any objects, owner references, cycles and  *)
(* failing GETs: it keeps the limit on tags, it visits what is reachable   *)
(* through the GETs that succeed and nothing more, and of several values   *)
(* of a tag it takes that of the object closest to the pod.                *)
(***************************************************************************)
EXTENDS Metadata, FiniteSetTheorems, NaturalsInduction, WellFoundedInduction, TLAPS

Below == {pair \in Nat \X Nat : pair[1] < pair[2]}

LEMMA LeastElement ==
    ASSUME NEW T \in SUBSET Nat, T # {}
    PROVE  \E x \in T : \A y \in T : x <= y
<1>1. IsWellFoundedOn(Below, Nat)
  BY NatLessThanWellFounded DEF OpToRel, Below
<1>2. PICK x \in T : \A y \in T : <<y, x>> \notin Below
  BY <1>1, WFMin
<1>3. ASSUME NEW y \in T PROVE x <= y
  <2>1. <<y, x>> \in Nat \X Nat /\ <<y, x>> \notin Below
    BY <1>2
  <2>2. ~(y < x)
    BY <2>1, Zenon DEF Below
  <2> QED
    BY <2>2
<1> QED
  BY <1>3

(***************************************************************************)
(* The limit on custom tags (extractMetadataFromObject).                   *)
(***************************************************************************)
\* The first m of a set of keys, in their order.
Before(keys, k) == {j \in keys : j < k}
First(keys, m) == {k \in keys : Cardinality(Before(keys, k)) < m}

LEMMA BeforeType ==
    ASSUME NEW keys \in SUBSET Nat, IsFiniteSet(keys), NEW k \in keys
    PROVE  /\ IsFiniteSet(Before(keys, k)) /\ Cardinality(Before(keys, k)) \in Nat
           /\ k \in Nat /\ Before(keys, k) \subseteq keys
           /\ \A j \in keys : j \in Before(keys, k) <=> j < k
BY FS_Subset, FS_CardinalityType DEF Before

LEMMA FirstBounded ==
    ASSUME NEW keys \in SUBSET Nat, IsFiniteSet(keys), NEW m \in Nat
    PROVE  IsFiniteSet(First(keys, m)) /\ Cardinality(First(keys, m)) <= m
<1> DEFINE rank(k) == Cardinality(Before(keys, k))
           chosen == First(keys, m)
<1>1. chosen \subseteq keys /\ \A k \in chosen : rank(k) < m
  BY DEF First
<1>2. IsFiniteSet(chosen) /\ Cardinality(chosen) \in Nat
  BY <1>1, FS_Subset, FS_CardinalityType
<1>3. \A k \in keys : rank(k) \in Nat
  BY BeforeType
<1> HIDE DEF rank, chosen
<1>4. CASE chosen = {}
  BY <1>2, <1>4, FS_EmptySet DEF chosen
<1>5. CASE chosen # {}
  <2> DEFINE T == {m - rank(k) : k \in chosen}
  <2>1. T \in SUBSET Nat /\ T # {}
    <3>1. \A k \in chosen : m - rank(k) \in Nat
      BY <1>1, <1>3
    <3> QED
      BY <1>5, <3>1
  <2>2. PICK x \in T : \A y \in T : x <= y
    BY <2>1, LeastElement
  <2>3. PICK k \in chosen : x = m - rank(k)
    BY <2>2
  <2>4. k \in keys /\ k \in Nat /\ rank(k) \in Nat /\ rank(k) < m
    BY <1>1, <1>3
  <2>5. ASSUME NEW j \in chosen PROVE j \in keys /\ j \in Nat /\ rank(j) <= rank(k)
    <3>1. j \in keys /\ j \in Nat /\ rank(j) \in Nat /\ m - rank(j) \in T
      BY <1>1, <1>3
    <3>2. x <= m - rank(j)
      BY <2>2, <3>1
    <3> QED
      BY <2>3, <2>4, <3>1, <3>2
  <2>6. ASSUME NEW j \in chosen, j > k PROVE FALSE
    <3>1. Before(keys, k) \cup {k} \in SUBSET Before(keys, j) /\ k \notin Before(keys, k)
      <4>1. k \in Nat /\ j \in Nat /\ k < j /\ j \in keys /\ k \in keys
        BY <2>4, <2>5, <2>6
      <4>2. k \in Before(keys, j) /\ k \notin Before(keys, k)
        BY <4>1 DEF Before
      <4>3. ASSUME NEW i \in Before(keys, k) PROVE i \in Before(keys, j)
        <5>1. i \in keys /\ i \in Nat /\ i < k
          BY DEF Before
        <5> QED
          BY <4>1, <5>1 DEF Before
      <4> QED
        BY <4>2, <4>3
    <3>2. Cardinality(Before(keys, k) \cup {k}) = rank(k) + 1
      BY <2>4, <3>1, BeforeType, FS_AddElement DEF rank
    <3>3. Cardinality(Before(keys, k) \cup {k}) <= rank(j)
      BY <2>5, <3>1, BeforeType, FS_Subset DEF rank
    <3>4. rank(j) \in Nat /\ rank(j) <= rank(k)
      BY <1>3, <2>5
    <3> QED
      BY <2>4, <3>2, <3>3, <3>4
  <2>7. chosen \ {k} \in SUBSET Before(keys, k)
    <3>1. ASSUME NEW j \in chosen, j # k PROVE j \in Before(keys, k)
      BY <2>4, <2>5, <2>6, <3>1 DEF Before
    <3> QED
      BY <3>1
  <2>8. Cardinality(chosen \ {k}) <= rank(k)
    BY <2>4, <2>7, BeforeType, FS_Subset DEF rank
  <2>9. Cardinality(chosen \ {k}) = Cardinality(chosen) - 1
    BY <1>2, FS_RemoveElement
  <2> QED
    BY <1>2, <2>4, <2>8, <2>9 DEF chosen
<1> QED
  BY <1>2, <1>4, <1>5 DEF chosen

\* All keys are among the first m, unless there are m of those.
LEMMA FirstFilled ==
    ASSUME NEW keys \in SUBSET Nat, IsFiniteSet(keys), NEW m \in Nat
    PROVE  keys \subseteq First(keys, m) \/ Cardinality(First(keys, m)) = m
<1> DEFINE left == keys \ First(keys, m)
<1>1. /\ IsFiniteSet(First(keys, m)) /\ Cardinality(First(keys, m)) \in Nat
      /\ Cardinality(First(keys, m)) <= m
  BY FirstBounded, FS_CardinalityType
<1>2. SUFFICES ASSUME left # {} PROVE Cardinality(First(keys, m)) >= m
  BY <1>1
<1>3. PICK k \in left : \A j \in left : k <= j
  BY <1>2, LeastElement
<1>4. k \in keys /\ ~(Cardinality(Before(keys, k)) < m)
  BY DEF First
<1>5. Before(keys, k) \in SUBSET First(keys, m)
  <2>1. ASSUME NEW j \in Before(keys, k) PROVE j \in First(keys, m)
    <3>1. j \in keys /\ j < k /\ j \in Nat /\ k \in Nat
      BY <1>4 DEF Before
    <3> QED
      BY <1>3, <3>1
  <2> QED
    BY <2>1
<1>6. Cardinality(Before(keys, k)) \in Nat
  BY <1>4, BeforeType
<1>7. Cardinality(Before(keys, k)) <= Cardinality(First(keys, m))
  BY <1>1, <1>5, FS_Subset
<1> QED
  BY <1>1, <1>4, <1>6, <1>7

LEMMA ValidKeysType ==
    ASSUME NEW o \in Objects
    PROVE  ValidKeys(o) \subseteq Nat /\ IsFiniteSet(ValidKeys(o))
<1> DEFINE valid == {a \in Annotations[o] : a.ok}
           keyOf == [t \in valid |-> t.key]
<1>1. valid \in SUBSET Annotations[o] /\ IsFiniteSet(Annotations[o])
  BY KeysAssumption
<1>2. IsFiniteSet(valid)
  BY <1>1, FS_Subset
<1>3. keyOf \in Surjection(valid, ValidKeys(o))
  BY DEF ValidKeys, Surjection
<1> QED
  BY <1>2, <1>3, KeysAssumption, FS_Surjection DEF ValidKeys

\* What the tags are at any time, as far as one object is concerned.
TagsInv ==
    /\ tags \subseteq Nat \X Objects
    /\ IsFiniteSet(tags)
    /\ \A t, u \in tags : t[1] = u[1] => t = u
    /\ Cardinality(tags) <= MaxCustomTags

\* An object adds tags of its own that were not taken, all of them or up to the limit.
LEMMA TagsAdded ==
    ASSUME TagsInv, NEW o \in Objects, tags' = tags \cup TagsOf(o)
    PROVE  /\ TagsInv'
           /\ \A t \in tags' : t \in tags \/
                 (t[2] = o /\ t[1] \notin TakenKeys /\ Cardinality(tags) < MaxCustomTags)
           /\ ValidKeys(o) \subseteq TakenKeys' \/ Cardinality(tags') = MaxCustomTags
           /\ Cardinality(tags) = MaxCustomTags => tags' = tags
<1> DEFINE new == ValidKeys(o) \ TakenKeys
           m == MaxCustomTags - Cardinality(tags)
           chosen == First(new, m)
           added == {<<k, o>> : k \in chosen}
<1>1. IsFiniteSet(tags) /\ Cardinality(tags) \in Nat /\ m \in Nat
  BY FS_CardinalityType, LimitAssumption DEF TagsInv
<1>2. new \in SUBSET Nat /\ IsFiniteSet(new)
  BY ValidKeysType, FS_Subset
<1>3. \A k \in new : Cardinality(Before(new, k)) \in Nat
  BY <1>2, BeforeType
<1>4. chosen \subseteq new /\ IsFiniteSet(chosen)
      /\ Cardinality(chosen) \in Nat /\ Cardinality(chosen) <= m
      /\ (new \subseteq chosen \/ Cardinality(chosen) = m)
  <2>1. chosen \subseteq new
    BY DEF First
  <2> HIDE DEF new, m
  <2> QED
    BY <1>1, <1>2, <2>1, FirstBounded, FirstFilled, FS_CardinalityType
<1>5. TagsOf(o) = added
  <2>1. chosen = {k \in new : Cardinality(tags) + Cardinality(Before(new, k)) < MaxCustomTags}
    <3> HIDE DEF new
    <3>1. \A k \in new : (Cardinality(Before(new, k)) < m)
                          <=> (Cardinality(tags) + Cardinality(Before(new, k)) < MaxCustomTags)
      BY <1>1, <1>3, LimitAssumption
    <3> QED
      BY <3>1 DEF First
  <2> QED
    BY <2>1 DEF TagsOf, Before
<1> HIDE DEF chosen
<1>6. IsFiniteSet(added) /\ Cardinality(added) = Cardinality(chosen)
  <2> DEFINE pair == [k \in chosen |-> <<k, o>>]
  <2>1. pair \in Bijection(chosen, added)
    BY DEF Bijection, Injection, Surjection, IsInjective
  <2> QED
    BY <1>4, <2>1, FS_Bijection DEF ExistsBijection
<1>7. \A t \in added : t[2] = o /\ t[1] \in new /\ t[1] \in chosen
  BY <1>4
<1>8. tags \cap added = {}
  BY <1>7 DEF TakenKeys
<1>9. IsFiniteSet(tags') /\ Cardinality(tags') = Cardinality(tags) + Cardinality(chosen)
  <2> HIDE DEF added, new, m
  <2>1. IsFiniteSet(tags \cup added) /\ Cardinality(tags \cup added)
          = Cardinality(tags) + Cardinality(added) - Cardinality(tags \cap added)
    BY <1>1, <1>6, FS_Union
  <2>2. Cardinality(tags \cap added) = 0
    BY <1>8, FS_EmptySet
  <2> QED
    BY <1>1, <1>4, <1>5, <1>6, <2>1, <2>2
<1>10. TagsInv'
  <2>1. tags' \subseteq Nat \X Objects
    BY <1>2, <1>4, <1>5 DEF TagsInv
  <2>2. ASSUME NEW t \in tags', NEW u \in tags', t[1] = u[1] PROVE t = u
    <3>1. CASE t \in tags /\ u \in tags
      BY <2>2, <3>1 DEF TagsInv
    <3>2. CASE t \in added /\ u \in added
      BY <2>2, <3>2
    <3>3. CASE t \in tags /\ u \in added
      BY <1>7, <2>2, <3>3 DEF TakenKeys
    <3>4. CASE t \in added /\ u \in tags
      BY <1>7, <2>2, <3>4 DEF TakenKeys
    <3> QED
      BY <1>5, <3>1, <3>2, <3>3, <3>4
  <2>3. Cardinality(tags') <= MaxCustomTags
    BY <1>1, <1>4, <1>9, LimitAssumption
  <2> QED
    BY <1>9, <2>1, <2>2, <2>3 DEF TagsInv
<1>11. m = 0 => chosen = {}
  BY <1>4, FS_EmptySet
<1>12. \A t \in tags' : t \in tags \/
           (t[2] = o /\ t[1] \notin TakenKeys /\ Cardinality(tags) < MaxCustomTags)
  <2>1. ASSUME NEW t \in added PROVE Cardinality(tags) < MaxCustomTags
    BY <1>1, <1>7, <1>11, LimitAssumption
  <2> QED
    BY <1>5, <1>7, <2>1
<1>13. ValidKeys(o) \subseteq TakenKeys' \/ Cardinality(tags') = MaxCustomTags
  <2>1. CASE new \subseteq chosen
    <3>1. ASSUME NEW k \in ValidKeys(o) PROVE k \in TakenKeys'
      <4>1. CASE k \in TakenKeys
        BY <1>5, <4>1 DEF TakenKeys
      <4>2. CASE k \in new
        <5>1. <<k, o>> \in tags' /\ <<k, o>>[1] = k
          BY <1>5, <2>1, <4>2
        <5> QED
          BY <5>1, Zenon DEF TakenKeys
      <4> QED
        BY <4>1, <4>2
    <3> QED
      BY <3>1
  <2>2. CASE Cardinality(chosen) = m
    BY <1>1, <1>9, <2>2, LimitAssumption
  <2> QED
    BY <1>4, <2>1, <2>2
<1>14. Cardinality(tags) = MaxCustomTags => tags' = tags
  BY <1>1, <1>5, <1>11, LimitAssumption
<1> QED
  BY <1>10, <1>12, <1>13, <1>14

(***************************************************************************)
(* The search.  What a step is, and what it does to the sequences.         *)
(***************************************************************************)
Among(x, s) == \E i \in DOMAIN s : s[i] = x

LEMMA Empty == \A x : ~Among(x, <<>>)
BY DEF Among

LEMMA HeadAndTail ==
    ASSUME NEW S, NEW s \in Seq(S), s # <<>>
    PROVE  /\ Head(s) \in S /\ Tail(s) \in Seq(S)
           /\ Among(Head(s), s)
           /\ \A x : Among(x, s) <=> x = Head(s) \/ Among(x, Tail(s))
<1>1. /\ Head(s) \in S /\ Head(s) = s[1] /\ Tail(s) \in Seq(S)
      /\ Len(s) \in Nat /\ Len(s) > 0 /\ Len(Tail(s)) = Len(s) - 1
      /\ DOMAIN s = 1 .. Len(s) /\ DOMAIN Tail(s) = 1 .. Len(s) - 1
      /\ \A i \in 1 .. Len(s) - 1 : Tail(s)[i] = s[i + 1]
  OBVIOUS
<1>2. ASSUME NEW x, Among(x, s) PROVE x = Head(s) \/ Among(x, Tail(s))
  <2>1. PICK i \in 1 .. Len(s) : s[i] = x
    BY <1>1, <1>2 DEF Among
  <2>2. CASE i = 1
    BY <1>1, <2>1, <2>2
  <2>3. CASE i # 1
    <3>1. i - 1 \in 1 .. Len(s) - 1 /\ (i - 1) + 1 = i
      BY <1>1, <2>1, <2>3
    <3>2. Tail(s)[i - 1] = x
      BY <1>1, <2>1, <3>1
    <3> QED
      BY <1>1, <3>1, <3>2 DEF Among
  <2> QED
    BY <2>2, <2>3
<1>3. ASSUME NEW x, x = Head(s) \/ Among(x, Tail(s)) PROVE Among(x, s)
  <2>1. CASE x = Head(s)
    BY <1>1, <2>1 DEF Among
  <2>2. CASE Among(x, Tail(s))
    <3>1. PICK i \in 1 .. Len(s) - 1 : Tail(s)[i] = x
      BY <1>1, <2>2 DEF Among
    <3>2. i + 1 \in 1 .. Len(s) /\ s[i + 1] = x
      BY <1>1, <3>1
    <3> QED
      BY <1>1, <3>2 DEF Among
  <2> QED
    BY <1>3, <2>1, <2>2
<1> QED
  BY <1>1, <1>2, <1>3

LEMMA Appended ==
    ASSUME NEW S, NEW s \in Seq(S), NEW e \in S
    PROVE  /\ Append(s, e) \in Seq(S)
           /\ \A x : Among(x, Append(s, e)) <=> Among(x, s) \/ x = e
<1>1. /\ Append(s, e) \in Seq(S) /\ Len(s) \in Nat
      /\ DOMAIN s = 1 .. Len(s) /\ DOMAIN Append(s, e) = 1 .. Len(s) + 1
      /\ Append(s, e)[Len(s) + 1] = e
      /\ \A i \in 1 .. Len(s) : Append(s, e)[i] = s[i]
  OBVIOUS
<1>2. ASSUME NEW x, Among(x, Append(s, e)) PROVE Among(x, s) \/ x = e
  <2>1. PICK i \in 1 .. Len(s) + 1 : Append(s, e)[i] = x
    BY <1>1, <1>2 DEF Among
  <2>2. i \in 1 .. Len(s) \/ i = Len(s) + 1
    BY <1>1, <2>1
  <2> QED
    BY <1>1, <2>1, <2>2 DEF Among
<1>3. ASSUME NEW x, Among(x, s) \/ x = e PROVE Among(x, Append(s, e))
  <2>1. CASE Among(x, s)
    <3>1. PICK i \in 1 .. Len(s) : s[i] = x
      BY <1>1, <2>1 DEF Among
    <3>2. i \in 1 .. Len(s) + 1
      BY <1>1, <3>1
    <3> QED
      BY <1>1, <3>1, <3>2 DEF Among
  <2>2. CASE x = e
    <3>1. Len(s) + 1 \in 1 .. Len(s) + 1
      BY <1>1
    <3> QED
      BY <1>1, <2>2, <3>1 DEF Among
  <2> QED
    BY <1>3, <2>1, <2>2
<1> QED
  BY <1>1, <1>2, <1>3

\* The edges an object adds are to owners it refers to, which could be fetched.
Visited(o) ==
    /\ Visit(o)
    /\ refs' \in Seq(Objects)
    /\ edges \subseteq edges'
    /\ \A e \in edges' : e \in edges \/ (e \in Objects \X Fetchable
                                         /\ e = <<o, e[2]>> /\ Among(e[2], refs'))

LEMMA VisitStep ==
    ASSUME NEW o \in Objects, Visit(o)
    PROVE  Visited(o)
<1>1. refs' \in Seq(Objects)
  BY OwnerListsAssumption DEF Visit
<1>2. PICK got \in SUBSET ({refs'[i] : i \in DOMAIN refs'} \cap Fetchable) :
        edges' = edges \cup ({o} \X got)
  BY DEF Visit
<1>3. ASSUME NEW e \in {o} \X got
      PROVE  e \in Objects \X Fetchable /\ e = <<o, e[2]>> /\ Among(e[2], refs')
  BY DEF Among
<1> QED
  BY <1>1, <1>2, <1>3 DEF Visited

\* The steps of the search, by the state they are taken in.
LEMMA NextCases ==
    ASSUME queue \in Seq(Objects), refs \in Seq(Objects), [Next]_vars
    PROVE  \/ refs = <<>> /\ queue # <<>> /\ Visited(Head(queue))
           \/ refs = <<>> /\ queue # <<>> /\ Skip(Head(queue))
           \/ refs # <<>> /\ OwnerFetched
           \/ refs # <<>> /\ OwnerMissing
           \/ UNCHANGED vars
<1>1. queue # <<>> => Head(queue) \in Objects
  BY HeadAndTail
<1> QED
  BY <1>1, VisitStep DEF Next, Return

(***************************************************************************)
(* Type correctness.                                                       *)
(***************************************************************************)
Typed ==
    /\ queue \in Seq(Objects)
    /\ current \in Objects
    /\ refs \in Seq(Objects)
    /\ visited \subseteq Objects
    /\ risks \subseteq UNION {Risks[o] : o \in Objects}
    /\ edges \subseteq Objects \X Fetchable
    /\ TagsInv

LEMMA TypedInit ==
    ASSUME Init
    PROVE  Typed
<1>1. <<Pod>> \in Seq(Objects) /\ <<>> \in Seq(Objects) /\ Pod \in Objects
  BY ObjectsAssumption
<1>2. TagsInv
  BY FS_EmptySet, LimitAssumption DEF Init, TagsInv
<1> QED
  BY <1>1, <1>2 DEF Init, Typed

LEMMA TypedNext ==
    ASSUME Typed, [Next]_vars
    PROVE  Typed'
<1> USE DEF Typed
<1>1. ASSUME refs = <<>>, queue # <<>>, Visited(Head(queue)) PROVE Typed'
  <2>1. Head(queue) \in Objects /\ Tail(queue) \in Seq(Objects)
    BY <1>1, HeadAndTail
  <2>2. TagsInv'
    BY <1>1, <2>1, TagsAdded DEF Visited, Visit
  <2>3. edges' \subseteq Objects \X Fetchable
    BY <1>1 DEF Visited
  <2>4. risks' \subseteq UNION {Risks[o] : o \in Objects}
    BY <1>1, <2>1 DEF Visited, Visit
  <2> QED
    BY <1>1, <2>1, <2>2, <2>3, <2>4 DEF Visited, Visit
<1>2. ASSUME refs = <<>>, queue # <<>>, Skip(Head(queue)) PROVE Typed'
  BY <1>2, HeadAndTail DEF Skip, TagsInv
<1>3. ASSUME refs # <<>>, OwnerFetched PROVE Typed'
  <2>1. Head(refs) \in Objects /\ Tail(refs) \in Seq(Objects)
    BY <1>3, HeadAndTail
  <2>2. queue' \in Seq(Objects)
    BY <1>3, <2>1, Appended DEF OwnerFetched, Enqueue
  <2> QED
    BY <1>3, <2>1, <2>2 DEF OwnerFetched, TagsInv
<1>4. ASSUME refs # <<>>, OwnerMissing PROVE Typed'
  BY <1>4, HeadAndTail DEF OwnerMissing, TagsInv
<1>5. ASSUME UNCHANGED vars PROVE Typed'
  BY <1>5 DEF vars, TagsInv
<1> QED
  BY <1>1, <1>2, <1>3, <1>4, <1>5, NextCases

\* The search stays within the objects, collects risks they are annotated with,
\* one value for a tag, and no more tags than the limit.
THEOREM TypeCorrect == Spec => []TypeOK
<1>1. Typed => TypeOK
  BY DEF Typed, TypeOK, TagsInv
<1> QED
  BY <1>1, TypedInit, TypedNext, PTL DEF Spec

(***************************************************************************)
(* Completeness.  What was queued is reachable; and of the owners that     *)
(* could be fetched each is visited, or in the queue, or among the         *)
(* references of the current object that are still to be looked up.        *)
(***************************************************************************)
Pending(p, o) == p \in visited \/ Among(p, queue) \/ (o = current /\ Among(p, refs))

SearchInv ==
    /\ Pod \in visited \/ Among(Pod, queue)
    /\ refs # <<>> => current \in visited
    /\ visited \subseteq Reachable
    /\ \A x : Among(x, queue) => x \in Reachable
    /\ \A e \in edges : e[1] \in visited /\ Pending(e[2], e[1])
    /\ risks = UNION {Risks[o] : o \in visited}
    /\ \A o \in visited : ValidKeys(o) \subseteq TakenKeys \/ Cardinality(tags) = MaxCustomTags

LEMMA ReachableClosed ==
    ASSUME Typed
    PROVE  /\ Pod \in Reachable
           /\ \A e \in edges : e[1] \in Reachable => e[2] \in Reachable
           /\ \A S \in SUBSET Objects : Closed(S) => Reachable \subseteq S
<1>1. Pod \in Reachable
  BY ObjectsAssumption DEF Reachable, Closed
<1>2. ASSUME NEW e \in edges, e[1] \in Reachable PROVE e[2] \in Reachable
  <2>1. e[2] \in Objects
    BY ObjectsAssumption DEF Typed
  <2>2. \A S \in SUBSET Objects : Closed(S) => e[2] \in S
    BY <1>2 DEF Reachable, Closed
  <2> QED
    BY <2>1, <2>2 DEF Reachable
<1>3. \A S \in SUBSET Objects : Closed(S) => Reachable \subseteq S
  BY DEF Reachable
<1> QED
  BY <1>1, <1>2, <1>3

LEMMA ReachableGrows ==
    ASSUME edges \subseteq edges'
    PROVE  Reachable \subseteq Reachable'
<1>1. \A S \in SUBSET Objects : Closed(S)' => Closed(S)
  BY DEF Closed
<1> QED
  BY <1>1 DEF Reachable

LEMMA SearchInit ==
    ASSUME Init
    PROVE  SearchInv
<1>1. Among(Pod, queue) /\ \A x : Among(x, queue) => x = Pod
  BY DEF Init, Among
<1>2. Pod \in Reachable
  BY ObjectsAssumption DEF Reachable, Closed
<1> QED
  BY <1>1, <1>2 DEF Init, SearchInv

LEMMA SearchVisits ==
    ASSUME Typed, SearchInv, refs = <<>>, queue # <<>>, Visited(Head(queue))
    PROVE  SearchInv'
<1> DEFINE o == Head(queue)
<1>1. /\ o \in Objects /\ Among(o, queue)
      /\ \A x : Among(x, queue) <=> x = o \/ Among(x, queue')
  BY HeadAndTail DEF Typed, Visited, Visit
<1>2. current' = o /\ visited' = visited \cup {o} /\ o \notin visited
  BY DEF Visited, Visit
<1>3. Reachable \subseteq Reachable'
  BY ReachableGrows DEF Visited
<1>4. \A x : ~Among(x, refs)
  BY Empty
<1>5. ASSUME NEW e \in edges' PROVE e[1] \in visited' /\ Pending(e[2], e[1])'
  <2>1. CASE e \in edges
    <3>1. e[1] \in visited /\ (e[2] \in visited \/ Among(e[2], queue))
      BY <1>4, <2>1 DEF SearchInv, Pending
    <3> QED
      BY <1>1, <1>2, <3>1 DEF Pending
  <2>2. CASE e = <<o, e[2]>> /\ Among(e[2], refs')
    <3>1. e[1] = o
      BY <2>2
    <3> QED
      BY <1>2, <2>2, <3>1 DEF Pending
  <2> QED
    BY <2>1, <2>2 DEF Visited
<1>6. risks' = UNION {Risks[p] : p \in visited'}
  <2>1. risks' = risks \cup Risks[o] /\ risks = UNION {Risks[p] : p \in visited}
    BY DEF Visited, Visit, SearchInv
  <2> QED
    BY <1>2, <2>1
<1>7. ASSUME NEW p \in visited'
      PROVE  ValidKeys(p) \subseteq TakenKeys' \/ Cardinality(tags') = MaxCustomTags
  <2>1. tags' = tags \cup TagsOf(o) /\ TagsInv
    BY DEF Visited, Visit, Typed
  <2>2. CASE p = o
    BY <1>1, <2>1, <2>2, TagsAdded
  <2>3. CASE p \in visited
    <3>1. TakenKeys \subseteq TakenKeys'
      BY <2>1 DEF TakenKeys
    <3>2. Cardinality(tags) = MaxCustomTags => tags' = tags
      BY <1>1, <2>1, TagsAdded
    <3> QED
      BY <2>3, <3>1, <3>2 DEF SearchInv
  <2> QED
    BY <1>2, <2>2, <2>3
<1>8. visited' \subseteq Reachable' /\ \A x : Among(x, queue') => x \in Reachable'
  BY <1>1, <1>2, <1>3 DEF SearchInv
<1>9. Pod \in visited' \/ Among(Pod, queue')
  BY <1>1, <1>2 DEF SearchInv
<1> QED
  BY <1>2, <1>5, <1>6, <1>7, <1>8, <1>9 DEF SearchInv

LEMMA SearchSkips ==
    ASSUME Typed, SearchInv, refs = <<>>, queue # <<>>, Skip(Head(queue))
    PROVE  SearchInv'
<1>1. /\ Head(queue) \in visited
      /\ \A x : Among(x, queue) <=> x = Head(queue) \/ Among(x, queue')
  BY HeadAndTail DEF Typed, Skip
<1>2. UNCHANGED <<current, refs, visited, tags, risks, edges>>
  BY DEF Skip
<1>3. Reachable' = Reachable /\ TakenKeys' = TakenKeys
  BY <1>2 DEF Reachable, Closed, TakenKeys
<1>4. \A e \in edges' : e[1] \in visited' /\ Pending(e[2], e[1])'
  BY <1>1, <1>2 DEF SearchInv, Pending
<1> QED
  BY <1>1, <1>2, <1>3, <1>4 DEF SearchInv

LEMMA SearchFetches ==
    ASSUME Typed, SearchInv, refs # <<>>, OwnerFetched
    PROVE  SearchInv'
<1> DEFINE p == Head(refs)
<1>1. p \in Objects /\ \A x : Among(x, refs) <=> x = p \/ Among(x, refs')
  BY HeadAndTail DEF Typed, OwnerFetched
<1>2. \A x : Among(x, queue') <=> Among(x, queue) \/ x = p
  BY <1>1, Appended DEF Typed, OwnerFetched, Enqueue
<1>3. UNCHANGED <<current, visited, tags, risks, edges>>
  BY DEF OwnerFetched
<1>4. Reachable' = Reachable /\ TakenKeys' = TakenKeys
  BY <1>3 DEF Reachable, Closed, TakenKeys
<1>5. p \in Reachable
  <2>1. <<current, p>> \in edges /\ current \in Reachable
    BY DEF OwnerFetched, SearchInv
  <2>2. <<current, p>>[1] = current /\ <<current, p>>[2] = p
    OBVIOUS
  <2> QED
    BY <2>1, <2>2, ReachableClosed
<1>6. \A e \in edges' : e[1] \in visited' /\ Pending(e[2], e[1])'
  BY <1>1, <1>2, <1>3 DEF SearchInv, Pending
<1> QED
  BY <1>2, <1>3, <1>4, <1>5, <1>6 DEF SearchInv

LEMMA SearchMisses ==
    ASSUME Typed, SearchInv, refs # <<>>, OwnerMissing
    PROVE  SearchInv'
<1> DEFINE p == Head(refs)
<1>1. p \in Objects /\ \A x : Among(x, refs) <=> x = p \/ Among(x, refs')
  BY HeadAndTail DEF Typed, OwnerMissing
<1>2. UNCHANGED <<queue, current, visited, tags, risks, edges>>
  BY DEF OwnerMissing
<1>3. Reachable' = Reachable /\ TakenKeys' = TakenKeys
  BY <1>2 DEF Reachable, Closed, TakenKeys
<1>4. ASSUME NEW e \in edges' PROVE e[1] \in visited' /\ Pending(e[2], e[1])'
  <2>1. e \in edges /\ e[1] \in visited /\ Pending(e[2], e[1])
    BY <1>2 DEF SearchInv
  <2>2. e = <<e[1], e[2]>>
    BY <2>1 DEF Typed
  <2>3. ~(e[1] = current /\ e[2] = p)
    BY <2>1, <2>2 DEF OwnerMissing
  <2> QED
    BY <1>1, <1>2, <2>1, <2>3 DEF Pending
<1> QED
  BY <1>2, <1>3, <1>4 DEF SearchInv

LEMMA SearchNext ==
    ASSUME Typed, SearchInv, [Next]_vars
    PROVE  SearchInv'
<1>1. ASSUME UNCHANGED vars PROVE SearchInv'
  BY <1>1 DEF vars, SearchInv, Reachable, Closed, TakenKeys, Pending
<1> QED
  BY <1>1, NextCases, SearchVisits, SearchSkips, SearchFetches, SearchMisses DEF Typed

LEMMA SearchCompletes ==
    ASSUME Typed, SearchInv
    PROVE  Complete
<1>1. SUFFICES ASSUME Finished PROVE visited = Reachable
  BY DEF Complete, SearchInv
<1>2. \A x : ~Among(x, queue) /\ ~Among(x, refs)
  BY <1>1, Empty DEF Finished
<1>3. Closed(visited)
  BY <1>2 DEF Closed, SearchInv, Pending
<1> QED
  BY <1>3, ReachableClosed DEF SearchInv, Typed

\* Whatever the cycles, the owners reached twice and the GETs that fail: a search that
\* has ended has visited what the successful GETs lead to and nothing else, has all the
\* risks of it, and has left out a tag only because the limit was reached.
THEOREM SearchComplete == Spec => []Complete
BY TypedInit, TypedNext, SearchInit, SearchNext, SearchCompletes, PTL DEF Spec

(***************************************************************************)
(* Breadth first.  d labels the visited objects and lev the entries of the *)
(* queue with the length of the path they were reached by: the queue is    *)
(* sorted by it, spans two levels at most, and starts where the visited    *)
(* objects end.                                                            *)
(***************************************************************************)
Reached(d, o, n) ==
    \/ o = Pod /\ n = 0
    \/ \E p \in visited : <<p, o>> \in edges /\ n = d[p] + 1

Queued(lev, o, n) == \E i \in DOMAIN queue : queue[i] = o /\ lev[i] <= n

Levels(d, lev) ==
    /\ d \in [Objects -> Nat] /\ lev \in Seq(Nat) /\ Len(lev) = Len(queue)
    /\ \A i \in DOMAIN queue : d[current] <= lev[i] /\ lev[i] <= d[current] + 1
    /\ \A i, j \in DOMAIN queue : i <= j => lev[i] <= lev[j]
    /\ \A o \in visited : d[o] <= d[current]

Labels(d, lev) ==
    /\ \A o \in visited : Reached(d, o, d[o])
    /\ \A i \in DOMAIN queue : Reached(d, queue[i], lev[i])
    /\ (Pod \in visited /\ d[Pod] = 0) \/ Queued(lev, Pod, 0)
    /\ \A e \in edges :
          \/ e[2] \in visited /\ d[e[2]] <= d[e[1]] + 1
          \/ Queued(lev, e[2], d[e[1]] + 1)
          \/ e[1] = current /\ Among(e[2], refs)

Closest(d) ==
    \A t \in tags : t[2] \in visited /\
        \A o \in visited : t[1] \in ValidKeys(o) => d[t[2]] <= d[o]

Bfs(d, lev) == Levels(d, lev) /\ Labels(d, lev) /\ Closest(d)

LEMMA BfsInit ==
    ASSUME Init
    PROVE  \E d, lev : Bfs(d, lev)
<1> DEFINE d == [o \in Objects |-> 0]
           lev == <<0>>
<1>1. /\ d \in [Objects -> Nat] /\ d[current] = 0
      /\ lev \in Seq(Nat) /\ Len(lev) = 1 /\ lev[1] = 0
      /\ Len(queue) = 1 /\ DOMAIN queue = 1 .. 1 /\ queue[1] = Pod
  BY ObjectsAssumption DEF Init
<1> HIDE DEF d, lev
<1>2. Levels(d, lev)
  BY <1>1 DEF Levels, Init
<1>3. Labels(d, lev)
  BY <1>1 DEF Labels, Reached, Queued, Init
<1>4. Closest(d)
  BY DEF Closest, Init
<1> QED
  BY <1>2, <1>3, <1>4 DEF Bfs

\* The queue and the levels of its entries lose their heads together.
LEMMA BothTails ==
    ASSUME Typed, queue # <<>>, NEW lev \in Seq(Nat), Len(lev) = Len(queue),
           queue' = Tail(queue)
    PROVE  /\ 1 \in DOMAIN queue /\ queue[1] = Head(queue) /\ lev[1] \in Nat
           /\ Tail(lev) \in Seq(Nat) /\ Len(Tail(lev)) = Len(queue')
           /\ \A i \in DOMAIN queue' :
                 /\ i \in Nat /\ i + 1 \in DOMAIN queue
                 /\ queue'[i] = queue[i + 1] /\ Tail(lev)[i] = lev[i + 1]
                 /\ lev[i + 1] \in Nat
           /\ \A i \in DOMAIN queue : i # 1 =>
                 /\ i \in Nat /\ i - 1 \in DOMAIN queue'
                 /\ queue'[i - 1] = queue[i] /\ Tail(lev)[i - 1] = lev[i]
<1>1. /\ queue \in Seq(Objects) /\ lev # <<>> /\ Tail(queue) \in Seq(Objects)
      /\ Tail(lev) \in Seq(Nat)
      /\ Len(queue) \in Nat /\ Len(queue) > 0
      /\ DOMAIN queue = 1 .. Len(queue) /\ DOMAIN queue' = 1 .. Len(queue) - 1
      /\ DOMAIN lev = 1 .. Len(queue)
      /\ Len(Tail(lev)) = Len(queue) - 1 /\ Len(queue') = Len(queue) - 1
      /\ queue[1] = Head(queue)
      /\ \A i \in 1 .. Len(queue) : lev[i] \in Nat
      /\ \A i \in 1 .. Len(queue) - 1 :
            queue'[i] = queue[i + 1] /\ Tail(lev)[i] = lev[i + 1]
  BY DEF Typed
<1>2. 1 \in 1 .. Len(queue)
  BY <1>1
<1>3. ASSUME NEW i \in 1 .. Len(queue) - 1
      PROVE  i \in Nat /\ i + 1 \in 1 .. Len(queue)
  BY <1>1
<1>4. ASSUME NEW i \in 1 .. Len(queue), i # 1
      PROVE  i \in Nat /\ i - 1 \in 1 .. Len(queue) - 1 /\ (i - 1) + 1 = i
  BY <1>1, <1>4
<1> QED
  BY <1>1, <1>2, <1>3, <1>4

LEMMA BfsVisits ==
    ASSUME Typed, SearchInv, NEW d, NEW lev, Bfs(d, lev),
           refs = <<>>, queue # <<>>, Visited(Head(queue))
    PROVE  \E e, l : Bfs(e, l)'
<1>o. PICK o, n : o = Head(queue) /\ n = lev[1]
  OBVIOUS
<1>d. PICK d2, lev2 : d2 = [d EXCEPT ![o] = n] /\ lev2 = Tail(lev)
  OBVIOUS
<1>1. /\ d \in [Objects -> Nat] /\ lev \in Seq(Nat) /\ Len(lev) = Len(queue)
      /\ \A i \in DOMAIN queue : d[current] <= lev[i] /\ lev[i] <= d[current] + 1
      /\ \A i, j \in DOMAIN queue : i <= j => lev[i] <= lev[j]
      /\ \A x \in visited : d[x] <= d[current]
  BY DEF Bfs, Levels
<1>2. /\ queue' = Tail(queue) /\ current' = o /\ visited' = visited \cup {o}
      /\ o \notin visited /\ tags' = tags \cup TagsOf(o) /\ edges \subseteq edges'
  BY <1>o DEF Visited, Visit
<1>3. /\ 1 \in DOMAIN queue /\ queue[1] = o /\ n \in Nat
      /\ lev2 \in Seq(Nat) /\ Len(lev2) = Len(queue')
      /\ \A i \in DOMAIN queue' :
            /\ i \in Nat /\ i + 1 \in DOMAIN queue
            /\ queue'[i] = queue[i + 1] /\ lev2[i] = lev[i + 1] /\ lev[i + 1] \in Nat
      /\ \A i \in DOMAIN queue : i # 1 =>
            /\ i \in Nat /\ i - 1 \in DOMAIN queue'
            /\ queue'[i - 1] = queue[i] /\ lev2[i - 1] = lev[i]
  BY <1>o, <1>d, <1>1, <1>2, BothTails
<1>4. /\ o \in Objects /\ d2 \in [Objects -> Nat] /\ d2[o] = n
      /\ \A x \in visited : d2[x] = d[x] /\ d[x] \in Nat
      /\ visited \subseteq Objects /\ d[current] \in Nat
  BY <1>o, <1>d, <1>1, <1>2, <1>3, HeadAndTail DEF Typed
<1>5. Levels(d2, lev2)'
  <2>1. ASSUME NEW i \in DOMAIN queue'
        PROVE  d2[o] <= lev2[i] /\ lev2[i] <= d2[o] + 1
    <3>1. i + 1 \in DOMAIN queue /\ i \in Nat /\ 1 <= i + 1
      BY <1>3
    <3>2. n <= lev[i + 1]
      BY <1>o, <1>1, <1>3, <3>1
    <3>3. d[current] <= n /\ lev[i + 1] <= d[current] + 1
      BY <1>o, <1>1, <1>3, <3>1
    <3> QED
      BY <1>3, <1>4, <3>2, <3>3
  <2>2. ASSUME NEW i \in DOMAIN queue', NEW j \in DOMAIN queue', i <= j
        PROVE  lev2[i] <= lev2[j]
    <3>1. i + 1 <= j + 1
      BY <1>3, <2>2
    <3> QED
      BY <1>1, <1>3, <3>1
  <2>3. ASSUME NEW x \in visited' PROVE d2[x] <= d2[o]
    <3>1. d[current] <= n
      BY <1>o, <1>1, <1>3
    <3>2. CASE x \in visited
      BY <1>1, <1>3, <1>4, <3>1, <3>2
    <3>3. CASE x = o
      BY <1>3, <1>4, <3>3
    <3> QED
      BY <1>2, <3>2, <3>3
  <2> QED
    BY <1>2, <1>3, <1>4, <2>1, <2>2, <2>3 DEF Levels
<1>6. ASSUME NEW x, NEW m, Reached(d, x, m) PROVE Reached(d2, x, m)'
  BY <1>2, <1>4, <1>6 DEF Reached
<1>7. ASSUME NEW x, NEW m \in Nat, Queued(lev, x, m)
      PROVE  (x \in visited' /\ d2[x] <= m) \/ Queued(lev2, x, m)'
  <2>1. PICK i \in DOMAIN queue : queue[i] = x /\ lev[i] <= m
    BY <1>7 DEF Queued
  <2>2. CASE i = 1
    BY <1>o, <1>2, <1>3, <1>4, <2>1, <2>2
  <2>3. CASE i # 1
    BY <1>3, <2>1, <2>3 DEF Queued
  <2> QED
    BY <2>2, <2>3
<1>8. Labels(d2, lev2)'
  <2>1. ASSUME NEW x \in visited' PROVE Reached(d2, x, d2[x])'
    <3>1. CASE x \in visited
      BY <1>4, <1>6, <3>1 DEF Bfs, Labels
    <3>2. CASE x = o
      BY <1>o, <1>3, <1>4, <1>6, <3>2 DEF Bfs, Labels
    <3> QED
      BY <1>2, <3>1, <3>2
  <2>2. ASSUME NEW i \in DOMAIN queue' PROVE Reached(d2, queue[i], lev2[i])'
    <3>1. i + 1 \in DOMAIN queue /\ queue'[i] = queue[i + 1] /\ lev2[i] = lev[i + 1]
      BY <1>3
    <3>2. Reached(d, queue[i + 1], lev[i + 1])
      BY <3>1 DEF Bfs, Labels
    <3> QED
      BY <1>6, <3>1, <3>2
  <2>3. (Pod \in visited' /\ d2[Pod] = 0) \/ Queued(lev2, Pod, 0)'
    <3>1. CASE Pod \in visited /\ d[Pod] = 0
      BY <1>2, <1>4, <3>1
    <3>2. CASE Queued(lev, Pod, 0)
      <4>1. (Pod \in visited' /\ d2[Pod] <= 0) \/ Queued(lev2, Pod, 0)'
        BY <1>7, <3>2
      <4>2. Pod \in visited' => d2[Pod] \in Nat
        BY <1>2, <1>3, <1>4
      <4> QED
        BY <4>1, <4>2
    <3> QED
      BY <3>1, <3>2 DEF Bfs, Labels
  <2>4. ASSUME NEW e \in edges'
        PROVE  \/ e[2] \in visited' /\ d2[e[2]] <= d2[e[1]] + 1
               \/ Queued(lev2, e[2], d2[e[1]] + 1)'
               \/ e[1] = current' /\ Among(e[2], refs')
    <3>1. CASE e \in edges
      <4>1. e[1] \in visited /\ d2[e[1]] = d[e[1]] /\ d[e[1]] + 1 \in Nat
        BY <1>4, <3>1 DEF SearchInv
      <4>2. \/ e[2] \in visited /\ d[e[2]] <= d[e[1]] + 1
            \/ Queued(lev, e[2], d[e[1]] + 1)
        BY <3>1, Empty DEF Bfs, Labels
      <4> QED
        BY <1>2, <1>4, <1>7, <4>1, <4>2
    <3>2. CASE e = <<o, e[2]>> /\ Among(e[2], refs')
      <4>1. e[1] = o
        BY <3>2
      <4> QED
        BY <1>2, <3>2, <4>1
    <3> QED
      BY <1>o, <3>1, <3>2 DEF Visited
  <2> QED
    BY <2>1, <2>2, <2>3, <2>4 DEF Labels
<1>9. Closest(d2)'
  <2>1. ASSUME NEW t \in tags', NEW x \in visited', t[1] \in ValidKeys(x)
        PROVE  t[2] \in visited' /\ d2[t[2]] <= d2[x]
    <3>1. CASE t \in tags
      <4>1. t[2] \in visited /\ d2[t[2]] = d[t[2]] /\ d[t[2]] \in Nat
        BY <1>4, <3>1 DEF Bfs, Closest
      <4>2. CASE x \in visited
        BY <1>2, <1>4, <2>1, <3>1, <4>1, <4>2 DEF Bfs, Closest
      <4>3. CASE x = o
        <5>1. d[t[2]] <= d[current] /\ d[current] <= n
          BY <1>o, <1>1, <1>3, <4>1
        <5> QED
          BY <1>2, <1>3, <1>4, <4>1, <4>3, <5>1
      <4> QED
        BY <1>2, <4>2, <4>3
    <3>2. CASE t \notin tags
      <4>1. t[2] = o /\ t[1] \notin TakenKeys /\ Cardinality(tags) < MaxCustomTags
        BY <1>2, <1>4, <3>2, TagsAdded DEF Typed
      <4>2. x \notin visited
        <5>1. Cardinality(tags) # MaxCustomTags
          BY <4>1, FS_CardinalityType, LimitAssumption DEF Typed, TagsInv
        <5> QED
          BY <2>1, <4>1, <5>1 DEF SearchInv
      <4> QED
        BY <1>2, <1>3, <1>4, <4>1, <4>2
    <3> QED
      BY <3>1, <3>2
  <2>2. ASSUME NEW t \in tags' PROVE t[2] \in visited'
    BY <1>2, <1>4, TagsAdded DEF Typed, Bfs, Closest
  <2> QED
    BY <2>1, <2>2 DEF Closest
<1> QED
  BY <1>5, <1>8, <1>9 DEF Bfs

LEMMA BfsSkips ==
    ASSUME Typed, NEW d, NEW lev, Bfs(d, lev),
           refs = <<>>, queue # <<>>, Skip(Head(queue))
    PROVE  \E e, l : Bfs(e, l)'
<1>1. PICK o, n : o = Head(queue) /\ n = lev[1]
  OBVIOUS
<1>2. PICK lev2 : lev2 = Tail(lev)
  OBVIOUS
<1>3. /\ d \in [Objects -> Nat] /\ lev \in Seq(Nat) /\ Len(lev) = Len(queue)
      /\ \A i \in DOMAIN queue : d[current] <= lev[i] /\ lev[i] <= d[current] + 1
      /\ \A i, j \in DOMAIN queue : i <= j => lev[i] <= lev[j]
      /\ \A x \in visited : d[x] <= d[current]
  BY DEF Bfs, Levels
<1>4. queue' = Tail(queue) /\ o \in visited
      /\ UNCHANGED <<current, refs, visited, tags, risks, edges>>
  BY <1>1 DEF Skip
<1>5. /\ 1 \in DOMAIN queue /\ queue[1] = o /\ n \in Nat
      /\ lev2 \in Seq(Nat) /\ Len(lev2) = Len(queue')
      /\ \A i \in DOMAIN queue' :
            /\ i \in Nat /\ i + 1 \in DOMAIN queue
            /\ queue'[i] = queue[i + 1] /\ lev2[i] = lev[i + 1] /\ lev[i + 1] \in Nat
      /\ \A i \in DOMAIN queue : i # 1 =>
            /\ i \in Nat /\ i - 1 \in DOMAIN queue'
            /\ queue'[i - 1] = queue[i] /\ lev2[i - 1] = lev[i]
  BY <1>1, <1>2, <1>3, <1>4, BothTails
<1>6. /\ visited \subseteq Objects /\ d[current] \in Nat
      /\ \A x \in visited : d[x] \in Nat
  BY <1>3 DEF Typed
<1>7. Levels(d, lev2)'
  <2>1. \A i \in DOMAIN queue' : d[current] <= lev2[i] /\ lev2[i] <= d[current] + 1
    BY <1>3, <1>5
  <2>2. ASSUME NEW i \in DOMAIN queue', NEW j \in DOMAIN queue', i <= j
        PROVE  lev2[i] <= lev2[j]
    <3>1. i + 1 <= j + 1
      BY <1>5, <2>2
    <3> QED
      BY <1>3, <1>5, <3>1
  <2> QED
    BY <1>3, <1>4, <1>5, <2>1, <2>2 DEF Levels
<1>8. ASSUME NEW x, NEW m \in Nat, Queued(lev, x, m)
      PROVE  (x \in visited' /\ d[x] <= m) \/ Queued(lev2, x, m)'
  <2>1. PICK i \in DOMAIN queue : queue[i] = x /\ lev[i] <= m
    BY <1>8 DEF Queued
  <2>2. CASE i = 1
    <3>1. x = o /\ n <= m /\ d[o] <= d[current] /\ d[current] <= n /\ d[o] \in Nat
      BY <1>1, <1>3, <1>4, <1>5, <1>6, <2>1, <2>2
    <3> QED
      BY <1>4, <1>5, <1>6, <3>1
  <2>3. CASE i # 1
    BY <1>5, <2>1, <2>3 DEF Queued
  <2> QED
    BY <2>2, <2>3
<1>9. ASSUME NEW x, NEW m, Reached(d, x, m) PROVE Reached(d, x, m)'
  BY <1>4, <1>9 DEF Reached
<1>10. Labels(d, lev2)'
  <2>1. ASSUME NEW x \in visited' PROVE Reached(d, x, d[x])'
    BY <1>4, <1>9 DEF Bfs, Labels
  <2>2. ASSUME NEW i \in DOMAIN queue' PROVE Reached(d, queue[i], lev2[i])'
    <3>1. i + 1 \in DOMAIN queue /\ queue'[i] = queue[i + 1] /\ lev2[i] = lev[i + 1]
      BY <1>5
    <3>2. Reached(d, queue[i + 1], lev[i + 1])
      BY <3>1 DEF Bfs, Labels
    <3> QED
      BY <1>9, <3>1, <3>2
  <2>3. (Pod \in visited' /\ d[Pod] = 0) \/ Queued(lev2, Pod, 0)'
    <3>1. CASE Pod \in visited /\ d[Pod] = 0
      BY <1>4, <3>1
    <3>2. CASE Queued(lev, Pod, 0)
      <4>1. (Pod \in visited' /\ d[Pod] <= 0) \/ Queued(lev2, Pod, 0)'
        BY <1>8, <3>2
      <4>2. Pod \in visited' => d[Pod] \in Nat
        BY <1>4, <1>6
      <4> QED
        BY <4>1, <4>2
    <3> QED
      BY <3>1, <3>2 DEF Bfs, Labels
  <2>4. ASSUME NEW e \in edges'
        PROVE  \/ e[2] \in visited' /\ d[e[2]] <= d[e[1]] + 1
               \/ Queued(lev2, e[2], d[e[1]] + 1)'
               \/ e[1] = current' /\ Among(e[2], refs')
    <3>1. e \in edges /\ d[e[1]] + 1 \in Nat
      BY <1>3, <1>4 DEF Typed
    <3> QED
      BY <1>4, <1>8, <3>1 DEF Bfs, Labels
  <2> QED
    BY <2>1, <2>2, <2>3, <2>4 DEF Labels
<1>11. Closest(d)'
  BY <1>4 DEF Bfs, Closest
<1> QED
  BY <1>7, <1>10, <1>11 DEF Bfs

LEMMA BfsFetches ==
    ASSUME Typed, SearchInv, NEW d, NEW lev, Bfs(d, lev), refs # <<>>, OwnerFetched
    PROVE  \E e, l : Bfs(e, l)'
<1>1. PICK p, n : p = Head(refs) /\ n = d[current] + 1
  OBVIOUS
<1>2. PICK lev2 : lev2 = Append(lev, n)
  OBVIOUS
<1>3. /\ d \in [Objects -> Nat] /\ lev \in Seq(Nat) /\ Len(lev) = Len(queue)
      /\ \A i \in DOMAIN queue : d[current] <= lev[i] /\ lev[i] <= d[current] + 1
      /\ \A i, j \in DOMAIN queue : i <= j => lev[i] <= lev[j]
      /\ \A x \in visited : d[x] <= d[current]
  BY DEF Bfs, Levels
<1>4. /\ p \in Objects /\ queue' = Append(queue, p) /\ <<current, p>> \in edges
      /\ \A x : Among(x, refs) <=> x = p \/ Among(x, refs')
      /\ UNCHANGED <<current, visited, tags, risks, edges>>
      /\ d[current] \in Nat /\ n \in Nat /\ n = d[current] + 1 /\ current \in visited
  BY <1>1, <1>3, HeadAndTail DEF Typed, OwnerFetched, Enqueue, SearchInv
<1>5. PICK last : last = Len(queue) + 1
  OBVIOUS
<1>6. /\ lev2 \in Seq(Nat) /\ Len(lev2) = Len(queue')
      /\ last \in Nat /\ queue'[last] = p /\ lev2[last] = n
      /\ DOMAIN queue' = DOMAIN queue \cup {last}
      /\ \A i \in DOMAIN queue :
            /\ i \in Nat /\ i < last /\ lev[i] \in Nat
            /\ queue'[i] = queue[i] /\ lev2[i] = lev[i]
  <2>1. /\ queue \in Seq(Objects) /\ lev \in Seq(Nat) /\ Len(queue) \in Nat
        /\ DOMAIN queue = 1 .. Len(queue) /\ DOMAIN lev = 1 .. Len(queue)
        /\ DOMAIN queue' = 1 .. Len(queue) + 1
        /\ Len(lev2) = Len(queue) + 1 /\ Len(queue') = Len(queue) + 1
        /\ lev2 \in Seq(Nat)
    BY <1>2, <1>3, <1>4 DEF Typed
  <2>2. /\ queue'[Len(queue) + 1] = p /\ lev2[Len(queue) + 1] = n
        /\ \A i \in 1 .. Len(queue) : queue'[i] = queue[i] /\ lev2[i] = lev[i]
    BY <1>2, <1>3, <1>4, <2>1
  <2>3. \A i \in 1 .. Len(queue) : i \in Nat /\ i < last /\ lev[i] \in Nat
    BY <1>5, <2>1
  <2>4. 1 .. Len(queue) + 1 = (1 .. Len(queue)) \cup {last}
    BY <1>5, <2>1
  <2> QED
    BY <1>5, <2>1, <2>2, <2>3, <2>4
<1>7. Levels(d, lev2)'
  <2>1. ASSUME NEW i \in DOMAIN queue'
        PROVE  d[current] <= lev2[i] /\ lev2[i] <= d[current] + 1
    <3>1. CASE i = last
      BY <1>4, <1>6, <3>1
    <3>2. CASE i \in DOMAIN queue
      BY <1>3, <1>6, <3>2
    <3> QED
      BY <1>6, <3>1, <3>2
  <2>2. ASSUME NEW i \in DOMAIN queue', NEW j \in DOMAIN queue', i <= j
        PROVE  lev2[i] <= lev2[j]
    <3>1. CASE j = last
      <4>1. lev2[i] <= d[current] + 1 /\ lev2[j] = d[current] + 1
        BY <1>4, <1>6, <2>1, <3>1
      <4> QED
        BY <4>1
    <3>2. CASE j \in DOMAIN queue
      <4>1. i \in DOMAIN queue
        BY <1>6, <2>2, <3>2
      <4> QED
        BY <1>3, <1>6, <2>2, <3>2, <4>1
    <3> QED
      BY <1>6, <3>1, <3>2
  <2> QED
    BY <1>3, <1>4, <1>6, <2>1, <2>2 DEF Levels
<1>8. ASSUME NEW x, NEW m, Queued(lev, x, m) PROVE Queued(lev2, x, m)'
  BY <1>6, <1>8 DEF Queued
<1>9. ASSUME NEW x, NEW m, Reached(d, x, m) PROVE Reached(d, x, m)'
  BY <1>4, <1>9 DEF Reached
<1>10. Labels(d, lev2)'
  <2>1. ASSUME NEW x \in visited' PROVE Reached(d, x, d[x])'
    BY <1>4, <1>9 DEF Bfs, Labels
  <2>2. ASSUME NEW i \in DOMAIN queue' PROVE Reached(d, queue[i], lev2[i])'
    <3>1. CASE i = last
      <4>1. Reached(d, p, n)
        BY <1>4 DEF Reached
      <4> QED
        BY <1>6, <1>9, <3>1, <4>1
    <3>2. CASE i \in DOMAIN queue
      <4>1. Reached(d, queue[i], lev[i])
        BY <3>2 DEF Bfs, Labels
      <4> QED
        BY <1>6, <1>9, <3>2, <4>1
    <3> QED
      BY <1>6, <3>1, <3>2
  <2>3. (Pod \in visited' /\ d[Pod] = 0) \/ Queued(lev2, Pod, 0)'
    BY <1>4, <1>8 DEF Bfs, Labels
  <2>4. ASSUME NEW e \in edges'
        PROVE  \/ e[2] \in visited' /\ d[e[2]] <= d[e[1]] + 1
               \/ Queued(lev2, e[2], d[e[1]] + 1)'
               \/ e[1] = current' /\ Among(e[2], refs')
    <3>1. CASE e[1] = current /\ e[2] = p
      <4>1. last \in DOMAIN queue' /\ queue'[last] = p /\ lev2[last] <= d[current] + 1
        BY <1>4, <1>6
      <4> QED
        BY <3>1, <4>1 DEF Queued
    <3>2. CASE ~(e[1] = current /\ e[2] = p)
      BY <1>4, <1>8, <3>2 DEF Bfs, Labels
    <3> QED
      BY <3>1, <3>2
  <2> QED
    BY <2>1, <2>2, <2>3, <2>4 DEF Labels
<1>11. Closest(d)'
  BY <1>4 DEF Bfs, Closest
<1> QED
  BY <1>7, <1>10, <1>11 DEF Bfs

LEMMA BfsMisses ==
    ASSUME Typed, NEW d, NEW lev, Bfs(d, lev), refs # <<>>, OwnerMissing
    PROVE  \E e, l : Bfs(e, l)'
<1> DEFINE p == Head(refs)
<1>1. \A x : Among(x, refs) <=> x = p \/ Among(x, refs')
  BY HeadAndTail DEF Typed, OwnerMissing
<1>2. UNCHANGED <<queue, current, visited, tags, risks, edges>>
  BY DEF OwnerMissing
<1>3. Levels(d, lev)'
  BY <1>2 DEF Bfs, Levels
<1>4. ASSUME NEW e \in edges'
      PROVE  \/ e[2] \in visited' /\ d[e[2]] <= d[e[1]] + 1
             \/ Queued(lev, e[2], d[e[1]] + 1)'
             \/ e[1] = current' /\ Among(e[2], refs')
  <2>1. e \in edges /\ e = <<e[1], e[2]>>
    BY <1>2 DEF Typed
  <2>2. ~(e[1] = current /\ e[2] = p)
    BY <2>1 DEF OwnerMissing
  <2> QED
    BY <1>1, <1>2, <2>1, <2>2 DEF Bfs, Labels, Queued
<1>5. Labels(d, lev)'
  BY <1>2, <1>4 DEF Bfs, Labels, Reached, Queued
<1>6. Closest(d)'
  BY <1>2 DEF Bfs, Closest
<1> QED
  BY <1>3, <1>5, <1>6 DEF Bfs

LEMMA BfsNext ==
    ASSUME Typed, SearchInv, \E d, lev : Bfs(d, lev), [Next]_vars
    PROVE  \E d, lev : Bfs(d, lev)'
<1>1. PICK d, lev : Bfs(d, lev)
  OBVIOUS
<1>2. ASSUME UNCHANGED vars PROVE Bfs(d, lev)'
  BY <1>1, <1>2 DEF vars, Bfs, Levels, Labels, Reached, Queued, Closest
<1> QED
  BY <1>1, <1>2, NextCases, BfsVisits, BfsSkips, BfsFetches, BfsMisses DEF Typed

(***************************************************************************)
(* The reference definition of nearness: there is a function that          *)
(* satisfies its recursion, made of the paths that start at the pod.       *)
(***************************************************************************)
Path(f, n) ==
    /\ f \in [Nat -> Objects] /\ f[0] = Pod
    /\ \A i \in Nat : i < n => f[i + 1] = f[i] \/ <<f[i], f[i + 1]>> \in edges

Within == [n \in Nat |-> {o \in Objects : \E f : Path(f, n) /\ f[n] = o}]

LEMMA WithinRecurs ==
    Within = [n \in Nat |->
        IF n = 0 THEN {Pod}
        ELSE LET nearer == Within[n - 1]
             IN  nearer \cup {o \in Objects : \E p \in nearer : <<p, o>> \in edges}]
<1>1. Within[0] = {Pod}
  <2>1. Path([i \in Nat |-> Pod], 0)
    BY ObjectsAssumption DEF Path
  <2>2. Pod \in Within[0]
    BY <2>1, ObjectsAssumption DEF Within
  <2> QED
    BY <2>2 DEF Within, Path
<1>2. ASSUME NEW n \in Nat, n # 0
      PROVE  Within[n] = Within[n - 1] \cup
                {o \in Objects : \E p \in Within[n - 1] : <<p, o>> \in edges}
  <2>1. n - 1 \in Nat /\ (n - 1) + 1 = n /\ n - 1 < n
    BY <1>2
  <2>2. ASSUME NEW o \in Within[n]
        PROVE  o \in Within[n - 1] \/ \E p \in Within[n - 1] : <<p, o>> \in edges
    <3>1. PICK f : Path(f, n) /\ f[n] = o
      BY DEF Within
    <3>2. Path(f, n - 1)
      BY <2>1, <3>1 DEF Path
    <3>3. f[n - 1] \in Within[n - 1]
      BY <2>1, <3>2 DEF Path, Within
    <3>4. o = f[n - 1] \/ <<f[n - 1], o>> \in edges
      BY <2>1, <3>1 DEF Path
    <3> QED
      BY <3>3, <3>4
  <2>3. ASSUME NEW o \in Objects, NEW p \in Within[n - 1], o = p \/ <<p, o>> \in edges
        PROVE  o \in Within[n]
    <3>1. PICK f : Path(f, n - 1) /\ f[n - 1] = p
      BY <2>1 DEF Within
    <3>2. PICK g : g = [i \in Nat |-> IF i < n THEN f[i] ELSE o]
      OBVIOUS
    <3>3. g \in [Nat -> Objects] /\ g[0] = Pod /\ g[n] = o
      BY <1>2, <3>1, <3>2 DEF Path
    <3>4. ASSUME NEW i \in Nat, i < n PROVE g[i + 1] = g[i] \/ <<g[i], g[i + 1]>> \in edges
      <4>1. CASE i = n - 1
        BY <2>1, <2>3, <3>1, <3>2, <3>3, <4>1
      <4>2. CASE i # n - 1
        <5>1. i < n - 1 /\ i + 1 \in Nat /\ i + 1 < n
          BY <2>1, <3>4, <4>2
        <5>2. g[i] = f[i] /\ g[i + 1] = f[i + 1]
          BY <3>2, <3>4, <5>1
        <5> QED
          BY <3>1, <5>1, <5>2 DEF Path
      <4> QED
        BY <4>1, <4>2
    <3> QED
      BY <3>3, <3>4 DEF Path, Within
  <2>4. Within[n] \subseteq Objects /\ Within[n - 1] \subseteq Objects
    BY <2>1 DEF Within
  <2> QED
    BY <2>2, <2>3, <2>4
<1>3. Within = [n \in Nat |-> Within[n]]
  BY DEF Within
<1> QED
  BY <1>1, <1>2, <1>3

LEMMA NearRecurs ==
    /\ Near[0] = {Pod}
    /\ \A n \in Nat : n # 0 =>
          Near[n] = Near[n - 1] \cup {o \in Objects : \E p \in Near[n - 1] : <<p, o>> \in edges}
<1> DEFINE Recurs(f) ==
        f = [n \in Nat |->
            IF n = 0 THEN {Pod}
            ELSE LET nearer == f[n - 1]
                 IN  nearer \cup {o \in Objects : \E p \in nearer : <<p, o>> \in edges}]
<1>1. Near = CHOOSE f : Recurs(f)
  BY DEF Near
<1>2. Recurs(Near)
  BY <1>1, WithinRecurs
<1> QED
  BY <1>2

\* The visited objects at most n owners away from the pod are those labelled n or less.
LEMMA NearLabels ==
    ASSUME Typed, SearchInv, NEW d, NEW lev, Bfs(d, lev)
    PROVE  \A n \in Nat : \A o \in visited : o \in Near[n] <=> d[o] <= n
<1> DEFINE Right(n) == \A o \in visited : o \in Near[n] <=> d[o] <= n
           Wrong == {n \in Nat : ~Right(n)}
<1>1. /\ d \in [Objects -> Nat] /\ visited \subseteq Objects /\ d[current] \in Nat
      /\ \A i \in DOMAIN queue : d[current] <= lev[i] /\ lev[i] \in Nat
      /\ \A o \in visited : d[o] <= d[current] /\ d[o] \in Nat
  <2>1. \A i \in DOMAIN queue : lev[i] \in Nat
    BY DEF Bfs, Levels, Typed
  <2> QED
    BY <2>1 DEF Bfs, Levels, Typed
<1>2. ASSUME NEW o \in visited, NEW m \in Nat, Queued(lev, o, m) PROVE d[o] <= m
  BY <1>1, <1>2 DEF Queued
<1>3. Right(0)
  <2>1. ASSUME NEW o \in visited, o \in Near[0] PROVE d[o] <= 0
    BY <1>1, <1>2, <2>1, NearRecurs DEF Bfs, Labels
  <2>2. ASSUME NEW o \in visited, d[o] <= 0 PROVE o \in Near[0]
    <3>1. d[o] = 0 /\ \A p \in visited : d[o] # d[p] + 1
      BY <1>1, <2>2
    <3>2. Reached(d, o, d[o])
      BY DEF Bfs, Labels
    <3> QED
      BY <3>1, <3>2, NearRecurs DEF Reached
  <2> QED
    BY <2>1, <2>2
<1>4. ASSUME NEW n \in Nat, n # 0, Right(n - 1) PROVE Right(n)
  <2>1. n - 1 \in Nat /\ (n - 1) + 1 = n
    BY <1>4
  <2>2. Near[n] = Near[n - 1] \cup {o \in Objects : \E p \in Near[n - 1] : <<p, o>> \in edges}
    BY <1>4, NearRecurs
  <2>3. ASSUME NEW o \in visited, o \in Near[n] PROVE d[o] <= n
    <3>1. CASE o \in Near[n - 1]
      <4>1. d[o] <= n - 1
        BY <1>4, <3>1
      <4> QED
        BY <1>1, <2>1, <4>1
    <3>2. CASE \E p \in Near[n - 1] : <<p, o>> \in edges
      <4>1. PICK p \in Near[n - 1] : <<p, o>> \in edges
        BY <3>2
      <4>2. PICK e \in edges : e[1] = p /\ e[2] = o
        BY <4>1
      <4>3. p \in visited /\ d[p] <= n - 1 /\ d[p] \in Nat
        BY <1>1, <1>4, <4>2 DEF SearchInv
      <4>4. \/ d[o] <= d[p] + 1
            \/ Queued(lev, o, d[p] + 1)
            \/ p = current
        BY <4>2 DEF Bfs, Labels
      <4>5. d[o] <= d[p] + 1
        BY <1>1, <1>2, <4>3, <4>4
      <4> QED
        BY <1>1, <2>1, <4>3, <4>5
    <3> QED
      BY <2>2, <2>3, <3>1, <3>2
  <2>4. ASSUME NEW o \in visited, d[o] <= n PROVE o \in Near[n]
    <3>1. CASE d[o] <= n - 1
      BY <1>4, <2>2, <3>1
    <3>2. CASE d[o] = n
      <4>1. Reached(d, o, d[o])
        BY DEF Bfs, Labels
      <4>2. PICK p \in visited : <<p, o>> \in edges /\ d[o] = d[p] + 1
        BY <1>4, <3>2, <4>1 DEF Reached
      <4>3. d[p] <= n - 1
        BY <1>1, <2>1, <3>2, <4>2
      <4>4. p \in Near[n - 1] /\ o \in Objects
        BY <1>1, <1>4, <4>3
      <4> QED
        BY <2>2, <4>2, <4>4
    <3> QED
      BY <1>1, <2>1, <2>4, <3>1, <3>2
  <2> QED
    BY <2>3, <2>4
<1> HIDE DEF Right
<1>5. ASSUME Wrong # {} PROVE FALSE
  <2>1. PICK n \in Wrong : \A m \in Wrong : n <= m
    BY <1>5, LeastElement
  <2>2. n # 0 /\ n - 1 \in Nat /\ ~(n <= n - 1)
    BY <1>3, <2>1
  <2>3. Right(n - 1)
    BY <2>1, <2>2
  <2> QED
    BY <1>4, <2>1, <2>2, <2>3
<1>6. \A n \in Nat : Right(n)
  BY <1>5
<1> QED
  BY <1>6 DEF Right

LEMMA LabelsDecide ==
    ASSUME Typed, SearchInv, \E d, lev : Bfs(d, lev)
    PROVE  NearestWins
<1>1. PICK d, lev : Bfs(d, lev)
  OBVIOUS
<1>2. SUFFICES ASSUME NEW n \in Nat, NEW t \in tags, t[2] \notin Near[n],
                      NEW o \in Near[n] \cap visited, t[1] \in ValidKeys(o)
               PROVE  FALSE
  BY FS_CardinalityType, ObjectsAssumption DEF NearestWins
<1>3. t[2] \in visited /\ d[t[2]] <= d[o]
  BY <1>1, <1>2 DEF Bfs, Closest
<1>4. d[o] <= n /\ ~(d[t[2]] <= n)
  BY <1>1, <1>2, <1>3, NearLabels
<1>5. d[o] \in Nat /\ d[t[2]] \in Nat
  BY <1>1, <1>3 DEF Bfs, Levels, Typed
<1> QED
  BY <1>3, <1>4, <1>5

\* Whatever the order of the references and the cycles on the way, a tag that several
\* objects set has the value of the one closest to the pod.
THEOREM NearestValueWins == Spec => []NearestWins
<1> DEFINE Labelled == \E d, lev : Bfs(d, lev)
<1>1. Init => Typed /\ SearchInv /\ Labelled
  BY TypedInit, SearchInit, BfsInit
<1>2. (Typed /\ SearchInv /\ Labelled) /\ [Next]_vars => (Typed /\ SearchInv /\ Labelled)'
  BY TypedNext, SearchNext, BfsNext
<1>3. Typed /\ SearchInv /\ Labelled => NearestWins
  BY LabelsDecide
<1> QED
  BY <1>1, <1>2, <1>3, PTL DEF Spec
=============================================================================
