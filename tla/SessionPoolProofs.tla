------------------------- MODULE SessionPoolProofs -------------------------
(* Proofs about SessionPool, for any sessions, observers, task sessions and *)
(* callers, and any pool size.                                             *)
EXTENDS SessionPool, FiniteSetTheorems, TLAPS

-----------------------------------------------------------------------------
(* Finite orders, slots.                                                   *)

\* A finite set has a minimal element in any strict order.
LEMMA MinimalElement ==
    ASSUME NEW S, IsFiniteSet(S), NEW R,
           \A x \in S : <<x, x>> \notin R,
           \A x, y, z \in S : <<x, y>> \in R /\ <<y, z>> \in R => <<x, z>> \in R,
           NEW T, T \subseteq S, T # {}
    PROVE  \E x \in T : \A y \in T : <<y, x>> \notin R
<1> DEFINE Below(x) == {y \in S : <<y, x>> \in R}
           Family == {Below(x) : x \in T}
<1>1. Family \subseteq FiniteSubsetsOf(S) /\ Family # {}
  <2>1. \A x \in T : Below(x) \in SUBSET S
    OBVIOUS
  <2>2. \A x \in T : IsFiniteSet(Below(x))
    <3> HIDE DEF Below
    <3> QED BY <2>1, FS_Subset
  <2>3. \A x \in T : Below(x) \in FiniteSubsetsOf(S)
    <3> HIDE DEF Below
    <3> QED BY <2>1, <2>2 DEF FiniteSubsetsOf
  <2> HIDE DEF Below
  <2> QED BY <2>3
<1>2. IsWellFoundedOn(StrictSubsetOrdering(S), FiniteSubsetsOf(S))
  BY FS_StrictSubsetOrderingWellFounded
<1>3. PICK m \in Family : \A b \in Family : <<b, m>> \notin StrictSubsetOrdering(S)
  <2> HIDE DEF Family
  <2> QED BY <1>1, <1>2, WFMin
<1>4. PICK x \in T : m = Below(x)
  OBVIOUS
<1>5. ASSUME NEW y \in T, <<y, x>> \in R PROVE FALSE
  <2>1. Below(y) \subseteq Below(x) /\ y \in Below(x) /\ y \notin Below(y)
    BY <1>5
  <2>2. <<Below(y), m>> \in StrictSubsetOrdering(S)
    BY <2>1, <1>4 DEF StrictSubsetOrdering
  <2> QED BY <2>2, <1>3
<1> QED BY <1>5

\* Sets of names are finite, and a part of a set is not larger than the set.
LEMMA Sizes ==
    ASSUME NEW H \in SUBSET Sessions
    PROVE  /\ IsFiniteSet(H) /\ Cardinality(H) \in Nat
           /\ \A K \in SUBSET H : Cardinality(K) <= Cardinality(H)
           /\ \A s : Cardinality(H \cup {s}) <= Cardinality(H) + 1
<1>1. IsFiniteSet(H)
  BY PoolAssumption, FS_Subset
<1> QED BY <1>1, FS_Subset, FS_CardinalityType, FS_AddElement

\* Taking a slot adds at most one to the names that hold one.
LEMMA OneMore ==
    ASSUME NEW H \in SUBSET Sessions, NEW s \in Sessions
    PROVE  /\ Cardinality(H) \in Nat /\ Cardinality(H \cup {s}) \in Nat
           /\ Cardinality(H \cup {s}) <= Cardinality(H) + 1
BY Sizes

-----------------------------------------------------------------------------
(* The queue.                                                              *)

\* The queue is in order: `ahead` orders the waiting starts one after another.
QueueOrder(p) ==
    /\ p.urgent \subseteq p.waiting
    /\ p.ahead \subseteq p.waiting \X p.waiting
    /\ \A s, t \in p.waiting : <<s, t>> \in p.ahead <=> (s # t /\ <<t, s>> \notin p.ahead)
    /\ \A s, t, u \in p.waiting :
          <<s, t>> \in p.ahead /\ <<t, u>> \in p.ahead => <<s, u>> \in p.ahead

PoolOK(p) == p \in Pools /\ p.waiting \cap Observers = {} /\ QueueOrder(p)

SameQueue(p, q) == q.waiting = p.waiting /\ q.ahead = p.ahead /\ q.urgent = p.urgent

Before(p, s) == {t \in p.waiting : DrainsBefore(p, t, s)}

LEMMA HolderSets ==
    ASSUME NEW p \in Pools
    PROVE  /\ InMap(p) \in SUBSET Sessions /\ Holders(p) \in SUBSET Sessions
           /\ \A s \in Sessions : s \in Holders(p) <=> (p.streaming[s] # "none" \/ s \in p.reserved)
BY DEF Pools, InMap, Holders

\* Changes that leave the queue alone keep it in order.
LEMMA SameQueueOK ==
    ASSUME NEW p, PoolOK(p), NEW q \in Pools, SameQueue(p, q)
    PROVE  PoolOK(q)
<1>1. QueueOrder(q)
  BY DEF PoolOK, SameQueue, QueueOrder
<1> QED BY <1>1 DEF PoolOK, SameQueue

\* The order in which a drain looks at the waiting starts is strict and total.
LEMMA DrainOrder ==
    ASSUME NEW p, PoolOK(p)
    PROVE  /\ \A s \in p.waiting : ~DrainsBefore(p, s, s)
           /\ \A s, t \in p.waiting : s = t \/ DrainsBefore(p, s, t) \/ DrainsBefore(p, t, s)
           /\ \A s, t, u \in p.waiting :
                 DrainsBefore(p, s, t) /\ DrainsBefore(p, t, u) => DrainsBefore(p, s, u)
<1>1. QueueOrder(p)
  BY DEF PoolOK
<1> QED BY <1>1 DEF QueueOrder, DrainsBefore

LEMMA GrantSets ==
    ASSUME NEW p, PoolOK(p)
    PROVE  /\ Grants(p) \in SUBSET p.waiting /\ p.waiting \in SUBSET Sessions
           /\ \A s : Before(p, s) \in SUBSET p.waiting
           /\ \A s : Holders(p) \cup Before(p, s) \in SUBSET Sessions
           /\ \A s \in p.waiting :
                 s \in Grants(p) <=> HasSlot(Holders(p) \cup Before(p, s), s \in p.urgent)
<1>1. p \in Pools /\ Holders(p) \in SUBSET Sessions
  BY HolderSets DEF PoolOK
<1>2. p.waiting \in SUBSET Sessions
  BY <1>1 DEF Pools
<1> QED BY <1>1, <1>2 DEF Grants, Before

\* A start that is granted takes nothing from one that a drain looks at first.
LEMMA GrantedInOrder ==
    ASSUME NEW p, PoolOK(p), NEW s \in Grants(p), NEW t \in p.waiting, DrainsBefore(p, t, s)
    PROVE  t \in Grants(p)
<1>1. s \in p.waiting
  BY GrantSets
<1>2. Before(p, t) \subseteq Before(p, s)
  BY <1>1, DrainOrder DEF Before
<1>3. (s \in p.urgent) => (t \in p.urgent)
  BY DEF DrainsBefore
<1>4. HasSlot(Holders(p) \cup Before(p, s), s \in p.urgent)
  BY <1>1, GrantSets
<1>5. Holders(p) \cup Before(p, s) \in SUBSET Sessions
  BY GrantSets
<1>6. Holders(p) \cup Before(p, t) \in SUBSET (Holders(p) \cup Before(p, s))
  BY <1>2
<1>7. HasSlot(Holders(p) \cup Before(p, t), t \in p.urgent)
  <2>1. /\ Cardinality(Holders(p) \cup Before(p, t)) <= Cardinality(Holders(p) \cup Before(p, s))
        /\ Cardinality(Holders(p) \cup Before(p, t)) \in Nat
        /\ Cardinality(Holders(p) \cup Before(p, s)) \in Nat
    BY <1>5, <1>6, Sizes
  <2> QED BY <1>3, <1>4, <2>1, PoolAssumption DEF HasSlot
<1> QED BY <1>7, GrantSets

\* What a drain grants fits in the pool, and if it grants a background start,
\* in the part of the pool that is not reserved.
LEMMA GrantsFit ==
    ASSUME NEW p, PoolOK(p), Grants(p) # {}
    PROVE  /\ Cardinality(Holders(p) \cup Grants(p)) <= Max
           /\ \A s \in Grants(p) : s \notin p.urgent =>
                 Cardinality(Holders(p) \cup Grants(p)) <= Max - Reserved
<1> DEFINE After == {e \in p.waiting \X p.waiting : DrainsBefore(p, e[2], e[1])}
<1>1. PICK s \in Grants(p) : \A t \in Grants(p) : <<t, s>> \notin After
  <2>1. IsFiniteSet(p.waiting)
    BY GrantSets, Sizes
  <2>2. \A x \in p.waiting : <<x, x>> \notin After
    BY DrainOrder
  <2>3. \A x, y, z \in p.waiting : <<x, y>> \in After /\ <<y, z>> \in After => <<x, z>> \in After
    BY DrainOrder
  <2>4. Grants(p) \subseteq p.waiting
    BY GrantSets
  <2> HIDE DEF After
  <2> QED BY <2>1, <2>2, <2>3, <2>4, MinimalElement
<1>2. s \in p.waiting /\ \A t \in Grants(p) : t = s \/ DrainsBefore(p, t, s)
  BY <1>1, GrantSets, DrainOrder
<1>3. Holders(p) \cup Grants(p) \in SUBSET ((Holders(p) \cup Before(p, s)) \cup {s})
  BY <1>2, GrantSets DEF Before
<1>4. HasSlot(Holders(p) \cup Before(p, s), s \in p.urgent)
  BY <1>2, GrantSets
<1>5. Holders(p) \cup Before(p, s) \in SUBSET Sessions /\ s \in Sessions
  BY <1>2, GrantSets
<1> DEFINE Upto == (Holders(p) \cup Before(p, s)) \cup {s}
<1>6. /\ Cardinality(Upto) <= Max
      /\ s \notin p.urgent => Cardinality(Upto) <= Max - Reserved
  BY <1>4, <1>5, OneMore, PoolAssumption DEF HasSlot
<1>7. Cardinality(Holders(p) \cup Grants(p)) <= Cardinality(Upto)
  BY <1>3, <1>5, Sizes
<1>8. Cardinality(Holders(p) \cup Grants(p)) \in Nat /\ Cardinality(Upto) \in Nat
  BY <1>3, <1>5, Sizes
<1>9. \A t \in Grants(p) : t \notin p.urgent => s \notin p.urgent
  BY <1>2 DEF DrainsBefore
<1> HIDE DEF Upto
<1> QED BY <1>6, <1>7, <1>8, <1>9, PoolAssumption

\* After a drain, no start that still waits could have a slot.
LEMMA GrantsAll ==
    ASSUME NEW p, PoolOK(p), NEW s \in p.waiting \ Grants(p)
    PROVE  ~HasSlot(Holders(p) \cup Grants(p), s \in p.urgent)
<1> DEFINE Order == {e \in p.waiting \X p.waiting : DrainsBefore(p, e[1], e[2])}
           Rest == p.waiting \ Grants(p)
<1>1. PICK u \in Rest : \A t \in Rest : <<t, u>> \notin Order
  <2>1. IsFiniteSet(p.waiting)
    BY GrantSets, Sizes
  <2>2. \A x \in p.waiting : <<x, x>> \notin Order
    BY DrainOrder
  <2>3. \A x, y, z \in p.waiting : <<x, y>> \in Order /\ <<y, z>> \in Order => <<x, z>> \in Order
    BY DrainOrder
  <2>4. Rest \subseteq p.waiting /\ Rest # {}
    OBVIOUS
  <2> HIDE DEF Order, Rest
  <2> QED BY <2>1, <2>2, <2>3, <2>4, MinimalElement
<1>2. u = s \/ DrainsBefore(p, u, s)
  BY <1>1, DrainOrder
<1>3. (s \in p.urgent) => (u \in p.urgent)
  BY <1>2 DEF DrainsBefore
<1>4. Before(p, u) \subseteq Grants(p)
  BY <1>1 DEF Before
<1>5. ~HasSlot(Holders(p) \cup Before(p, u), u \in p.urgent)
  BY GrantSets
<1>6. SUFFICES ASSUME HasSlot(Holders(p) \cup Grants(p), s \in p.urgent) PROVE FALSE
  OBVIOUS
<1>7. /\ Holders(p) \cup Grants(p) \in SUBSET Sessions
      /\ Holders(p) \cup Before(p, u) \in SUBSET (Holders(p) \cup Grants(p))
  BY <1>4, GrantSets, HolderSets DEF PoolOK
<1>8. /\ Cardinality(Holders(p) \cup Before(p, u)) <= Cardinality(Holders(p) \cup Grants(p))
      /\ Cardinality(Holders(p) \cup Before(p, u)) \in Nat
      /\ Cardinality(Holders(p) \cup Grants(p)) \in Nat
  BY <1>7, Sizes
<1> QED BY <1>3, <1>5, <1>6, <1>8, PoolAssumption DEF HasSlot

-----------------------------------------------------------------------------
(* What the operations on the pool change.                                 *)

LEMMA WithoutOK ==
    ASSUME NEW p, PoolOK(p), NEW gone \in SUBSET Sessions
    PROVE  LET q == Without(p, gone) IN
           /\ PoolOK(q) /\ q.streaming = p.streaming /\ q.reserved = p.reserved
           /\ q.waiting = p.waiting \ gone /\ q.urgent = p.urgent \ gone
           /\ q.ahead = p.ahead \cap ((p.waiting \ gone) \X (p.waiting \ gone))
<1> DEFINE q == Without(p, gone)
<1>1. p \in Pools /\ p.waiting \cap Observers = {}
  BY DEF PoolOK
<1>2. /\ q \in Pools /\ q.streaming = p.streaming /\ q.reserved = p.reserved
      /\ q.waiting = p.waiting \ gone /\ q.urgent = p.urgent \ gone
      /\ q.ahead = p.ahead \cap ((p.waiting \ gone) \X (p.waiting \ gone))
  BY <1>1 DEF Pools, Without
<1> HIDE DEF q
<1>3. QueueOrder(q)
  BY <1>2 DEF PoolOK, QueueOrder
<1>4. PoolOK(q)
  BY <1>1, <1>2, <1>3 DEF PoolOK
<1> QED BY <1>2, <1>4 DEF q

LEMMA RetainOK ==
    ASSUME NEW p, PoolOK(p), NEW s \in Sessions
    PROVE  LET q == Retain(p, s) IN
           /\ PoolOK(q) /\ SameQueue(p, q) /\ q.streaming = p.streaming
           /\ q.reserved = p.reserved \cup {s}
           /\ Holders(q) = Holders(p) \cup {s}
<1> DEFINE q == Retain(p, s)
<1>1. p \in Pools
  BY DEF PoolOK
<1>2. /\ q \in Pools /\ SameQueue(p, q) /\ q.streaming = p.streaming
      /\ q.reserved = p.reserved \cup {s}
  BY <1>1 DEF Pools, Retain, SameQueue
<1> HIDE DEF q
<1>3. PoolOK(q)
  BY <1>2, SameQueueOK
<1>4. Holders(q) = Holders(p) \cup {s}
  BY <1>2 DEF Holders, InMap
<1> QED BY <1>2, <1>3, <1>4 DEF q

LEMMA EvictOK ==
    ASSUME NEW p, PoolOK(p), NEW gone
    PROVE  LET q == Evict(p, gone) IN
           /\ PoolOK(q) /\ SameQueue(p, q) /\ q.reserved = p.reserved
           /\ \A s \in Sessions : q.streaming[s] = IF s \in gone THEN "none" ELSE p.streaming[s]
           /\ Holders(q) \subseteq Holders(p)
           /\ Holders(p) \ gone \subseteq Holders(q)
<1> DEFINE q == Evict(p, gone)
<1>1. p \in Pools
  BY DEF PoolOK
<1>2. /\ q \in Pools /\ SameQueue(p, q) /\ q.reserved = p.reserved
      /\ q.streaming = [s \in Sessions |-> IF s \in gone THEN "none" ELSE p.streaming[s]]
  BY <1>1 DEF Pools, Evict, SameQueue, Stages
<1> HIDE DEF q
<1>3. PoolOK(q)
  BY <1>2, SameQueueOK
<1>4. Holders(q) \subseteq Holders(p) /\ Holders(p) \ gone \subseteq Holders(q)
  BY <1>1, <1>2, HolderSets
<1> QED BY <1>2, <1>3, <1>4 DEF q

\* A session enters the map, or its entry changes.
Enter(p, s, stage) == [p EXCEPT !.streaming[s] = stage]

LEMMA EntryOK ==
    ASSUME NEW p, PoolOK(p), NEW s \in Sessions, NEW stage \in Stages, stage # "none"
    PROVE  LET q == Enter(p, s, stage) IN
           /\ PoolOK(q) /\ SameQueue(p, q) /\ q.reserved = p.reserved
           /\ q.streaming = [p.streaming EXCEPT ![s] = stage]
           /\ Holders(q) = Holders(p) \cup {s}
<1> DEFINE q == Enter(p, s, stage)
<1>1. p \in Pools
  BY DEF PoolOK
<1>2. /\ q \in Pools /\ SameQueue(p, q) /\ q.reserved = p.reserved
      /\ q.streaming = [p.streaming EXCEPT ![s] = stage]
  BY <1>1 DEF Pools, SameQueue, Enter
<1> HIDE DEF q
<1>3. PoolOK(q)
  BY <1>2, SameQueueOK
<1>4. Holders(q) = Holders(p) \cup {s}
  BY <1>1, <1>2 DEF Holders, InMap, Pools
<1> QED BY <1>2, <1>3, <1>4 DEF q

\* A start joins the end of its queue.
LEMMA EnqueueOK ==
    ASSUME NEW p, PoolOK(p), NEW s \in Sessions \ Observers, s \notin p.waiting, NEW lane
    PROVE  LET q == Enqueue(p, s, lane) IN
           /\ PoolOK(q) /\ q.streaming = p.streaming /\ q.reserved = p.reserved
           /\ q.waiting = p.waiting \cup {s}
           /\ q.urgent = IF lane = "interactive" THEN p.urgent \cup {s} ELSE p.urgent
           /\ q.ahead = p.ahead \cup (p.waiting \X {s})
           /\ Holders(q) = Holders(p)
<1> DEFINE q == Enqueue(p, s, lane)
<1>1. p \in Pools /\ p.waiting \cap Observers = {} /\ QueueOrder(p)
  BY DEF PoolOK
<1>2. /\ q \in Pools /\ q.streaming = p.streaming /\ q.reserved = p.reserved
      /\ q.waiting = p.waiting \cup {s}
      /\ q.urgent = IF lane = "interactive" THEN p.urgent \cup {s} ELSE p.urgent
      /\ q.ahead = p.ahead \cup (p.waiting \X {s})
  BY <1>1 DEF Pools, Enqueue
<1> HIDE DEF q
<1>3. QueueOrder(q)
  <2>1. q.urgent \subseteq q.waiting /\ q.ahead \subseteq q.waiting \X q.waiting
    BY <1>1, <1>2 DEF QueueOrder
  <2>2. \A t, u \in q.waiting : <<t, u>> \in q.ahead <=>
            (u = s /\ t # s) \/ (<<t, u>> \in p.ahead /\ u # s /\ t # s)
    <3>1. \A t, u : <<t, u>> \in q.ahead <=> (u = s /\ t \in p.waiting) \/ <<t, u>> \in p.ahead
      BY <1>2
    <3>2. \A t, u : <<t, u>> \in p.ahead => t \in p.waiting /\ u \in p.waiting
      BY <1>1 DEF QueueOrder
    <3> QED BY <1>2, <3>1, <3>2
  <2>3. \A t, u \in q.waiting : <<t, u>> \in q.ahead <=> (t # u /\ <<u, t>> \notin q.ahead)
    BY <1>1, <1>2, <2>2 DEF QueueOrder
  <2>4. \A t, u, v \in q.waiting :
            <<t, u>> \in q.ahead /\ <<u, v>> \in q.ahead => <<t, v>> \in q.ahead
    BY <1>1, <1>2, <2>2 DEF QueueOrder
  <2> QED BY <2>1, <2>3, <2>4 DEF QueueOrder
<1>4. Holders(q) = Holders(p)
  BY <1>2 DEF Holders, InMap
<1> QED BY <1>1, <1>2, <1>3, <1>4 DEF q, PoolOK

\* A drain moves what it grants from the queue to the reservations.
LEMMA DrainOK ==
    ASSUME NEW p, PoolOK(p)
    PROVE  LET q == Drain(p) IN
           /\ PoolOK(q) /\ q.streaming = p.streaming
           /\ q.reserved = p.reserved \cup Grants(p)
           /\ q.waiting = p.waiting \ Grants(p) /\ q.urgent = p.urgent \ Grants(p)
           /\ Holders(q) = Holders(p) \cup Grants(p)
<1> DEFINE w == Without(p, Grants(p))
           q == Drain(p)
<1>1. Grants(p) \in SUBSET Sessions
  BY GrantSets
<1>2. /\ PoolOK(w) /\ w.streaming = p.streaming /\ w.reserved = p.reserved
      /\ w.waiting = p.waiting \ Grants(p) /\ w.urgent = p.urgent \ Grants(p)
  BY <1>1, WithoutOK
<1>3. q = [w EXCEPT !.reserved = @ \cup Grants(p)]
  BY DEF Drain
<1> HIDE DEF w, q
<1>4. q \in Pools /\ SameQueue(w, q) /\ q.streaming = w.streaming
      /\ q.reserved = w.reserved \cup Grants(p)
  BY <1>1, <1>2, <1>3 DEF PoolOK, Pools, SameQueue
<1>5. PoolOK(q)
  BY <1>2, <1>4, SameQueueOK
<1>6. Holders(q) = Holders(p) \cup Grants(p)
  BY <1>2, <1>4 DEF Holders, InMap
<1>7. q.waiting = p.waiting \ Grants(p) /\ q.urgent = p.urgent \ Grants(p)
  BY <1>2, <1>4 DEF SameQueue
<1> QED BY <1>2, <1>4, <1>5, <1>6, <1>7 DEF q

\* The queue with a start moved to the front of the interactive lane.
Front(p, s) ==
    LET rest == Without(p, {s})
    IN [rest EXCEPT !.waiting = p.waiting,
                    !.ahead = @ \cup ({s} \X rest.waiting),
                    !.urgent = @ \cup {s}]

LEMMA FrontOK ==
    ASSUME NEW p, PoolOK(p), NEW s \in p.waiting
    PROVE  LET q == Front(p, s) IN
           /\ PoolOK(q) /\ q.streaming = p.streaming /\ q.reserved = p.reserved
           /\ q.waiting = p.waiting /\ q.urgent = p.urgent \cup {s}
           /\ \A t, u \in p.waiting : t # s /\ u # s =>
                 (<<t, u>> \in q.ahead <=> <<t, u>> \in p.ahead)
           /\ \A t \in p.waiting : <<t, s>> \notin q.ahead
           /\ Holders(q) = Holders(p)
           /\ Promote(p, s) = Drain(q)
<1> DEFINE rest == Without(p, {s})
           q == Front(p, s)
<1>1. p \in Pools /\ p.waiting \cap Observers = {} /\ QueueOrder(p) /\ s \in Sessions
  BY DEF PoolOK, Pools
<1>2. /\ PoolOK(rest) /\ rest.streaming = p.streaming /\ rest.reserved = p.reserved
      /\ rest.waiting = p.waiting \ {s} /\ rest.urgent = p.urgent \ {s}
      /\ rest.ahead = p.ahead \cap ((p.waiting \ {s}) \X (p.waiting \ {s}))
  BY <1>1, WithoutOK
<1>3. q = [rest EXCEPT !.waiting = p.waiting,
                       !.ahead = @ \cup ({s} \X rest.waiting),
                       !.urgent = @ \cup {s}]
  BY DEF Front
<1>4. Promote(p, s) = Drain(q)
  BY DEF Promote, Front
<1> HIDE DEF rest, q
<1>5. /\ q \in Pools /\ q.streaming = p.streaming /\ q.reserved = p.reserved
      /\ q.waiting = p.waiting /\ q.urgent = (p.urgent \ {s}) \cup {s}
      /\ q.ahead = rest.ahead \cup ({s} \X rest.waiting)
  <2>1. rest \in Pools
    BY <1>2 DEF PoolOK
  <2>2. rest.ahead \cup ({s} \X rest.waiting) \in SUBSET (Sessions \X Sessions)
    BY <1>1, <2>1 DEF Pools
  <2> QED BY <1>1, <1>2, <1>3, <2>1, <2>2 DEF Pools
<1>6. \A t, u \in p.waiting : <<t, u>> \in q.ahead <=>
          (t = s /\ u # s) \/ (<<t, u>> \in p.ahead /\ u # s /\ t # s)
  BY <1>1, <1>2, <1>5
<1>7. QueueOrder(q)
  <2>1. q.urgent \subseteq q.waiting /\ q.ahead \subseteq q.waiting \X q.waiting
    BY <1>1, <1>2, <1>5 DEF QueueOrder
  <2>2. \A t, u \in q.waiting : <<t, u>> \in q.ahead <=> (t # u /\ <<u, t>> \notin q.ahead)
    BY <1>1, <1>5, <1>6 DEF QueueOrder
  <2>3. \A t, u, v \in q.waiting :
            <<t, u>> \in q.ahead /\ <<u, v>> \in q.ahead => <<t, v>> \in q.ahead
    BY <1>1, <1>5, <1>6 DEF QueueOrder
  <2> QED BY <2>1, <2>2, <2>3 DEF QueueOrder
<1>8. Holders(q) = Holders(p)
  BY <1>5 DEF Holders, InMap
<1>9. PoolOK(q)
  BY <1>1, <1>5, <1>7 DEF PoolOK
<1> QED BY <1>4, <1>5, <1>6, <1>8, <1>9 DEF q

-----------------------------------------------------------------------------
(* The invariant of the pool, and what the steps do to it.                 *)

Handlers == [Sessions -> [at : Steps, lane : Lanes, saw : Readings]]

\* A waiting name has a queued start call.
QueuedOK == \A s \in pool.waiting : call[s]["prompt"] = "queued"

\* A session that a handler has read and still sees is in the map.
ReadingsOK == \A s \in Sessions : handler[s].saw = "present" => pool.streaming[s] # "none"

PoolInv == TypeOK /\ QueueOrder(pool) /\ QueuedOK /\ ReadingsOK

Between == {s \in Sessions : BetweenSlots(s)}

\* Only the handler of s, or of a session that held a slot, goes on.
OnlyHandler(S) ==
    \A t \in Sessions \ S : t \notin Holders(pool) => handler'[t] = handler[t]

\* No slot is taken, and a slot that is let go of will be taken back (or was
\* an observer's).
Keeps ==
    /\ Holders(pool') \subseteq Holders(pool)
    /\ Observers = {} => Holders(pool) \cup Between \subseteq Holders(pool') \cup Between'
    /\ pool'.waiting \subseteq pool.waiting
    /\ pool'.urgent = pool.urgent \cap pool'.waiting

\* The pool, with fewer holders.
Shrunk(p) == PoolOK(p) /\ SameQueue(pool, p) /\ Holders(p) \subseteq Holders(pool)

Drains == \E p : Shrunk(p) /\ pool' = Drain(p) /\ OnlyHandler({})

Promotes ==
    \E s \in pool.waiting :
        /\ handler[s].lane = "interactive" /\ handler'[s] # handler[s]
        /\ pool' = Drain(Front(pool, s)) /\ OnlyHandler({s})

TakesBack ==
    \E s \in Sessions :
        /\ BetweenSlots(s) /\ OnlyHandler({s})
        /\ SameQueue(pool, pool') /\ Holders(pool') = Holders(pool) \cup {s}
        /\ Between \subseteq Between' \cup {s}

Launches ==
    \E s \in Sessions, c \in Callers :
        /\ Holding(s, c) /\ OnlyHandler({})
        /\ SameQueue(pool, pool') /\ Holders(pool') = Holders(pool) \cup {s}
        /\ Between \subseteq Between'

\* A start for the handler of s, which has its slot, queues or is dropped,
\* after the session it replaces was released and the queue drained.
StartsFrom(p, q, s) ==
    /\ \/ p = pool
       \/ s \in Holders(pool) /\ \E r : Shrunk(r) /\ p = Drain(r)
    /\ PoolOK(p) /\ PoolOK(q) /\ SameQueue(p, q) /\ Holders(q) \subseteq Holders(p)
    /\ q.reserved = p.reserved
    /\ Observers = {} => q = p
    /\ handler'[s] # handler[s] /\ OnlyHandler({s}) /\ Between \subseteq Between'
    /\ \/ /\ s \in q.reserved \/ HasSlot(Holders(q), handler[s].lane = "interactive")
          /\ SameQueue(q, pool') /\ Holders(pool') = Holders(q) \cup {s}
       \/ /\ ~HasSlot(Holders(q), handler[s].lane = "interactive")
          /\ s \notin pool.waiting /\ Holders(pool') = Holders(q)
          /\ pool'.waiting = q.waiting \cup {s}
          /\ pool'.urgent = IF handler[s].lane = "interactive" THEN q.urgent \cup {s} ELSE q.urgent
       \/ s \in Observers /\ pool' = q

Starts == \E s \in Sessions : \E p, q : StartsFrom(p, q, s)

\* An idle-gap recovery that restarts nothing lets go of a slot.
LetsGo ==
    \E s \in Sessions :
        /\ RecoverNothing(s) /\ SameQueue(pool, pool') /\ Holders(pool') \subseteq Holders(pool)

Shape == Keeps \/ Drains \/ Promotes \/ TakesBack \/ Launches \/ Starts \/ LetsGo

\* What Update leaves: the pool it is given, and the handlers it is given but
\* for the readings of sessions that have left the map.
LEMMA UpdateOK ==
    ASSUME NEW p, PoolOK(p), NEW h \in Handlers, Update(p, h)
    PROVE  /\ pool' = p /\ PoolOK(pool') /\ handler' \in Handlers
           /\ \A s \in Sessions :
                 /\ handler'[s].at = h[s].at /\ handler'[s].lane = h[s].lane
                 /\ handler'[s].saw = "present" => pool'.streaming[s] # "none"
                 /\ h[s].saw # "present" \/ p.streaming[s] # "none" => handler'[s] = h[s]
<1>1. pool' = p /\ handler' = [s \in Sessions |->
                     IF h[s].saw = "present" /\ p.streaming[s] = "none"
                     THEN [h[s] EXCEPT !.saw = "departed"] ELSE h[s]]
  BY DEF Update
<1>2. \A s \in Sessions :
         /\ h[s] \in [at : Steps, lane : Lanes, saw : Readings]
         /\ [h[s] EXCEPT !.saw = "departed"] \in [at : Steps, lane : Lanes, saw : Readings]
         /\ [h[s] EXCEPT !.saw = "departed"].saw = "departed"
         /\ [h[s] EXCEPT !.saw = "departed"].at = h[s].at
         /\ [h[s] EXCEPT !.saw = "departed"].lane = h[s].lane
  BY DEF Handlers, Readings
<1>3. handler' \in Handlers
  BY <1>1, <1>2 DEF Handlers
<1> QED BY <1>1, <1>2, <1>3

\* What PoolInv says of the pool.
LEMMA PoolInvFacts ==
    ASSUME PoolInv
    PROVE  /\ PoolOK(pool) /\ handler \in Handlers
           /\ pool.streaming \in [Sessions -> Stages]
           /\ pool.waiting \in SUBSET Sessions /\ pool.reserved \in SUBSET Sessions
           /\ pool.urgent \in SUBSET pool.waiting
           /\ Holders(pool) \in SUBSET Sessions
           /\ \A s \in Sessions : Freed(s) \in Handlers
           /\ \A s \in Sessions : s \in Holders(pool) <=>
                 (pool.streaming[s] # "none" \/ s \in pool.reserved)
<1>1. PoolOK(pool) /\ handler \in Handlers /\ pool \in Pools
  BY DEF PoolInv, TypeOK, PoolOK, Handlers
<1>2. \A s \in Sessions : Freed(s) \in Handlers
  BY <1>1 DEF Freed, Idle, Handlers, Steps, Lanes, Readings
<1>3. pool.urgent \in SUBSET pool.waiting
  BY <1>1 DEF PoolOK, QueueOrder
<1> QED BY <1>1, <1>2, <1>3, HolderSets DEF Pools

\* A step that changes no start call keeps the invariant if it keeps the pool
\* in order and queues nobody.
LEMMA NoCallChanges ==
    ASSUME PoolInv, NEW p, PoolOK(p), p.waiting \subseteq pool.waiting,
           NEW h \in Handlers, Update(p, h), call' = call,
           pendingStartSessions' \subseteq Sessions, startingSessions' \subseteq Sessions,
           clashes' \subseteq Clashes
    PROVE  PoolInv'
<1>1. /\ pool' = p /\ handler' \in Handlers /\ ReadingsOK'
  BY UpdateOK DEF ReadingsOK
<1>2. QueuedOK'
  BY <1>1 DEF PoolInv, QueuedOK
<1> QED BY <1>1, <1>2 DEF PoolInv, TypeOK, PoolOK, Handlers

\* The call of s for origin c comes to a stage.
LEMMA OneCallChanges ==
    ASSUME PoolInv, NEW p, PoolOK(p), NEW h \in Handlers, Update(p, h),
           NEW s \in Sessions, NEW c \in Callers, NEW stage \in CallStages, At(s, c, stage),
           \A t \in p.waiting : IF t = s /\ c = "prompt" THEN stage = "queued"
                                ELSE t \in pool.waiting,
           pendingStartSessions' \subseteq Sessions, startingSessions' \subseteq Sessions,
           clashes' \subseteq Clashes
    PROVE  /\ PoolInv'
           /\ \A t \in Sessions, d \in Callers :
                 call'[t][d] = IF t = s /\ d = c THEN stage ELSE call[t][d]
<1>1. /\ pool' = p /\ handler' \in Handlers /\ ReadingsOK'
  BY UpdateOK DEF ReadingsOK
<1>2. call \in [Sessions -> [Callers -> CallStages]]
  BY DEF PoolInv, TypeOK
<1>3. call' \in [Sessions -> [Callers -> CallStages]]
  BY <1>2 DEF At
<1>4. \A t \in Sessions, d \in Callers :
          call'[t][d] = IF t = s /\ d = c THEN stage ELSE call[t][d]
  BY <1>2 DEF At
<1>5. QueuedOK'
  <2>1. p.waiting \subseteq Sessions /\ "prompt" \in Callers
    BY PoolAssumption DEF PoolOK, Pools
  <2> QED BY <1>1, <1>4, <2>1 DEF PoolInv, QueuedOK
<1> QED BY <1>1, <1>3, <1>4, <1>5 DEF PoolInv, TypeOK, PoolOK, Handlers

-----------------------------------------------------------------------------
(* Every step keeps the invariant and has one of the shapes.               *)

\* A prompt joins the queue of a live session.
LEMMA DeliveredOK ==
    ASSUME PoolInv, NEW s \in Sessions, pool.streaming[s] \in Live
    PROVE  LET q == Delivered(pool, s) IN
           PoolOK(q) /\ SameQueue(pool, q) /\ Holders(q) = Holders(pool)
<1> DEFINE stage == IF pool.streaming[s] = "idle" THEN "busy" ELSE pool.streaming[s]
<1>1. stage \in Stages \ {"none"}
  BY PoolAssumption DEF Live, Stages
<1>2. Delivered(pool, s) = [pool EXCEPT !.streaming[s] = stage]
  BY PoolInvFacts DEF Delivered
<1>3. s \in Holders(pool) /\ PoolOK(pool)
  BY PoolInvFacts, PoolAssumption DEF Live
<1> DEFINE q == Delivered(pool, s)
<1> HIDE DEF stage, q
<1>4. q = Enter(pool, s, stage)
  BY <1>2 DEF q, Enter
<1>5. PoolOK(q) /\ SameQueue(pool, q) /\ Holders(q) = Holders(pool) \cup {s}
  BY <1>1, <1>3, <1>4, EntryOK
<1> QED BY <1>3, <1>5 DEF q

\* No call changes, no slot moves.
LEMMA KeepsSlots ==
    ASSUME PoolInv, NEW p, PoolOK(p), SameQueue(pool, p), Holders(p) = Holders(pool),
           NEW h \in Handlers, Update(p, h), call' = call,
           \A t \in Sessions : handler[t].at = "swap" => h[t].at = "swap"
    PROVE  Keeps
<1>1. pool' = p /\ \A t \in Sessions : handler'[t].at = h[t].at
  BY UpdateOK
<1>2. Between \subseteq Between'
  BY <1>1 DEF Between, BetweenSlots
<1> QED BY <1>1, <1>2, PoolInvFacts DEF Keeps, SameQueue

LEMMA ArriveOK ==
    ASSUME PoolInv, NEW s \in Sessions, NEW lane \in Lanes, Arrive(s, lane)
    PROVE  PoolInv' /\ Keeps
<1>1. UNCHANGED <<call, marks, clashes>> /\ handler[s].at = "free" /\ clashes \subseteq Clashes
      /\ pendingStartSessions \subseteq Sessions /\ startingSessions \subseteq Sessions
  BY DEF Arrive, PoolInv, TypeOK
<1>2. CASE pool.streaming[s] \in Live /\ Update(Delivered(pool, s), handler)
  <2>1. \A t \in Sessions : handler[t].at = "swap" => handler[t].at = "swap"
    OBVIOUS
  <2> QED BY <1>1, <1>2, <2>1, DeliveredOK, PoolInvFacts, NoCallChanges, KeepsSlots
          DEF SameQueue, marks
<1> DEFINE h == [handler EXCEPT ![s] =
             [at |-> "decide", lane |-> lane,
              saw |-> IF pool.streaming[s] = "none" THEN "absent" ELSE "present"]]
<1>3. CASE Update(pool, h)
  <2>1. h \in Handlers
    BY PoolInvFacts DEF Handlers, Steps, Readings
  <2>2. \A t \in Sessions : handler[t].at = "swap" => h[t].at = "swap"
    BY <1>1, PoolInvFacts DEF Handlers
  <2>3. PoolOK(pool) /\ SameQueue(pool, pool)
    BY PoolInvFacts DEF SameQueue
  <2> HIDE DEF h
  <2> QED BY <1>1, <1>3, <2>1, <2>2, <2>3, NoCallChanges, KeepsSlots DEF marks
<1> QED BY <1>2, <1>3 DEF Arrive

LEMMA DeliverOK ==
    ASSUME PoolInv, NEW s \in Sessions, Deliver(s)
    PROVE  PoolInv' /\ Keeps
<1>1. UNCHANGED <<call, marks, clashes>> /\ handler[s].at = "decide" /\ clashes \subseteq Clashes
      /\ pendingStartSessions \subseteq Sessions /\ startingSessions \subseteq Sessions
      /\ pool.streaming[s] \in Live /\ Update(Delivered(pool, s), Freed(s))
  BY DEF Deliver, Found, PoolInv, TypeOK
<1>2. \A t \in Sessions : handler[t].at = "swap" => Freed(s)[t].at = "swap"
  BY <1>1, PoolInvFacts DEF Freed, Handlers
<1> QED BY <1>1, <1>2, DeliveredOK, PoolInvFacts, NoCallChanges, KeepsSlots
        DEF SameQueue, marks

LEMMA DeferOK ==
    ASSUME PoolInv, NEW s \in Sessions, Defer(s)
    PROVE  PoolInv' /\ Keeps
<1>1. UNCHANGED <<call, marks, clashes>> /\ handler[s].at = "decide" /\ clashes \subseteq Clashes
      /\ pendingStartSessions \subseteq Sessions /\ startingSessions \subseteq Sessions
      /\ Update(pool, Freed(s))
  BY DEF Defer, Found, PoolInv, TypeOK
<1>2. \A t \in Sessions : handler[t].at = "swap" => Freed(s)[t].at = "swap"
  BY <1>1, PoolInvFacts DEF Freed, Handlers
<1>3. PoolOK(pool) /\ SameQueue(pool, pool)
  BY PoolInvFacts DEF SameQueue
<1> QED BY <1>1, <1>2, <1>3, PoolInvFacts, NoCallChanges, KeepsSlots DEF marks

LEMMA TurnStep ==
    ASSUME PoolInv, NEW s \in Sessions, TurnEnd(s) \/ EndLoop(s)
    PROVE  PoolInv' /\ Keeps
<1>1. PICK stage \in {"idle", "done"} : Update([pool EXCEPT !.streaming[s] = stage], handler)
  BY DEF TurnEnd, EndLoop
<1>2. UNCHANGED <<call, marks, clashes>> /\ pool.streaming[s] # "none" /\ clashes \subseteq Clashes
      /\ pendingStartSessions \subseteq Sessions /\ startingSessions \subseteq Sessions
  BY DEF TurnEnd, EndLoop, PoolInv, TypeOK
<1>3. stage \in Stages \ {"none"}
  BY PoolAssumption DEF Stages
<1> DEFINE q == [pool EXCEPT !.streaming[s] = stage]
<1>4. q = Enter(pool, s, stage) /\ Update(q, handler)
  BY <1>1 DEF Enter
<1>5. PoolOK(pool) /\ s \in Holders(pool)
  BY <1>2, PoolInvFacts
<1> HIDE DEF q
<1>6. PoolOK(q) /\ SameQueue(pool, q) /\ Holders(q) = Holders(pool) \cup {s}
  BY <1>3, <1>4, <1>5, EntryOK
<1> QED BY <1>2, <1>4, <1>5, <1>6, PoolInvFacts, NoCallChanges, KeepsSlots DEF SameQueue, marks

\* A prompt's model is swapped: the slot is let go of.
LEMMA SwapModelOK ==
    ASSUME PoolInv, NEW s \in Sessions, SwapModel(s)
    PROVE  PoolInv' /\ Keeps
<1> DEFINE h == [handler EXCEPT ![s].at = "swap"]
           p == Evict(pool, {s})
<1>1. UNCHANGED <<call, marks, clashes>> /\ handler[s].at = "decide" /\ clashes \subseteq Clashes
      /\ pendingStartSessions \subseteq Sessions /\ startingSessions \subseteq Sessions
      /\ Update(p, h)
  BY DEF SwapModel, Found, PoolInv, TypeOK
<1>2. h \in Handlers /\ h[s].at = "swap" /\ \A t \in Sessions : handler[t].at = "swap" => h[t].at = "swap"
  BY PoolInvFacts DEF Handlers, Steps
<1>3. PoolOK(p) /\ SameQueue(pool, p) /\ Holders(p) \subseteq Holders(pool)
      /\ Holders(pool) \ {s} \subseteq Holders(p)
  BY PoolInvFacts, EvictOK
<1> HIDE DEF h, p
<1>4. PoolInv'
  BY <1>1, <1>2, <1>3, NoCallChanges DEF marks, SameQueue
<1>5. pool' = p /\ \A t \in Sessions : handler'[t].at = h[t].at
  BY <1>1, <1>2, <1>3, UpdateOK
<1>6. Between \cup {s} \subseteq Between'
  BY <1>1, <1>2, <1>5 DEF Between, BetweenSlots
<1> QED BY <1>3, <1>4, <1>5, <1>6, PoolInvFacts DEF Keeps, SameQueue

LEMMA RecoverNothingOK ==
    ASSUME PoolInv, NEW s \in Sessions, RecoverNothing(s)
    PROVE  PoolInv' /\ LetsGo
<1> DEFINE p == Evict(pool, {s})
<1>1. UNCHANGED <<call, marks, clashes>> /\ clashes \subseteq Clashes
      /\ pendingStartSessions \subseteq Sessions /\ startingSessions \subseteq Sessions
      /\ Update(p, handler)
  BY DEF RecoverNothing, PoolInv, TypeOK
<1>2. PoolOK(p) /\ SameQueue(pool, p) /\ Holders(p) \subseteq Holders(pool)
  BY PoolInvFacts, EvictOK
<1> HIDE DEF p
<1>3. PoolInv'
  BY <1>1, <1>2, PoolInvFacts, NoCallChanges DEF marks, SameQueue
<1>4. pool' = p
  BY <1>1 DEF Update
<1> QED BY <1>2, <1>3, <1>4 DEF LetsGo

\* A start call begins, waiting or with its slot.
LEMMA BeginOK ==
    ASSUME PoolInv, NEW p, PoolOK(p), NEW h \in Handlers, Update(p, h),
           NEW s \in Sessions, NEW c, NEW stage \in {"queued", "granted"}, Begin(s, c, stage),
           \/ p.waiting \subseteq pool.waiting
           \/ c = "prompt" /\ stage = "queued" /\ p.waiting \subseteq pool.waiting \cup {s},
           NEW kinds, kinds \subseteq Clashes, Clash(kinds)
    PROVE  /\ PoolInv' /\ c \in Callers /\ call[s][c] \in {"none", "freed"}
           /\ \A t \in Sessions, d \in Callers :
                 call'[t][d] = IF t = s /\ d = c THEN stage ELSE call[t][d]
<1>1. /\ c \in Callers /\ call[s][c] \in {"none", "freed"} /\ At(s, c, stage)
      /\ pendingStartSessions' = pendingStartSessions \cup {s}
      /\ startingSessions' = startingSessions
  BY DEF Begin
<1>2. \A t \in p.waiting : IF t = s /\ c = "prompt" THEN stage = "queued"
                           ELSE t \in pool.waiting
  BY <1>1 DEF PoolInv, QueuedOK
<1>3. stage \in CallStages /\ clashes' \subseteq Clashes
      /\ pendingStartSessions' \subseteq Sessions /\ startingSessions' \subseteq Sessions
  BY <1>1 DEF Clash, PoolInv, TypeOK, CallStages
<1> QED BY <1>1, <1>2, <1>3, OneCallChanges

LEMMA OverlapKind ==
    ASSUME NEW s, NEW c
    PROVE  Overlap(s, c) \subseteq Clashes
BY DEF Overlap, When, Clashes

\* A restart that keeps its slot over a step without an await.
LEMMA RestartKeeps ==
    ASSUME PoolInv, NEW s \in Holders(pool), NEW c, NEW h \in Handlers,
           Update(Retain(Evict(pool, {s}), s), h), Begin(s, c, "granted"), Clash(Overlap(s, c)),
           c = "restart" => call[s]["restart"] = "none",
           \A t \in Sessions : handler[t].at = "swap" => h[t].at = "swap"
    PROVE  PoolInv' /\ Keeps
<1> DEFINE e == Evict(pool, {s})
           p == Retain(e, s)
<1>1. s \in Sessions /\ PoolOK(pool)
  BY PoolInvFacts
<1>2. /\ PoolOK(e) /\ SameQueue(pool, e) /\ Holders(e) \subseteq Holders(pool)
      /\ Holders(pool) \ {s} \subseteq Holders(e)
  BY <1>1, EvictOK
<1>3. Update(p, h)
  OBVIOUS
<1> HIDE DEF e
<1>4. PoolOK(p) /\ SameQueue(e, p) /\ Holders(p) = Holders(e) \cup {s}
  BY <1>1, <1>2, RetainOK
<1> HIDE DEF p
<1>5. PoolOK(p) /\ SameQueue(pool, p) /\ Holders(p) = Holders(pool)
  BY <1>2, <1>4 DEF SameQueue
<1>6. p.waiting \subseteq pool.waiting
  BY <1>5 DEF SameQueue
<1>7. /\ PoolInv' /\ c \in Callers /\ call[s][c] \in {"none", "freed"}
      /\ \A t \in Sessions, d \in Callers :
            call'[t][d] = IF t = s /\ d = c THEN "granted" ELSE call[t][d]
  BY <1>1, <1>3, <1>5, <1>6, OverlapKind, BeginOK
<1>8. pool' = p /\ \A t \in Sessions : handler'[t].at = h[t].at
  BY <1>3, <1>5, UpdateOK
<1>9. Between \subseteq Between'
  BY <1>7, <1>8 DEF Between, BetweenSlots
<1> QED BY <1>5, <1>7, <1>8, <1>9, PoolInvFacts DEF Keeps, SameQueue

LEMMA RestartStep ==
    ASSUME PoolInv, NEW s \in Sessions, RestartInPlace(s) \/ RecoverIdleGap(s) \/ SwitchModel(s)
    PROVE  PoolInv' /\ Keeps
<1>1. handler \in Handlers /\ Freed(s) \in Handlers
  BY PoolInvFacts
<1>2. CASE RestartInPlace(s)
  <2>1. handler[s].at = "decide" /\ pool.streaming[s] \in Live
        /\ Update(Retain(Evict(pool, {s}), s), Freed(s))
        /\ Begin(s, "prompt", "granted") /\ Clash(Overlap(s, "prompt"))
    BY <1>2 DEF RestartInPlace, Found
  <2>2. s \in Holders(pool)
    BY <2>1, PoolInvFacts, PoolAssumption DEF Live
  <2>3. \A t \in Sessions : handler[t].at = "swap" => Freed(s)[t].at = "swap"
    BY <2>1, <1>1 DEF Freed, Handlers
  <2> QED BY <1>1, <2>1, <2>2, <2>3, RestartKeeps
<1>3. CASE RecoverIdleGap(s)
  <2>1. s \in Holders(pool)
    BY <1>3, PoolInvFacts DEF RecoverIdleGap
  <2> QED BY <1>1, <1>3, <2>1, RestartKeeps DEF RecoverIdleGap
<1>4. CASE SwitchModel(s)
  <2>1. s \in Holders(pool)
    BY <1>4, PoolInvFacts, PoolAssumption DEF SwitchModel, Live
  <2> QED BY <1>1, <1>4, <2>1, RestartKeeps DEF SwitchModel
<1> QED BY <1>2, <1>3, <1>4

\* The event loop leaves the map and awaits something: its slot is let go of.
LEMMA LeaveMapOK ==
    ASSUME PoolInv, NEW s \in Sessions, LeaveMap(s)
    PROVE  PoolInv' /\ Keeps
<1> DEFINE p == Evict(pool, {s})
<1>1. UNCHANGED <<marks, clashes>> /\ clashes \subseteq Clashes
      /\ pendingStartSessions \subseteq Sessions /\ startingSessions \subseteq Sessions
      /\ Update(p, handler) /\ "restart" \in Callers /\ At(s, "restart", "freed")
  BY DEF LeaveMap, PoolInv, TypeOK
<1>2. PoolOK(p) /\ SameQueue(pool, p) /\ Holders(p) \subseteq Holders(pool)
      /\ Holders(pool) \ {s} \subseteq Holders(p)
  BY PoolInvFacts, EvictOK
<1> HIDE DEF p
<1>3. /\ PoolInv'
      /\ \A t \in Sessions, d \in Callers :
            call'[t][d] = IF t = s /\ d = "restart" THEN "freed" ELSE call[t][d]
  <2>1. p.waiting = pool.waiting /\ "freed" \in CallStages
    BY <1>2 DEF SameQueue, CallStages
  <2> QED BY <1>1, <1>2, <2>1, PoolInvFacts, OneCallChanges DEF marks
<1>4. pool' = p /\ \A t \in Sessions : handler'[t].at = handler[t].at
  BY <1>1, <1>2, PoolInvFacts, UpdateOK
<1>5. Between \cup {s} \subseteq Between'
  BY <1>1, <1>3, <1>4 DEF Between, BetweenSlots
<1> QED BY <1>2, <1>3, <1>4, <1>5, PoolInvFacts DEF Keeps, SameQueue

\* A start that leaves the queue, its call answered with a failure.
LEMMA TimeOutStartOK ==
    ASSUME PoolInv, NEW s \in Sessions, TimeOutStart(s)
    PROVE  PoolInv' /\ Keeps
<1> DEFINE p == Without(pool, {s})
<1>1. /\ s \in pool.waiting /\ Update(p, handler) /\ At(s, "prompt", "none")
      /\ pendingStartSessions' \subseteq Sessions /\ startingSessions' \subseteq Sessions
      /\ clashes' \subseteq Clashes /\ "prompt" \in Callers
  BY PoolAssumption DEF TimeOutStart, PoolInv, TypeOK
<1>2. PoolOK(p) /\ p.streaming = pool.streaming /\ p.reserved = pool.reserved
      /\ p.waiting = pool.waiting \ {s} /\ p.urgent = pool.urgent \ {s}
  BY PoolInvFacts, WithoutOK
<1> HIDE DEF p
<1>3. /\ PoolInv'
      /\ \A t \in Sessions, d \in Callers :
            call'[t][d] = IF t = s /\ d = "prompt" THEN "none" ELSE call[t][d]
  <2>1. "none" \in CallStages
    BY DEF CallStages
  <2> QED BY <1>1, <1>2, <2>1, PoolInvFacts, OneCallChanges
<1>4. pool' = p /\ \A t \in Sessions : handler'[t].at = handler[t].at
  BY <1>1, <1>2, PoolInvFacts, UpdateOK
<1>5. Between \subseteq Between'
  BY <1>1, <1>3, <1>4 DEF Between, BetweenSlots
<1>6. Holders(p) = Holders(pool)
  BY <1>2 DEF Holders, InMap
<1> QED BY <1>2, <1>3, <1>4, <1>5, <1>6, PoolInvFacts DEF Keeps

\* A drain after some holders have gone.
LEMMA DrainShape ==
    ASSUME PoolInv, NEW r, Shrunk(r), Update(Drain(r), handler)
    PROVE  /\ PoolOK(Drain(r)) /\ Drain(r).waiting \subseteq pool.waiting
           /\ pool' = Drain(r) /\ Drains
           /\ \A t \in Sessions : handler'[t].at = handler[t].at
<1>1. /\ PoolOK(r) /\ SameQueue(pool, r)
      /\ PoolOK(Drain(r)) /\ Drain(r).waiting = r.waiting \ Grants(r)
  BY DrainOK DEF Shrunk
<1>2. \A t \in Sessions : t \notin Holders(pool) => handler[t].saw # "present"
  BY PoolInvFacts DEF PoolInv, ReadingsOK
<1>3. pool' = Drain(r) /\ OnlyHandler({})
      /\ \A t \in Sessions : handler'[t].at = handler[t].at
  BY <1>1, <1>2, PoolInvFacts, UpdateOK DEF OnlyHandler
<1> QED BY <1>1, <1>3 DEF Drains, SameQueue

LEMMA EvictShrinks ==
    ASSUME PoolInv, NEW gone
    PROVE  Shrunk(Evict(pool, gone))
BY PoolInvFacts, EvictOK DEF Shrunk

LEMMA PoolShrunk ==
    ASSUME PoolInv
    PROVE  Shrunk(pool)
BY PoolInvFacts DEF Shrunk, SameQueue

\* A session is released by name, or several are, and the queue is drained.
LEMMA ReleaseStep ==
    ASSUME PoolInv, NEW gone, Update(Drain(Evict(pool, gone)), handler),
           UNCHANGED <<call, marks, clashes>>
    PROVE  PoolInv' /\ Drains
<1> DEFINE r == Evict(pool, gone)
<1>1. Shrunk(r)
  BY EvictShrinks
<1>2. Update(Drain(r), handler)
  OBVIOUS
<1>3. /\ clashes \subseteq Clashes /\ handler \in Handlers
      /\ pendingStartSessions \subseteq Sessions /\ startingSessions \subseteq Sessions
  BY PoolInvFacts DEF PoolInv, TypeOK
<1> HIDE DEF r
<1> QED BY <1>1, <1>2, <1>3, DrainShape, NoCallChanges DEF marks

LEMMA GiveUpOK ==
    ASSUME PoolInv, NEW s \in Sessions, GiveUp(s)
    PROVE  PoolInv' /\ Drains
<1>1. /\ clashes' \subseteq Clashes /\ handler \in Handlers
      /\ pendingStartSessions' \subseteq Sessions /\ startingSessions' \subseteq Sessions
      /\ "restart" \in Callers /\ At(s, "restart", "none") /\ "none" \in CallStages
      /\ Update(Drain(pool), handler)
  BY PoolInvFacts DEF GiveUp, PoolInv, TypeOK, marks, CallStages
<1>2. PoolOK(Drain(pool)) /\ Drain(pool).waiting \subseteq pool.waiting /\ Drains
  BY <1>1, PoolShrunk, DrainShape
<1> QED BY <1>1, <1>2, OneCallChanges

LEMMA BuildFailOK ==
    ASSUME PoolInv, NEW s \in Sessions, NEW c \in Callers, BuildFail(s, c)
    PROVE  PoolInv' /\ Drains
<1> DEFINE r == Evict(pool, {s})
<1>1. /\ clashes' \subseteq Clashes /\ handler \in Handlers
      /\ pendingStartSessions' \subseteq Sessions /\ startingSessions' \subseteq Sessions
      /\ At(s, c, "failed") /\ "failed" \in CallStages
      /\ call[s][c] = "building" /\ Update(Drain(r), handler)
  BY PoolInvFacts DEF BuildFail, PoolInv, TypeOK, marks, CallStages, Clash, When, Clashes
<1>2. Shrunk(r)
  BY EvictShrinks
<1> HIDE DEF r
<1>3. PoolOK(Drain(r)) /\ Drain(r).waiting \subseteq pool.waiting /\ Drains
  BY <1>1, <1>2, DrainShape
<1>4. \A t \in Drain(r).waiting : ~(t = s /\ c = "prompt") /\ t \in pool.waiting
  BY <1>1, <1>3 DEF PoolInv, QueuedOK
<1> QED BY <1>1, <1>3, <1>4, OneCallChanges

\* startStreamingSession returns, from a pool p that differs at most in the
\* entry and in the reservation of s.
LEMMA FinishOK ==
    ASSUME PoolInv, NEW s \in Sessions, NEW c \in Callers, NEW p, PoolOK(p),
           SameQueue(pool, p), InMap(p) = InMap(pool),
           pool.reserved \subseteq p.reserved, p.reserved \subseteq pool.reserved \cup {s},
           Finish(s, c, p), UNCHANGED clashes,
           call[s][c] \in {"queued", "granted", "building", "failed"},
           call[s][c] = "queued" => s \notin pool.waiting
    PROVE  PoolInv' /\ (Keeps \/ Drains)
<1> DEFINE q == [p EXCEPT !.reserved = @ \ {s}]
           drains == c = "restart" \/ (s \in p.reserved /\ p.streaming[s] = "none")
           new == IF drains THEN Drain(q) ELSE q
<1>1. /\ At(s, c, "none") /\ Update(new, handler) /\ "none" \in CallStages
      /\ clashes' \subseteq Clashes /\ handler \in Handlers
      /\ pendingStartSessions' \subseteq Sessions /\ startingSessions' \subseteq Sessions
  BY PoolInvFacts DEF Finish, PoolInv, TypeOK, CallStages
<1>2. /\ q \in Pools /\ SameQueue(p, q) /\ q.streaming = p.streaming
      /\ q.reserved = p.reserved \ {s}
  BY DEF PoolOK, Pools, SameQueue
<1> HIDE DEF q
<1>3. PoolOK(q) /\ SameQueue(pool, q)
  BY <1>2, SameQueueOK DEF SameQueue
<1>4. Holders(q) \subseteq Holders(pool)
  BY <1>2 DEF Holders, InMap
<1>5. Shrunk(q)
  BY <1>3, <1>4 DEF Shrunk
<1>6. PoolOK(new) /\ new.waiting \subseteq pool.waiting
  BY <1>3, DrainOK DEF SameQueue
<1> HIDE DEF new
<1>7. \A t \in new.waiting : ~(t = s /\ c = "prompt") /\ t \in pool.waiting
  BY <1>6 DEF PoolInv, QueuedOK
<1>8. /\ PoolInv'
      /\ \A t \in Sessions, d \in Callers :
            call'[t][d] = IF t = s /\ d = c THEN "none" ELSE call[t][d]
  BY <1>1, <1>6, <1>7, OneCallChanges
<1>9. CASE drains
  BY <1>1, <1>5, <1>8, <1>9, DrainShape DEF new
<1>10. CASE ~drains
  <2>1. new = q
    BY <1>10 DEF new
  <2>2. Holders(pool) = Holders(q)
    BY <1>2, <1>10, <1>4 DEF Holders, InMap
  <2>3. pool' = q /\ \A t \in Sessions : handler'[t].at = handler[t].at
    BY <1>1, <1>6, <2>1, UpdateOK
  <2>4. Between \subseteq Between'
    BY <1>8, <2>3 DEF Between, BetweenSlots
  <2> QED BY <1>3, <1>8, <2>2, <2>3, <2>4, PoolInvFacts DEF Keeps, SameQueue
<1> QED BY <1>9, <1>10

LEMMA EndOfStart ==
    ASSUME PoolInv, NEW s \in Sessions, NEW c \in Callers,
           LaunchNothing(s, c) \/ BuildOk(s, c) \/ Report(s, c)
    PROVE  PoolInv' /\ (Keeps \/ Drains)
<1>1. PoolOK(pool) /\ SameQueue(pool, pool)
  BY PoolInvFacts DEF SameQueue
<1>2. CASE LaunchNothing(s, c)
  <2> DEFINE p == Retain(pool, s)
  <2>1. /\ PoolOK(p) /\ SameQueue(pool, p) /\ p.streaming = pool.streaming
        /\ p.reserved = pool.reserved \cup {s}
    BY <1>1, RetainOK
  <2>2. Finish(s, c, p) /\ UNCHANGED clashes /\ Holding(s, c)
    BY <1>2 DEF LaunchNothing
  <2> HIDE DEF p
  <2>3. InMap(p) = InMap(pool)
    BY <2>1 DEF InMap
  <2> QED BY <2>1, <2>2, <2>3, FinishOK DEF Holding
<1>3. CASE BuildOk(s, c) /\ Owns(s, c)
  <2> DEFINE p == [pool EXCEPT !.streaming[s] = "busy"]
  <2>1. Finish(s, c, p) /\ UNCHANGED clashes /\ call[s][c] = "building"
    BY <1>3 DEF BuildOk
  <2>2. p = Enter(pool, s, "busy") /\ "busy" \in Stages \ {"none"}
    BY DEF Stages, Enter
  <2> HIDE DEF p
  <2>3. /\ PoolOK(p) /\ SameQueue(pool, p) /\ p.reserved = pool.reserved
        /\ p.streaming = [pool.streaming EXCEPT ![s] = "busy"]
    BY <1>1, <2>2, EntryOK
  <2>4. InMap(p) = InMap(pool)
    BY <1>3, <2>3, PoolInvFacts, PoolAssumption DEF InMap, Owns
  <2> QED BY <2>1, <2>3, <2>4, FinishOK
<1>4. CASE BuildOk(s, c) /\ ~Owns(s, c)
  <2>1. Finish(s, c, pool) /\ UNCHANGED clashes /\ call[s][c] = "building"
    BY <1>4 DEF BuildOk
  <2> QED BY <1>1, <2>1, FinishOK
<1>5. CASE Report(s, c)
  BY <1>1, <1>5, FinishOK DEF Report
<1> QED BY <1>2, <1>3, <1>4, <1>5

\* A restart takes back the slot it let go of across an await.
LEMMA TakeBackStep ==
    ASSUME PoolInv, NEW s \in Sessions, TakeBack(s) \/ Resume(s)
    PROVE  PoolInv' /\ TakesBack
<1> DEFINE p == Retain(pool, s)
<1>1. PICK h \in {handler, Freed(s)}, c \in {"prompt", "restart"} :
          /\ Update(p, h) /\ Begin(s, c, "granted") /\ Clash(Overlap(s, c))
          /\ BetweenSlots(s)
  BY DEF TakeBack, Resume, BetweenSlots
<1>2. /\ PoolOK(p) /\ SameQueue(pool, p) /\ Holders(p) = Holders(pool) \cup {s}
      /\ h \in Handlers
  BY PoolInvFacts, RetainOK
<1> HIDE DEF p
<1>3. /\ PoolInv'
      /\ \A t \in Sessions, d \in Callers :
            call'[t][d] = IF t = s /\ d = c THEN "granted" ELSE call[t][d]
  BY <1>1, <1>2, OverlapKind, BeginOK DEF SameQueue
<1>4. \A t \in Sessions \ {s} : h[t] = handler[t]
  BY PoolInvFacts DEF Freed, Handlers
<1>5. \A t \in Sessions : t \notin Holders(pool) => handler[t].saw # "present"
  BY PoolInvFacts DEF PoolInv, ReadingsOK
<1>6. pool' = p /\ OnlyHandler({s}) /\ \A t \in Sessions \ {s} : handler'[t].at = handler[t].at
  BY <1>1, <1>2, <1>4, <1>5, UpdateOK DEF OnlyHandler
<1>7. Between \subseteq Between' \cup {s}
  BY <1>3, <1>6 DEF Between, BetweenSlots
<1> QED BY <1>1, <1>2, <1>3, <1>6, <1>7 DEF TakesBack

LEMMA LaunchOK ==
    ASSUME PoolInv, NEW s \in Sessions, NEW c \in Callers, Launch(s, c)
    PROVE  PoolInv' /\ Launches
<1> DEFINE r == Retain(pool, s)
           p == [r EXCEPT !.streaming[s] = c]
<1>1. /\ clashes' \subseteq Clashes /\ handler \in Handlers
      /\ pendingStartSessions' \subseteq Sessions /\ startingSessions' \subseteq Sessions
      /\ Holding(s, c) /\ At(s, c, "building") /\ "building" \in CallStages /\ Update(p, handler)
  BY PoolInvFacts DEF Launch, PoolInv, TypeOK, CallStages, Clash, When, Clashes
<1>2. PoolOK(r) /\ SameQueue(pool, r) /\ Holders(r) = Holders(pool) \cup {s}
  BY PoolInvFacts, RetainOK
<1>3. p = Enter(r, s, c) /\ c \in Stages \ {"none"}
  BY PoolAssumption DEF Stages, Enter
<1> HIDE DEF r, p
<1>4. PoolOK(p) /\ SameQueue(r, p) /\ Holders(p) = Holders(r) \cup {s}
  BY <1>2, <1>3, EntryOK
<1>5. SameQueue(pool, p) /\ Holders(p) = Holders(pool) \cup {s}
  BY <1>2, <1>4 DEF SameQueue
<1>6. \A t \in p.waiting : ~(t = s /\ c = "prompt") /\ t \in pool.waiting
  BY <1>1, <1>5 DEF SameQueue, Holding, PoolInv, QueuedOK
<1>7. /\ PoolInv'
      /\ \A t \in Sessions, d \in Callers :
            call'[t][d] = IF t = s /\ d = c THEN "building" ELSE call[t][d]
  BY <1>1, <1>4, <1>6, OneCallChanges
<1>8. \A t \in Sessions : t \notin Holders(pool) => handler[t].saw # "present"
  BY PoolInvFacts DEF PoolInv, ReadingsOK
<1>9. pool' = p /\ OnlyHandler({}) /\ \A t \in Sessions : handler'[t].at = handler[t].at
  BY <1>1, <1>4, <1>8, UpdateOK DEF OnlyHandler
<1>10. Between \subseteq Between'
  BY <1>1, <1>7, <1>9 DEF Between, BetweenSlots, Holding
<1> QED BY <1>1, <1>5, <1>7, <1>9, <1>10 DEF Launches

\* The handler of s has done what it was there for.
LEMMA FreedHandler ==
    ASSUME PoolInv, NEW s \in Sessions, handler[s].at = "decide",
           NEW p, PoolOK(p), Update(p, Freed(s))
    PROVE  /\ handler'[s] # handler[s] /\ OnlyHandler({s})
           /\ \A t \in Sessions : handler[t].at = "swap" => handler'[t].at = "swap"
<1>1. /\ handler \in Handlers /\ Freed(s) \in Handlers
      /\ Freed(s)[s].at = "free" /\ \A t \in Sessions \ {s} : Freed(s)[t] = handler[t]
  BY PoolInvFacts DEF Freed, Idle, Handlers
<1>2. \A t \in Sessions : t \notin Holders(pool) => handler[t].saw # "present"
  BY PoolInvFacts DEF PoolInv, ReadingsOK
<1> QED BY <1>1, <1>2, UpdateOK DEF OnlyHandler

LEMMA JoinStartOK ==
    ASSUME PoolInv, NEW s \in Sessions, JoinStart(s)
    PROVE  PoolInv' /\ (Keeps \/ Promotes)
<1> DEFINE p == IF s \in pendingStartSessions /\ handler[s].lane = "interactive"
                THEN Promote(pool, s) ELSE pool
<1>1. /\ clashes \subseteq Clashes /\ handler \in Handlers /\ Freed(s) \in Handlers
      /\ pendingStartSessions \subseteq Sessions /\ startingSessions \subseteq Sessions
      /\ UNCHANGED <<call, marks, clashes>> /\ handler[s].at = "decide"
      /\ Update(p, Freed(s))
  BY PoolInvFacts DEF JoinStart, Found, PoolInv, TypeOK
<1>2. CASE handler[s].lane = "interactive" /\ s \in pool.waiting /\ p = Promote(pool, s)
  <2> DEFINE f == Front(pool, s)
  <2>1. PoolOK(f) /\ f.waiting = pool.waiting /\ p = Drain(f)
    BY <1>2, PoolInvFacts, FrontOK
  <2>2. PoolOK(p) /\ p.waiting \subseteq pool.waiting
    BY <2>1, DrainOK
  <2> HIDE DEF p, f
  <2>3. pool' = p /\ PoolInv'
    BY <1>1, <2>2, NoCallChanges, UpdateOK DEF marks
  <2>4. handler'[s] # handler[s] /\ OnlyHandler({s})
    BY <1>1, <2>2, FreedHandler
  <2> QED BY <1>2, <2>1, <2>3, <2>4 DEF Promotes, f
<1>3. CASE p = pool
  <2>1. \A t \in Sessions : handler[t].at = "swap" => Freed(s)[t].at = "swap"
    BY <1>1 DEF Freed, Handlers
  <2>2. PoolOK(pool) /\ SameQueue(pool, pool) /\ Update(pool, Freed(s))
    BY <1>1, <1>3, PoolInvFacts DEF SameQueue
  <2> QED BY <1>1, <2>1, <2>2, NoCallChanges, KeepsSlots DEF marks
<1> QED BY <1>2, <1>3 DEF Promote

LEMMA ReclaimedOK ==
    ASSUME NEW p, PoolOK(p), NEW s, NEW lane
    PROVE  LET q == Reclaimed(p, s, lane) IN
           /\ PoolOK(q) /\ SameQueue(p, q) /\ Holders(q) \subseteq Holders(p)
           /\ q.reserved = p.reserved
           /\ Observers = {} => q = p
<1> DEFINE e == Evict(p, IdleObservers(p))
<1>1. /\ PoolOK(e) /\ SameQueue(p, e) /\ Holders(e) \subseteq Holders(p)
      /\ e.reserved = p.reserved
  BY EvictOK
<1>2. Observers = {} => e = p
  <2>1. SUFFICES ASSUME Observers = {} PROVE e = p
    OBVIOUS
  <2>2. IdleObservers(p) = {}
    BY <2>1 DEF IdleObservers
  <2>3. p \in Pools
    BY DEF PoolOK
  <2>4. p.streaming \in [Sessions -> Stages]
    BY <2>3 DEF Pools
  <2>5. [t \in Sessions |-> IF t \in {} THEN "none" ELSE p.streaming[t]] = p.streaming
    BY <2>4
  <2>6. e = [p EXCEPT !.streaming = p.streaming]
    BY <2>2, <2>5 DEF Evict
  <2> QED BY <2>3, <2>6 DEF Pools
<1> HIDE DEF e
<1>3. SameQueue(p, p)
  BY DEF SameQueue
<1> QED BY <1>1, <1>2, <1>3 DEF Reclaimed, e

\* startStreamingSession, from the pool as it is or after a session was
\* released and the queue drained.
LEMMA StartFromOK ==
    ASSUME PoolInv, NEW s \in Sessions, handler[s].at = "decide",
           NEW p, PoolOK(p), p.waiting \subseteq pool.waiting,
           p = pool \/ (s \in Holders(pool) /\ \E r : Shrunk(r) /\ p = Drain(r)),
           NEW lost, lost \subseteq Clashes, StartFrom(p, s, handler[s].lane, lost)
    PROVE  PoolInv' /\ Starts
<1> DEFINE lane == handler[s].lane
           q == Reclaimed(p, s, lane)
           slot == HasSlot(Holders(q), lane = "interactive")
           fits == s \in q.reserved \/ slot
<1>1. /\ PoolOK(q) /\ SameQueue(p, q) /\ Holders(q) \subseteq Holders(p)
      /\ q.reserved = p.reserved /\ (Observers = {} => q = p)
  BY ReclaimedOK
<1>2. /\ clashes \subseteq Clashes /\ handler \in Handlers /\ Freed(s) \in Handlers
      /\ pendingStartSessions \subseteq Sessions /\ startingSessions \subseteq Sessions
      /\ lost \cup Overlap(s, "prompt") \subseteq Clashes
  BY PoolInvFacts, OverlapKind DEF PoolInv, TypeOK
<1>3. q.waiting \subseteq pool.waiting
  BY <1>1 DEF SameQueue
<1>4. \/ fits /\ Update(Retain(q, s), Freed(s)) /\ Begin(s, "prompt", "granted")
         /\ Clash(lost \cup Overlap(s, "prompt"))
      \/ ~fits /\ ~Throttled(s)
         /\ Update(Enqueue(q, s, lane), Freed(s)) /\ Begin(s, "prompt", "queued")
         /\ Clash(lost \cup Overlap(s, "prompt"))
      \/ ~fits /\ Throttled(s) /\ Update(q, Freed(s))
         /\ pendingStartSessions' = pendingStartSessions \ {s}
         /\ startingSessions' = startingSessions \ {s}
         /\ Clash(lost) /\ UNCHANGED call
  BY DEF StartFrom
<1> HIDE DEF lane, q, slot
<1>5. CASE fits /\ Update(Retain(q, s), Freed(s)) /\ Begin(s, "prompt", "granted")
           /\ Clash(lost \cup Overlap(s, "prompt"))
  <2> DEFINE x == Retain(q, s)
  <2>1. PoolOK(x) /\ SameQueue(q, x) /\ Holders(x) = Holders(q) \cup {s}
    BY <1>1, RetainOK
  <2>2. Update(x, Freed(s))
    BY <1>5
  <2> HIDE DEF x
  <2>3. /\ PoolInv'
        /\ \A t \in Sessions, d \in Callers :
              call'[t][d] = IF t = s /\ d = "prompt" THEN "granted" ELSE call[t][d]
    BY <1>2, <1>3, <1>5, <2>1, <2>2, BeginOK DEF SameQueue
  <2>4. /\ pool' = x /\ handler'[s] # handler[s] /\ OnlyHandler({s})
        /\ \A t \in Sessions : handler[t].at = "swap" => handler'[t].at = "swap"
    BY <1>2, <2>1, <2>2, UpdateOK, FreedHandler
  <2>5. Between \subseteq Between'
    BY <2>3, <2>4 DEF Between, BetweenSlots
  <2>6. StartsFrom(p, q, s)
    BY <1>1, <1>5, <2>1, <2>4, <2>5 DEF StartsFrom, lane, slot
  <2> QED BY <2>3, <2>6 DEF Starts
<1>6. CASE ~fits /\ ~Throttled(s)
           /\ Update(Enqueue(q, s, lane), Freed(s)) /\ Begin(s, "prompt", "queued")
           /\ Clash(lost \cup Overlap(s, "prompt"))
  <2> DEFINE x == Enqueue(q, s, lane)
  <2>0. s \notin Observers /\ s \notin pool.waiting
    BY <1>6 DEF Throttled, Begin, PoolInv, QueuedOK
  <2>1. /\ PoolOK(x) /\ x.waiting = q.waiting \cup {s} /\ Holders(x) = Holders(q)
        /\ x.urgent = IF lane = "interactive" THEN q.urgent \cup {s} ELSE q.urgent
    BY <1>1, <1>3, <2>0, EnqueueOK
  <2>2. Update(x, Freed(s))
    BY <1>6
  <2> HIDE DEF x
  <2>3. /\ PoolInv'
        /\ \A t \in Sessions, d \in Callers :
              call'[t][d] = IF t = s /\ d = "prompt" THEN "queued" ELSE call[t][d]
    BY <1>2, <1>3, <1>6, <2>1, <2>2, BeginOK
  <2>4. /\ pool' = x /\ handler'[s] # handler[s] /\ OnlyHandler({s})
        /\ \A t \in Sessions : handler[t].at = "swap" => handler'[t].at = "swap"
    BY <1>2, <2>1, <2>2, UpdateOK, FreedHandler
  <2>5. Between \subseteq Between'
    BY <2>3, <2>4 DEF Between, BetweenSlots
  <2>6. s \notin pool.waiting /\ ~slot
    BY <1>6, <2>0
  <2>7. StartsFrom(p, q, s)
    BY <1>1, <2>1, <2>4, <2>5, <2>6 DEF StartsFrom, lane, slot
  <2> QED BY <2>3, <2>7 DEF Starts
<1>7. CASE ~fits /\ Throttled(s) /\ Update(q, Freed(s))
           /\ pendingStartSessions' = pendingStartSessions \ {s}
           /\ startingSessions' = startingSessions \ {s}
           /\ Clash(lost) /\ UNCHANGED call
  <2>1. PoolInv'
    BY <1>1, <1>2, <1>3, <1>7, NoCallChanges DEF Clash
  <2>2. /\ pool' = q /\ handler'[s] # handler[s] /\ OnlyHandler({s})
        /\ \A t \in Sessions : handler[t].at = "swap" => handler'[t].at = "swap"
    BY <1>1, <1>2, <1>7, UpdateOK, FreedHandler
  <2>3. Between \subseteq Between'
    BY <1>7, <2>2 DEF Between, BetweenSlots
  <2>4. StartsFrom(p, q, s)
    BY <1>1, <1>7, <2>2, <2>3 DEF StartsFrom, Throttled
  <2> QED BY <2>1, <2>4 DEF Starts
<1> QED BY <1>4, <1>5, <1>6, <1>7

LEMMA StartStep ==
    ASSUME PoolInv, NEW s \in Sessions, ColdStart(s) \/ ReplaceDone(s)
    PROVE  PoolInv' /\ Starts
<1>1. CASE ColdStart(s)
  <2>1. handler[s].at = "decide" /\ StartFrom(pool, s, handler[s].lane, {})
    BY <1>1 DEF ColdStart, Found
  <2>2. {} \subseteq Clashes /\ PoolOK(pool) /\ pool.waiting \subseteq pool.waiting
    BY PoolInvFacts
  <2> QED BY <2>1, <2>2, StartFromOK
<1>2. CASE ReplaceDone(s)
  <2> DEFINE lost == When(pool.streaming[s] \in Live, "lost")
             r == Evict(pool, {s})
             p == IF pool.streaming[s] = "none" THEN pool ELSE Drain(r)
  <2>1. handler[s].at = "decide" /\ StartFrom(p, s, handler[s].lane, lost)
    BY <1>2 DEF ReplaceDone, Found
  <2>2. lost \subseteq Clashes
    BY DEF When, Clashes
  <2>3. Shrunk(r)
    BY EvictShrinks
  <2> HIDE DEF r, lost
  <2>4. PoolOK(Drain(r)) /\ Drain(r).waiting \subseteq pool.waiting /\ PoolOK(pool)
    BY <2>3, DrainOK, PoolInvFacts DEF Shrunk, SameQueue
  <2>5. p = pool \/ (s \in Holders(pool) /\ p = Drain(r))
    BY PoolInvFacts
  <2>6. PoolOK(p) /\ p.waiting \subseteq pool.waiting
    BY <2>4
  <2> HIDE DEF p
  <2> QED BY <2>1, <2>2, <2>3, <2>5, <2>6, StartFromOK
<1> QED BY <1>1, <1>2

LEMMA StepShape ==
    ASSUME PoolInv, Next
    PROVE  PoolInv' /\ Shape
<1>1. CASE \E s \in Sessions :
          \/ \E lane \in Lanes : Arrive(s, lane)
          \/ HandlerStep(s)
          \/ \E c \in Callers : CallStep(s, c)
          \/ TimeOutStart(s)
          \/ TurnEnd(s) \/ EndLoop(s) \/ LoopExit(s)
          \/ RecoverIdleGap(s) \/ RecoverNothing(s) \/ SwitchModel(s) \/ Abort(s)
  <2>1. PICK s \in Sessions :
          \/ \E lane \in Lanes : Arrive(s, lane)
          \/ HandlerStep(s)
          \/ \E c \in Callers : CallStep(s, c)
          \/ TimeOutStart(s)
          \/ TurnEnd(s) \/ EndLoop(s) \/ LoopExit(s)
          \/ RecoverIdleGap(s) \/ RecoverNothing(s) \/ SwitchModel(s) \/ Abort(s)
    BY <1>1
  <2>2. CASE \E lane \in Lanes : Arrive(s, lane)
    BY <2>2, ArriveOK DEF Shape
  <2>3. CASE HandlerStep(s)
    <3>1. CASE Deliver(s) \/ Defer(s) \/ SwapModel(s)
      BY <3>1, DeliverOK, DeferOK, SwapModelOK DEF Shape
    <3>2. CASE RestartInPlace(s)
      BY <3>2, RestartStep DEF Shape
    <3>3. CASE TakeBack(s)
      BY <3>3, TakeBackStep DEF Shape
    <3>4. CASE JoinStart(s)
      BY <3>4, JoinStartOK DEF Shape
    <3>5. CASE ColdStart(s) \/ ReplaceDone(s)
      BY <3>5, StartStep DEF Shape
    <3> QED BY <2>3, <3>1, <3>2, <3>3, <3>4, <3>5 DEF HandlerStep
  <2>4. CASE \E c \in Callers : CallStep(s, c)
    <3>1. PICK c \in Callers : CallStep(s, c)
      BY <2>4
    <3>2. CASE Launch(s, c)
      BY <3>2, LaunchOK DEF Shape
    <3>3. CASE BuildFail(s, c)
      BY <3>3, BuildFailOK DEF Shape
    <3>4. CASE LaunchNothing(s, c) \/ BuildOk(s, c) \/ Report(s, c)
      BY <3>4, EndOfStart DEF Shape
    <3> QED BY <3>1, <3>2, <3>3, <3>4 DEF CallStep
  <2>5. CASE TimeOutStart(s)
    BY <2>5, TimeOutStartOK DEF Shape
  <2>6. CASE TurnEnd(s) \/ EndLoop(s)
    BY <2>6, TurnStep DEF Shape
  <2>7. CASE Unload(s) \/ Abort(s)
    BY <2>7, ReleaseStep DEF Unload, Abort, Shape
  <2>8. CASE LeaveMap(s)
    BY <2>8, LeaveMapOK DEF Shape
  <2>9. CASE GiveUp(s)
    BY <2>9, GiveUpOK DEF Shape
  <2>10. CASE Resume(s)
    BY <2>10, TakeBackStep DEF Shape
  <2>11. CASE RecoverIdleGap(s) \/ SwitchModel(s)
    BY <2>11, RestartStep DEF Shape
  <2>12. CASE RecoverNothing(s)
    BY <2>12, RecoverNothingOK DEF Shape
  <2> QED BY <2>1, <2>2, <2>3, <2>4, <2>5, <2>6, <2>7, <2>8, <2>9, <2>10, <2>11, <2>12 DEF LoopExit
<1>2. CASE \E gone \in SUBSET Sessions : Reclaim(gone)
  BY <1>2, ReleaseStep DEF Reclaim, Shape
<1> QED BY <1>1, <1>2 DEF Next

LEMMA PoolInvInit == Init => PoolInv
<1>1. SUFFICES ASSUME Init PROVE PoolInv
  OBVIOUS
<1>2. pool \in Pools /\ pool.waiting = {} /\ pool.ahead = {} /\ pool.urgent = {}
  BY <1>1 DEF Init, Pools, Stages
<1>3. handler \in [Sessions -> [at : Steps, lane : Lanes, saw : Readings]]
      /\ \A s \in Sessions : handler[s].saw = "absent"
  BY <1>1 DEF Init, Idle, Steps, Lanes, Readings
<1>4. call \in [Sessions -> [Callers -> CallStages]]
  BY <1>1 DEF Init, CallStages
<1>5. TypeOK
  BY <1>1, <1>2, <1>3, <1>4 DEF Init, TypeOK
<1>6. QueueOrder(pool) /\ QueuedOK /\ ReadingsOK
  BY <1>2, <1>3 DEF QueueOrder, QueuedOK, ReadingsOK
<1> QED BY <1>5, <1>6 DEF PoolInv

LEMMA PoolInvStutter == PoolInv /\ UNCHANGED vars => PoolInv'
BY DEF PoolInv, TypeOK, QueueOrder, QueuedOK, ReadingsOK, vars

\* The strengthened invariant of the pool holds in every reachable state.
THEOREM PoolInvHolds == Spec => []PoolInv
<1>1. PoolInv /\ [Next]_vars => PoolInv'
  BY StepShape, PoolInvStutter
<1> QED BY PoolInvInit, <1>1, PTL DEF Spec

\* Type correctness; in particular no observer's start ever waits in the queue
\* (startStreamingSession drops it instead).
THEOREM PoolTypeCorrect == Spec => []TypeOK
<1>1. PoolInv => TypeOK
  BY DEF PoolInv
<1> QED BY PoolInvHolds, <1>1, PTL

-----------------------------------------------------------------------------
(* The order of service.                                                   *)

\* A drain never passes over a start that it should have looked at first.
LEMMA PassedOver ==
    ASSUME NEW p, PoolOK(p), NEW s \in Grants(p), NEW t \in p.waiting \ Grants(p)
    PROVE  ~DrainsBefore(p, t, s)
BY GrantedInOrder

LEMMA ServedInOrderStep ==
    ASSUME PoolInv, Shape, NEW s \in Sessions, NEW t \in Sessions,
           Drained(s), t \in pool.waiting, t \in pool'.waiting
    PROVE  /\ t \in pool.urgent => s \in pool.urgent
           /\ (s \in pool.urgent) = (t \in pool.urgent) => <<t, s>> \notin pool.ahead
<1>1. s \in pool.waiting /\ s \notin pool'.waiting /\ handler'[s] = handler[s]
      /\ s \in Holders(pool') /\ s \notin Holders(pool)
  BY DEF Drained, TakesSlot
<1>2. CASE Keeps \/ TakesBack \/ Launches \/ LetsGo
  BY <1>1, <1>2 DEF Keeps, TakesBack, Launches, LetsGo, SameQueue
<1>3. ASSUME NEW p, Shrunk(p), s \notin Drain(p).waiting, t \in Drain(p).waiting
      PROVE  /\ t \in pool.urgent => s \in pool.urgent
             /\ (s \in pool.urgent) = (t \in pool.urgent) => <<t, s>> \notin pool.ahead
  <2>1. PoolOK(p) /\ SameQueue(pool, p) /\ Drain(p).waiting = p.waiting \ Grants(p)
    BY <1>3, DrainOK DEF Shrunk
  <2>2. s \in Grants(p) /\ t \in p.waiting \ Grants(p)
    BY <1>1, <1>3, <2>1 DEF SameQueue
  <2>3. ~DrainsBefore(p, t, s)
    BY <2>1, <2>2, PassedOver
  <2> QED BY <2>1, <2>3 DEF DrainsBefore, SameQueue
<1>4. CASE Drains
  BY <1>1, <1>3, <1>4 DEF Drains
<1>5. CASE Promotes
  <2>1. PICK u \in pool.waiting : handler'[u] # handler[u] /\ pool' = Drain(Front(pool, u))
    BY <1>5 DEF Promotes
  <2> DEFINE f == Front(pool, u)
  <2>2. /\ PoolOK(f) /\ f.waiting = pool.waiting /\ f.urgent = pool.urgent \cup {u}
        /\ \A x, y \in pool.waiting : x # u /\ y # u => (<<x, y>> \in f.ahead <=> <<x, y>> \in pool.ahead)
        /\ \A x \in pool.waiting : <<x, u>> \notin f.ahead
    BY PoolInvFacts, FrontOK
  <2>3. pool' = Drain(f)
    BY <2>1
  <2> HIDE DEF f
  <2>4. s \in Grants(f) /\ t \in f.waiting \ Grants(f)
    BY <1>1, <2>2, <2>3, DrainOK
  <2>5. ~DrainsBefore(f, t, s) /\ s # u /\ s # t
    BY <1>1, <2>1, <2>2, <2>4, PassedOver
  <2>6. DrainsBefore(f, t, s) \/ DrainsBefore(f, s, t)
    BY <1>1, <2>2, <2>5, DrainOrder
  <2>7. t # u
    BY <1>1, <2>2, <2>5, <2>6 DEF DrainsBefore
  <2> QED BY <1>1, <2>2, <2>5, <2>7 DEF DrainsBefore
<1>6. CASE Starts
  <2>0. PICK u \in Sessions : \E p, q : StartsFrom(p, q, u)
    BY <1>6 DEF Starts
  <2>1. PICK p, q : StartsFrom(p, q, u)
    BY <2>0
  <2>2. /\ SameQueue(p, q) /\ handler'[u] # handler[u]
        /\ pool'.waiting = q.waiting \/ (pool'.waiting = q.waiting \cup {u} /\ u \notin pool.waiting)
    BY <2>1 DEF StartsFrom, SameQueue
  <2>3. s \notin p.waiting /\ t \in p.waiting
    BY <1>1, <2>2 DEF SameQueue
  <2>4. PICK r : Shrunk(r) /\ p = Drain(r)
    BY <1>1, <2>1, <2>3 DEF StartsFrom
  <2> QED BY <1>3, <2>3, <2>4
<1> QED BY <1>2, <1>4, <1>5, <1>6 DEF Shape

\* The queue never serves a background start while it leaves an interactive
\* one waiting, and serves each lane in the order of arrival, a promoted start
\* first (drainPendingStarts), in every pool and whatever clashes.
THEOREM QueueServesInOrder == Spec => ServedInOrder
<1>1. PoolInv /\ [Next]_vars =>
        [\A s, t \in Sessions :
          Drained(s) /\ t \in pool.waiting /\ t \in pool'.waiting =>
              /\ t \in pool.urgent => s \in pool.urgent
              /\ (s \in pool.urgent) = (t \in pool.urgent) => <<t, s>> \notin pool.ahead]_vars
  BY StepShape, ServedInOrderStep
<1> QED BY PoolInvHolds, <1>1, PTL DEF Spec, ServedInOrder

-----------------------------------------------------------------------------
(* The reserved slots.                                                     *)

\* Fewer names hold no more slots.
LEMMA FewerHolders ==
    ASSUME NEW H \in SUBSET Sessions, NEW K, K \subseteq H, NEW n \in Int, Cardinality(H) <= n
    PROVE  Cardinality(K) <= n
<1>1. Cardinality(H) \in Nat /\ Cardinality(K) \in Nat /\ Cardinality(K) <= Cardinality(H)
  BY Sizes
<1> QED BY <1>1

LEMMA LeavesRoomStep ==
    ASSUME PoolInv, PoolInv', Shape, NEW s \in Sessions, TakesSlot(s), ~BetweenSlots(s),
           \/ Drained(s) /\ s \notin pool.urgent
           \/ s \in StartedNow("background")
    PROVE  Cardinality(Holders(pool') \ StartedNow("interactive")) <= Max - Reserved
<1> DEFINE Room(H) == Cardinality(H) <= Max - Reserved
           Counted == Holders(pool') \ StartedNow("interactive")
<1>1. s \notin Holders(pool) /\ s \in Holders(pool') /\ Max - Reserved \in Int
  BY PoolAssumption DEF TakesSlot
<1>2. Holders(pool') \in SUBSET Sessions
  <2>1. pool' \in Pools
    BY DEF PoolInv, TypeOK
  <2> QED BY <2>1, HolderSets
<1>3. ASSUME NEW H \in SUBSET Sessions, Room(H), Counted \subseteq H
      PROVE  Room(Counted)
  BY <1>1, <1>3, FewerHolders
<1>4. ASSUME NEW p, PoolOK(p), s \in Grants(p), s \notin p.urgent
      PROVE  Room(Holders(Drain(p)))
  BY <1>4, GrantsFit, DrainOK
<1>5. ASSUME NEW p, PoolOK(p)
      PROVE  PoolOK(Drain(p)) /\ Holders(Drain(p)) = Holders(p) \cup Grants(p)
             /\ Drain(p).waiting = p.waiting \ Grants(p)
  BY <1>5, DrainOK
<1>6. CASE Keeps \/ LetsGo
  BY <1>1, <1>6 DEF Keeps, LetsGo
<1>7. CASE TakesBack
  BY <1>1, <1>7 DEF TakesBack
<1>8. CASE Launches
  BY <1>1, <1>8 DEF Launches, OnlyHandler, Drained, StartedNow, SameQueue
<1>9. CASE Drains
  <2>1. PICK p : Shrunk(p) /\ pool' = Drain(p) /\ OnlyHandler({})
    BY <1>9 DEF Drains
  <2>2. s \notin pool.urgent
    BY <1>1, <2>1 DEF OnlyHandler, StartedNow
  <2>3. PoolOK(p) /\ s \in Grants(p) /\ s \notin p.urgent
    BY <1>1, <1>5, <2>1, <2>2 DEF Shrunk, SameQueue
  <2>4. Room(Holders(pool'))
    BY <1>4, <2>1, <2>3
  <2> QED BY <1>2, <1>3, <2>4
<1>10. CASE Promotes
  <2>1. PICK u \in pool.waiting :
          /\ handler[u].lane = "interactive" /\ handler'[u] # handler[u]
          /\ pool' = Drain(Front(pool, u)) /\ OnlyHandler({u})
    BY <1>10 DEF Promotes
  <2> DEFINE f == Front(pool, u)
  <2>2. /\ PoolOK(f) /\ f.waiting = pool.waiting /\ f.urgent = pool.urgent \cup {u}
        /\ Holders(f) = Holders(pool)
    BY PoolInvFacts, FrontOK
  <2>3. s # u /\ s \notin pool.urgent
    BY <1>1, <2>1 DEF OnlyHandler, StartedNow, Drained, Lanes
  <2>4. s \in Grants(f) /\ s \notin f.urgent /\ pool' = Drain(f)
    BY <1>1, <1>5, <2>1, <2>2, <2>3
  <2> HIDE DEF f
  <2>5. Room(Holders(pool'))
    BY <1>4, <2>2, <2>4
  <2> QED BY <1>2, <1>3, <2>5
<1>11. CASE Starts
  <2>0. PICK u \in Sessions : \E p, q : StartsFrom(p, q, u)
    BY <1>11 DEF Starts
  <2>1. PICK p, q : StartsFrom(p, q, u)
    BY <2>0
  <2>2. /\ PoolOK(p) /\ PoolOK(q) /\ SameQueue(p, q) /\ Holders(q) \subseteq Holders(p)
        /\ handler'[u] # handler[u] /\ OnlyHandler({u})
        /\ p = pool \/ (u \in Holders(pool) /\ \E r : Shrunk(r) /\ p = Drain(r))
    BY <2>1 DEF StartsFrom
  <2>3. Holders(q) \in SUBSET Sessions /\ Holders(p) \in SUBSET Sessions
    BY <2>2, HolderSets DEF PoolOK
  <2>4. \/ Holders(pool') = Holders(q)
        \/ u \in q.reserved /\ Holders(pool') = Holders(q) \cup {u}
        \/ /\ HasSlot(Holders(q), handler[u].lane = "interactive")
           /\ Holders(pool') = Holders(q) \cup {u}
    BY <2>1 DEF StartsFrom
  <2>5. u \in q.reserved => u \in Holders(q)
    BY DEF Holders
  <2>6. handler[u].lane \in Lanes
    BY PoolInvFacts DEF Handlers
  <2>7. ASSUME Room(Holders(q)) \/ (s = u /\ u \notin Holders(q)) PROVE Room(Counted)
    <3>1. CASE Holders(pool') \subseteq Holders(q)
      BY <1>1, <1>3, <2>3, <2>7, <3>1
    <3>2. CASE /\ HasSlot(Holders(q), handler[u].lane = "interactive")
               /\ Holders(pool') = Holders(q) \cup {u}
               /\ handler[u].lane = "interactive"
      <4>1. u \in StartedNow("interactive")
        BY <2>2, <3>2 DEF StartedNow
      <4>2. Counted \subseteq Holders(q)
        BY <3>2, <4>1
      <4>3. s # u
        BY <2>2, <3>2 DEF StartedNow, Drained
      <4> QED BY <1>3, <2>3, <2>7, <4>2, <4>3
    <3>3. CASE /\ HasSlot(Holders(q), handler[u].lane = "interactive")
               /\ Holders(pool') = Holders(q) \cup {u}
               /\ handler[u].lane # "interactive"
      <4>1. Room(Holders(q) \cup {u})
        BY <2>3, <3>3, OneMore, PoolAssumption DEF HasSlot
      <4> QED BY <1>3, <2>3, <3>3, <4>1
    <3> QED BY <2>4, <2>5, <3>1, <3>2, <3>3
  <2>8. CASE s = u
    <3>1. p = pool
      BY <1>1, <2>2, <2>8
    <3> QED BY <1>1, <2>2, <2>7, <2>8, <3>1
  <2>9. CASE s # u
    <3>1. s \in Holders(p) /\ s \notin pool.urgent
      BY <1>1, <2>2, <2>4, <2>9 DEF OnlyHandler, StartedNow
    <3>2. PICK r : Shrunk(r) /\ p = Drain(r)
      BY <1>1, <2>2, <3>1
    <3>3. PoolOK(r) /\ s \in Grants(r) /\ s \notin r.urgent
      BY <1>1, <1>5, <3>1, <3>2 DEF Shrunk, SameQueue
    <3>4. Room(Holders(p))
      BY <1>4, <3>2, <3>3
    <3>5. Room(Holders(q))
      BY <1>1, <2>2, <2>3, <3>4, FewerHolders
    <3> QED BY <2>7, <3>5
  <2> QED BY <2>8, <2>9
<1> QED BY <1>6, <1>7, <1>8, <1>9, <1>10, <1>11 DEF Shape

\* A background start that takes a slot, from the queue or at once, leaves the
\* slots reserved to interactive starts free (runtime/CHECKS.md:47), whatever
\* clashes.
THEOREM BackgroundKeepsOut == Spec => BackgroundLeavesRoom
<1>1. PoolInv /\ [Next]_vars =>
        [\A s \in Sessions :
          /\ TakesSlot(s) /\ ~BetweenSlots(s)
          /\ \/ Drained(s) /\ s \notin pool.urgent
             \/ s \in StartedNow("background")
          => Cardinality(Holders(pool') \ StartedNow("interactive")) <= Max - Reserved]_vars
  BY StepShape, LeavesRoomStep
<1> QED BY PoolInvHolds, <1>1, PTL DEF Spec, BackgroundLeavesRoom

-----------------------------------------------------------------------------
(* No start waits beside a slot it could have.                             *)

\* A start that finds no slot finds none among more holders.
LEMMA MoreHolders ==
    ASSUME NEW K \in SUBSET Sessions, NEW H, H \subseteq K, NEW s, NEW U, NEW V,
           ~HasSlot(H, s \in U), s \in V => s \in U
    PROVE  ~HasSlot(K, s \in V)
<1>1. Cardinality(K) \in Nat /\ Cardinality(H) \in Nat /\ Cardinality(H) <= Cardinality(K)
  BY Sizes
<1> QED BY <1>1, PoolAssumption DEF HasSlot

Claims == Holders(pool) \cup Between

LEMMA NoStrandedStep ==
    ASSUME PoolInv, PoolInv', Shape, Observers = {},
           NEW s \in Sessions, Stranded(s)', ~Stranded(s)
    PROVE  \E t \in Sessions : RecoverNothing(t)
<1>0. SUFFICES ASSUME ~LetsGo PROVE ~HasSlot(Claims', s \in pool'.urgent)
  BY DEF LetsGo, Stranded, Claims, Between
<1>1. Observers = {} /\ s \in pool'.waiting
  BY DEF Stranded
<1>2. s \in pool.waiting => ~HasSlot(Claims, s \in pool.urgent)
  BY DEF Stranded, Claims, Between
<1>3. Claims' \in SUBSET Sessions /\ Holders(pool') \subseteq Claims'
      /\ Between' \subseteq Claims' /\ pool'.urgent \subseteq pool'.waiting
  <2>1. pool' \in Pools
    BY DEF PoolInv, TypeOK
  <2>2. pool'.urgent \subseteq pool'.waiting
    BY DEF PoolInv, QueueOrder
  <2> QED BY <2>1, <2>2, HolderSets DEF Claims, Between
<1>4. ASSUME s \in pool.waiting, s \in pool'.urgent => s \in pool.urgent, Claims \subseteq Claims'
      PROVE  ~HasSlot(Claims', s \in pool'.urgent)
  BY <1>2, <1>3, <1>4, MoreHolders
<1>5. ASSUME NEW p, PoolOK(p), s \in Drain(p).waiting, Holders(Drain(p)) \subseteq Claims',
             s \in pool'.urgent => s \in Drain(p).urgent
      PROVE  ~HasSlot(Claims', s \in pool'.urgent)
  <2>1. /\ s \in p.waiting \ Grants(p)
        /\ s \in pool'.urgent => s \in p.urgent
        /\ Holders(p) \cup Grants(p) \subseteq Claims'
    BY <1>5, DrainOK
  <2>2. ~HasSlot(Holders(p) \cup Grants(p), s \in p.urgent)
    BY <1>5, <2>1, GrantsAll
  <2> QED BY <1>3, <2>1, <2>2, MoreHolders
<1>6. CASE Keeps
  BY <1>1, <1>4, <1>6 DEF Keeps, Claims
<1>7. CASE Drains
  <2>1. PICK p : PoolOK(p) /\ pool' = Drain(p)
    BY <1>7 DEF Drains, Shrunk
  <2> QED BY <1>1, <1>3, <1>5, <2>1
<1>8. CASE Promotes
  <2>1. PICK u \in pool.waiting : pool' = Drain(Front(pool, u))
    BY <1>8 DEF Promotes
  <2> DEFINE f == Front(pool, u)
  <2>2. PoolOK(f)
    BY PoolInvFacts, FrontOK
  <2> QED BY <1>1, <1>3, <1>5, <2>1, <2>2
<1>9. CASE TakesBack
  BY <1>1, <1>4, <1>9 DEF TakesBack, SameQueue, Claims
<1>10. CASE Launches
  BY <1>1, <1>4, <1>10 DEF Launches, SameQueue, Claims
<1>11. CASE Starts
  <2>0. PICK u \in Sessions : \E p, q : StartsFrom(p, q, u)
    BY <1>11 DEF Starts
  <2>1. PICK p, q : StartsFrom(p, q, u)
    BY <2>0
  <2>2. /\ PoolOK(p) /\ q = p /\ Between \subseteq Between'
        /\ p = pool \/ \E r : Shrunk(r) /\ p = Drain(r)
        /\ Holders(p) \subseteq Holders(pool')
    BY <1>1, <2>1 DEF StartsFrom
  <2>3. ASSUME s \in p.waiting, s \in pool'.urgent => s \in p.urgent
        PROVE  ~HasSlot(Claims', s \in pool'.urgent)
    <3>1. CASE p = pool
      BY <1>4, <2>2, <2>3, <3>1 DEF Claims
    <3>2. CASE \E r : Shrunk(r) /\ p = Drain(r)
      <4>1. PICK r : PoolOK(r) /\ p = Drain(r)
        BY <3>2 DEF Shrunk
      <4>2. Holders(p) \subseteq Claims'
        BY <1>3, <2>2
      <4> QED BY <1>5, <2>3, <4>1, <4>2
    <3> QED BY <2>2, <3>1, <3>2
  <2>4. CASE SameQueue(p, pool')
    BY <1>1, <2>3, <2>4 DEF SameQueue
  <2>5. CASE /\ ~HasSlot(Holders(p), handler[u].lane = "interactive")
             /\ pool'.waiting = p.waiting \cup {u}
             /\ pool'.urgent = IF handler[u].lane = "interactive" THEN p.urgent \cup {u} ELSE p.urgent
    <3>1. CASE s \in p.waiting /\ (s = u => s \in p.urgent \/ handler[u].lane # "interactive")
      BY <2>3, <2>5, <3>1
    <3>2. CASE s = u /\ ~(s \in p.waiting /\ (s = u => s \in p.urgent \/ handler[u].lane # "interactive"))
      <4>1. s \in pool'.urgent => handler[u].lane = "interactive"
        BY <2>2, <2>5, <3>2 DEF PoolOK, QueueOrder
      <4>2. Cardinality(Claims') \in Nat /\ Cardinality(Holders(p)) \in Nat
            /\ Cardinality(Holders(p)) <= Cardinality(Claims')
        BY <1>3, <2>2, Sizes
      <4> QED BY <2>5, <4>1, <4>2, PoolAssumption DEF HasSlot
    <3> QED BY <1>1, <2>5, <3>1, <3>2
  <2>6. CASE u \in Observers
    BY <1>1, <2>6
  <2> QED BY <2>1, <2>2, <2>4, <2>5, <2>6 DEF StartsFrom
<1> QED BY <1>0, <1>6, <1>7, <1>8, <1>9, <1>10, <1>11 DEF Shape

\* In a pool without observers, every step that lets go of a slot drains the
\* queue or comes from a restart that will take the slot back: no step strands
\* a start beside a slot it could have, whatever clashes, but for an idle-gap
\* recovery that finds nothing to restart.
THEOREM NoStartIsStranded == Spec => NoStrandedStart
<1>1. PoolInv /\ [Next]_vars =>
        [Observers = {} =>
          \A s \in Sessions :
              Stranded(s)' => Stranded(s) \/ \E t \in Sessions : RecoverNothing(t)]_vars
  BY StepShape, NoStrandedStep
<1> QED BY PoolInvHolds, <1>1, PTL DEF Spec, NoStrandedStart

-----------------------------------------------------------------------------
(* The marks, the reservations and the start calls.                        *)

InProgress == {"queued", "granted", "building", "failed"}
Some(s, stages) == \E c \in Callers : call[s][c] \in stages

\* One start call of a session at most is in progress, and it accounts for the
\* marks and for the reservation of the session.
Accounted(s) ==
    /\ \A c, d \in Callers : call[s][c] \in InProgress /\ call[s][d] \in InProgress => c = d
    /\ s \in pendingStartSessions <=> Some(s, {"queued", "granted"})
    /\ s \in startingSessions <=> Some(s, {"building", "failed"})
    /\ s \in pool.reserved <=> s \notin pool.waiting /\ Some(s, InProgress)

CallsOK == clashes = {} => \A s \in Sessions : Accounted(s)

\* The queue and the reservations of every session but s change at most by a
\* drain that grants G.
DrainedBut(s, p, G) ==
    /\ G \subseteq pool.waiting
    /\ \A t \in Sessions \ {s} :
          /\ t \in p.reserved <=> t \in pool.reserved \cup G
          /\ t \in p.waiting <=> t \in pool.waiting \ G

\* Granting what waits, in a session whose calls and marks stay as they are,
\* changes nothing of what is accounted for.
LEMMA GrantedAccounted ==
    ASSUME PoolInv, NEW t \in Sessions, Accounted(t), NEW G, G \subseteq pool.waiting,
           \A d \in Callers : \/ call'[t][d] = call[t][d]
                              \/ {call[t][d], call'[t][d]} \subseteq {"none", "freed"}
                              \/ {call[t][d], call'[t][d]} \subseteq {"building", "failed"},
           t \in pendingStartSessions' <=> t \in pendingStartSessions,
           t \in startingSessions' <=> t \in startingSessions,
           t \in pool'.reserved <=> t \in pool.reserved \cup G,
           t \in pool'.waiting <=> t \in pool.waiting \ G
    PROVE  Accounted(t)'
<1>1. "prompt" \in Callers /\ (t \in pool.waiting => call[t]["prompt"] = "queued")
  BY PoolAssumption DEF PoolInv, QueuedOK
<1>2. \A d \in Callers :
        /\ call'[t][d] \in {"queued", "granted"} <=> call[t][d] \in {"queued", "granted"}
        /\ call'[t][d] \in {"building", "failed"} <=> call[t][d] \in {"building", "failed"}
        /\ call'[t][d] \in InProgress <=> call[t][d] \in InProgress
  BY DEF InProgress
<1>3. /\ Some(t, {"queued", "granted"})' <=> Some(t, {"queued", "granted"})
      /\ Some(t, {"building", "failed"})' <=> Some(t, {"building", "failed"})
      /\ Some(t, InProgress)' <=> Some(t, InProgress)
  BY <1>2 DEF Some
<1>4. t \in pool.waiting => Some(t, InProgress)
  BY <1>1 DEF Some, InProgress
<1> QED BY <1>2, <1>3, <1>4 DEF Accounted

\* A step of a call of s, or of no call, accounts for the other sessions.
LEMMA OthersAccounted ==
    ASSUME PoolInv, \A t \in Sessions : Accounted(t), NEW s, NEW G, DrainedBut(s, pool', G),
           \A t \in Sessions \ {s} :
              /\ \A d \in Callers : call'[t][d] = call[t][d]
              /\ t \in pendingStartSessions' <=> t \in pendingStartSessions
              /\ t \in startingSessions' <=> t \in startingSessions
    PROVE  \A t \in Sessions \ {s} : Accounted(t)'
BY GrantedAccounted DEF DrainedBut

\* A drain, after entries of the map have changed, or no change at all.
LEMMA DrainedReserved ==
    ASSUME PoolInv, NEW r, PoolOK(r), SameQueue(pool, r), NEW p, p = r \/ p = Drain(r)
    PROVE  \E G \in SUBSET pool.waiting :
              /\ p.reserved = r.reserved \cup G
              /\ p.waiting = pool.waiting \ G
<1>1. CASE p = r
  <2>1. {} \in SUBSET pool.waiting /\ p.reserved = r.reserved \cup {} /\ p.waiting = pool.waiting \ {}
    BY <1>1 DEF SameQueue
  <2> QED BY <2>1
<1>2. CASE p = Drain(r)
  <2>1. p.reserved = r.reserved \cup Grants(r) /\ p.waiting = r.waiting \ Grants(r)
        /\ Grants(r) \in SUBSET r.waiting
    BY <1>2, DrainOK, GrantSets
  <2> QED BY <2>1 DEF SameQueue
<1> QED BY <1>1, <1>2

\* No call begins or ends.
LEMMA AccountedQuiet ==
    ASSUME PoolInv, CallsOK, clashes = {}, NEW G \in SUBSET pool.waiting,
           pool'.reserved = pool.reserved \cup G, pool'.waiting = pool.waiting \ G,
           \A t \in Sessions, d \in Callers :
                 \/ call'[t][d] = call[t][d]
                 \/ {call[t][d], call'[t][d]} \subseteq {"none", "freed"}
                 \/ {call[t][d], call'[t][d]} \subseteq {"building", "failed"},
           UNCHANGED marks
    PROVE  CallsOK'
<1>1. \A t \in Sessions : Accounted(t)'
  BY GrantedAccounted DEF CallsOK, marks
<1> QED BY <1>1 DEF CallsOK

\* A call begins where none was in progress, or else the starts overlap.
LEMMA AccountedBegin ==
    ASSUME PoolInv, CallsOK, NEW s \in Sessions, NEW c \in Callers,
           NEW stage \in {"queued", "granted"},
           call[s][c] \in {"none", "freed"}, Begin(s, c, stage),
           \A t \in Sessions, d \in Callers :
                 call'[t][d] = IF t = s /\ d = c THEN stage ELSE call[t][d],
           NEW kinds, Clash(kinds), Overlap(s, c) \subseteq kinds,
           NEW G, DrainedBut(s, pool', G),
           IF stage = "queued"
           THEN s \in pool'.waiting /\ (s \in pool'.reserved => s \in pool.reserved)
           ELSE s \in pool'.reserved /\ (s \in pool'.waiting => s \in pool.waiting)
    PROVE  CallsOK'
<1>1. SUFFICES ASSUME clashes' = {} PROVE \A t \in Sessions : Accounted(t)'
  BY DEF CallsOK
<1>2. clashes = {} /\ Overlap(s, c) = {}
  BY <1>1 DEF Clash
<1>3. \A d \in Callers : call[s][d] \in {"none", "freed"}
  BY <1>2 DEF Overlap, When
<1>4. "prompt" \in Callers /\ \A t \in Sessions : Accounted(t)
  BY <1>2, PoolAssumption DEF CallsOK
<1>5. /\ s \notin pendingStartSessions /\ s \notin startingSessions
      /\ s \notin pool.reserved /\ s \notin pool.waiting
  BY <1>3, <1>4 DEF Accounted, Some, InProgress, PoolInv, QueuedOK
<1>6. pendingStartSessions' = pendingStartSessions \cup {s} /\ startingSessions' = startingSessions
  BY DEF Begin
<1>7. \A t \in Sessions \ {s} : Accounted(t)'
  BY <1>4, <1>6, OthersAccounted
<1>8. Accounted(s)'
  <2>1. \A d \in Callers : call'[s][d] = IF d = c THEN stage ELSE call[s][d]
    OBVIOUS
  <2>2. \A d \in Callers : d # c => call'[s][d] \in {"none", "freed"}
    BY <1>3, <2>1
  <2>3. call'[s][c] = stage
    BY <2>1
  <2>4. /\ Some(s, {"queued", "granted"})' /\ ~Some(s, {"building", "failed"})'
        /\ Some(s, InProgress)'
    BY <2>2, <2>3 DEF Some, InProgress
  <2>5. \A d \in Callers : call'[s][d] \in InProgress => d = c
    BY <2>2 DEF InProgress
  <2>6. s \in pool'.reserved <=> s \notin pool'.waiting
    BY <1>5
  <2> QED BY <1>5, <1>6, <2>4, <2>5, <2>6 DEF Accounted
<1> QED BY <1>7, <1>8

\* A call in progress ends.
LEMMA AccountedEnd ==
    ASSUME PoolInv, CallsOK, clashes = {}, NEW s \in Sessions, NEW c \in Callers,
           call[s][c] \in InProgress,
           \A t \in Sessions, d \in Callers :
                 call'[t][d] = IF t = s /\ d = c THEN "none" ELSE call[t][d],
           pendingStartSessions' = pendingStartSessions \ {s},
           startingSessions' = startingSessions \ {s},
           NEW G, DrainedBut(s, pool', G), s \notin pool'.waiting, s \notin pool'.reserved
    PROVE  CallsOK'
<1>1. \A t \in Sessions : Accounted(t)
  BY DEF CallsOK
<1>2. \A t \in Sessions \ {s} : Accounted(t)'
  BY <1>1, OthersAccounted
<1>3. \A d \in Callers : call'[s][d] \notin InProgress
  BY <1>1 DEF Accounted, InProgress
<1>4. ~Some(s, {"queued", "granted"})' /\ ~Some(s, {"building", "failed"})' /\ ~Some(s, InProgress)'
  BY <1>3 DEF Some, InProgress
<1>5. Accounted(s)'
  BY <1>3, <1>4 DEF Accounted
<1> QED BY <1>2, <1>5 DEF CallsOK

\* A step that begins or ends no call: from pool r, perhaps drained.
LEMMA QuietAccounted ==
    ASSUME PoolInv, CallsOK, clashes' = {} => clashes = {},
           NEW r, PoolOK(r), SameQueue(pool, r), r.reserved = pool.reserved,
           NEW p, p = r \/ p = Drain(r), NEW h, Update(p, h), UNCHANGED marks,
           \A t \in Sessions, d \in Callers :
                 \/ call'[t][d] = call[t][d]
                 \/ {call[t][d], call'[t][d]} \subseteq {"none", "freed"}
                 \/ {call[t][d], call'[t][d]} \subseteq {"building", "failed"}
    PROVE  CallsOK'
<1>1. SUFFICES ASSUME clashes = {} PROVE CallsOK'
  BY DEF CallsOK
<1>2. pool' = p
  BY DEF Update
<1>3. PICK G \in SUBSET pool.waiting :
         p.reserved = r.reserved \cup G /\ p.waiting = pool.waiting \ G
  BY DrainedReserved
<1> QED BY <1>1, <1>2, <1>3, AccountedQuiet

LEMMA QuietSteps ==
    ASSUME PoolInv, CallsOK, NEW s \in Sessions,
           \/ \E lane \in Lanes : Arrive(s, lane)
           \/ Deliver(s) \/ SwapModel(s) \/ JoinStart(s) \/ Defer(s)
           \/ TurnEnd(s) \/ EndLoop(s) \/ RecoverNothing(s) \/ Unload(s) \/ Abort(s)
           \/ \E gone \in SUBSET Sessions : Reclaim(gone)
    PROVE  CallsOK'
<1>1. UNCHANGED <<call, marks, clashes>>
  BY DEF Arrive, Deliver, SwapModel, JoinStart, Defer, TurnEnd, EndLoop, RecoverNothing, Unload, Abort,
         Reclaim
<1>2. PoolOK(pool) /\ SameQueue(pool, pool)
  BY PoolInvFacts DEF SameQueue
<1>3. ASSUME NEW r, PoolOK(r), SameQueue(pool, r), r.reserved = pool.reserved,
             NEW p, p = r \/ p = Drain(r), NEW h, Update(p, h)
      PROVE  CallsOK'
  <2>1. UNCHANGED marks /\ (clashes' = {} => clashes = {})
        /\ \A t \in Sessions, d \in Callers : call'[t][d] = call[t][d]
    BY <1>1
  <2> QED BY <1>3, <2>1, QuietAccounted
<1>4. ASSUME NEW gone, NEW h, Update(Evict(pool, gone), h) \/ Update(Drain(Evict(pool, gone)), h)
      PROVE  CallsOK'
  <2> DEFINE r == Evict(pool, gone)
  <2>1. PoolOK(r) /\ SameQueue(pool, r) /\ r.reserved = pool.reserved
    BY PoolInvFacts, EvictOK
  <2>2. Update(r, h) \/ Update(Drain(r), h)
    BY <1>4
  <2> HIDE DEF r
  <2> QED BY <1>3, <2>1, <2>2
<1>5. ASSUME NEW stage \in Stages \ {"none"}, NEW h, NEW r, r = Enter(pool, s, stage), Update(r, h)
      PROVE  CallsOK'
  <2>1. PoolOK(Enter(pool, s, stage)) /\ SameQueue(pool, Enter(pool, s, stage))
        /\ Enter(pool, s, stage).reserved = pool.reserved
    BY <1>2, EntryOK
  <2> QED BY <1>3, <1>5, <2>1
<1>6. ASSUME NEW h, pool.streaming[s] \in Live, Update(Delivered(pool, s), h)
      PROVE  CallsOK'
  <2> DEFINE stage == IF pool.streaming[s] = "idle" THEN "busy" ELSE pool.streaming[s]
             r == Delivered(pool, s)
  <2>1. stage \in Stages \ {"none"}
    BY <1>6, PoolAssumption DEF Live, Stages
  <2>2. r = Enter(pool, s, stage)
    BY PoolInvFacts DEF Delivered, Enter
  <2>3. Update(r, h)
    BY <1>6
  <2> HIDE DEF r, stage
  <2> QED BY <1>5, <2>1, <2>2, <2>3
<1>7. CASE \E h : Update(pool, h)
  BY <1>2, <1>3, <1>7
<1>8. CASE \E lane \in Lanes : Arrive(s, lane)
  BY <1>6, <1>7, <1>8 DEF Arrive
<1>9. CASE Deliver(s)
  BY <1>6, <1>9 DEF Deliver, Found
<1>10. CASE Defer(s)
  BY <1>7, <1>10 DEF Defer
<1>11. CASE \/ SwapModel(s) \/ RecoverNothing(s) \/ Unload(s) \/ Abort(s)
            \/ \E gone \in SUBSET Sessions : Reclaim(gone)
  BY <1>4, <1>11 DEF SwapModel, RecoverNothing, Unload, Abort, Reclaim
<1>12. CASE TurnEnd(s) \/ EndLoop(s)
  <2>1. PICK stage \in {"idle", "done"} : Update([pool EXCEPT !.streaming[s] = stage], handler)
    BY <1>12 DEF TurnEnd, EndLoop
  <2>2. Update(Enter(pool, s, stage), handler) /\ stage \in Stages \ {"none"}
    BY <2>1 DEF Enter, Stages
  <2> QED BY <1>5, <2>2
<1>13. CASE JoinStart(s)
  <2>1. CASE \E h : Update(pool, h)
    BY <1>7, <2>1
  <2>2. CASE \E h : Update(Promote(pool, s), h) /\ s \in pool.waiting
    <3>1. PICK h : Update(Promote(pool, s), h)
      BY <2>2
    <3> DEFINE f == Front(pool, s)
               p == Promote(pool, s)
    <3>2. PoolOK(f) /\ f.reserved = pool.reserved /\ f.waiting = pool.waiting /\ p = Drain(f)
      BY <2>2, PoolInvFacts, FrontOK
    <3> HIDE DEF f
    <3>3. Grants(f) \in SUBSET pool.waiting /\ p.reserved = pool.reserved \cup Grants(f)
          /\ p.waiting = pool.waiting \ Grants(f)
      BY <3>2, DrainOK, GrantSets
    <3>4. pool' = p
      BY <3>1 DEF Update
    <3> HIDE DEF p
    <3>5. SUFFICES ASSUME clashes = {} PROVE CallsOK'
      BY <1>1 DEF CallsOK
    <3>6. \A t \in Sessions, d \in Callers : call'[t][d] = call[t][d]
      BY <1>1
    <3>7. UNCHANGED marks
      BY <1>1
    <3> QED BY <3>3, <3>4, <3>5, <3>6, <3>7, AccountedQuiet
  <2> QED BY <1>13, <2>1, <2>2 DEF JoinStart, Promote
<1> QED BY <1>8, <1>9, <1>10, <1>11, <1>12, <1>13

\* A call is between its slots, or fails.
LEMMA StillAccounted ==
    ASSUME PoolInv, CallsOK, NEW s \in Sessions,
           LeaveMap(s) \/ GiveUp(s) \/ \E c \in Callers : BuildFail(s, c)
    PROVE  CallsOK'
<1> DEFINE r == Evict(pool, {s})
<1>1. PoolOK(pool) /\ SameQueue(pool, pool)
  BY PoolInvFacts DEF SameQueue
<1>2. PoolOK(r) /\ SameQueue(pool, r) /\ r.reserved = pool.reserved
  BY <1>1, EvictOK
<1>3. call \in [Sessions -> [Callers -> CallStages]]
  BY DEF PoolInv, TypeOK
<1>4. CASE LeaveMap(s)
  <2>1. /\ Update(r, handler) /\ UNCHANGED marks /\ clashes' = clashes
        /\ At(s, "restart", "freed") /\ call[s]["restart"] = "none"
    BY <1>4 DEF LeaveMap
  <2>2. \A t \in Sessions, d \in Callers : call'[t][d] = call[t][d]
          \/ {call[t][d], call'[t][d]} \subseteq {"none", "freed"}
    BY <1>3, <2>1 DEF At
  <2> HIDE DEF r
  <2> QED BY <1>2, <2>1, <2>2, QuietAccounted
<1>5. CASE GiveUp(s)
  <2>1. /\ Update(Drain(pool), handler) /\ UNCHANGED marks /\ clashes' = clashes
        /\ At(s, "restart", "none") /\ call[s]["restart"] = "freed"
    BY <1>5 DEF GiveUp
  <2>2. \A t \in Sessions, d \in Callers : call'[t][d] = call[t][d]
          \/ {call[t][d], call'[t][d]} \subseteq {"none", "freed"}
    BY <1>3, <2>1 DEF At
  <2> QED BY <1>1, <2>1, <2>2, QuietAccounted
<1>6. CASE \E c \in Callers : BuildFail(s, c)
  <2>0. PICK c \in Callers : BuildFail(s, c)
    BY <1>6
  <2>1. /\ Update(Drain(r), handler) /\ UNCHANGED marks /\ (clashes' = {} => clashes = {})
        /\ At(s, c, "failed") /\ call[s][c] = "building"
    BY <2>0 DEF BuildFail, Clash
  <2>2. \A t \in Sessions, d \in Callers : call'[t][d] = call[t][d]
          \/ {call[t][d], call'[t][d]} \subseteq {"building", "failed"}
    BY <1>3, <2>1 DEF At
  <2> HIDE DEF r
  <2> QED BY <1>2, <2>1, <2>2, QuietAccounted
<1> QED BY <1>4, <1>5, <1>6

\* A restart keeps its slot, or takes it back.
LEMMA RestartAccounted ==
    ASSUME PoolInv, CallsOK, NEW s \in Sessions,
           \/ RestartInPlace(s) \/ RecoverIdleGap(s) \/ SwitchModel(s)
           \/ TakeBack(s) \/ Resume(s)
    PROVE  CallsOK'
<1>1. ASSUME NEW c, NEW h, NEW e \in {pool, Evict(pool, {s})}, Update(Retain(e, s), h),
             Begin(s, c, "granted"), Clash(Overlap(s, c))
      PROVE  CallsOK'
  <2> DEFINE p == Retain(e, s)
  <2>1. PoolOK(e) /\ SameQueue(pool, e) /\ e.reserved = pool.reserved
    BY PoolInvFacts, EvictOK DEF SameQueue
  <2>2. SameQueue(e, p) /\ p.reserved = e.reserved \cup {s}
    BY <2>1, RetainOK
  <2>3. pool' = p
    BY <1>1 DEF Update
  <2> HIDE DEF p
  <2>4. pool'.reserved = pool.reserved \cup {s} /\ pool'.waiting = pool.waiting
    BY <2>1, <2>2, <2>3 DEF SameQueue
  <2>5. DrainedBut(s, pool', {})
    BY <2>4 DEF DrainedBut
  <2>6. c \in Callers /\ call[s][c] \in {"none", "freed"}
        /\ \A t \in Sessions, d \in Callers :
              call'[t][d] = IF t = s /\ d = c THEN "granted" ELSE call[t][d]
    BY <1>1 DEF Begin, At, PoolInv, TypeOK
  <2> QED BY <1>1, <2>4, <2>5, <2>6, AccountedBegin
<1>2. CASE RestartInPlace(s)
  BY <1>1, <1>2 DEF RestartInPlace
<1>3. CASE RecoverIdleGap(s) \/ SwitchModel(s)
  BY <1>1, <1>3 DEF RecoverIdleGap, SwitchModel
<1>4. CASE TakeBack(s) \/ Resume(s)
  BY <1>1, <1>4 DEF TakeBack, Resume
<1> QED BY <1>2, <1>3, <1>4

LEMMA StartFromAccounted ==
    ASSUME PoolInv, CallsOK, NEW s \in Sessions,
           NEW r, PoolOK(r), SameQueue(pool, r), r.reserved = pool.reserved,
           NEW p, p = r \/ p = Drain(r), PoolOK(p),
           NEW lane, NEW lost, StartFrom(p, s, lane, lost)
    PROVE  CallsOK'
<1> DEFINE q == Reclaimed(p, s, lane)
           slot == HasSlot(Holders(q), lane = "interactive")
           fits == s \in q.reserved \/ slot
<1>1. PICK G \in SUBSET pool.waiting :
         p.reserved = r.reserved \cup G /\ p.waiting = pool.waiting \ G
  BY DrainedReserved
<1>2. PoolOK(q) /\ SameQueue(p, q) /\ q.reserved = p.reserved
  BY ReclaimedOK
<1>3. \/ fits /\ Update(Retain(q, s), Freed(s)) /\ Begin(s, "prompt", "granted")
         /\ Clash(lost \cup Overlap(s, "prompt"))
      \/ ~fits /\ ~Throttled(s)
         /\ Update(Enqueue(q, s, lane), Freed(s)) /\ Begin(s, "prompt", "queued")
         /\ Clash(lost \cup Overlap(s, "prompt"))
      \/ ~fits /\ Throttled(s) /\ Update(q, Freed(s))
         /\ pendingStartSessions' = pendingStartSessions \ {s}
         /\ startingSessions' = startingSessions \ {s}
         /\ Clash(lost) /\ UNCHANGED call
  BY DEF StartFrom
<1> HIDE DEF q, slot
<1>4. q.reserved = pool.reserved \cup G /\ q.waiting = pool.waiting \ G
  BY <1>1, <1>2 DEF SameQueue
<1>5. ASSUME Begin(s, "prompt", "granted") \/ Begin(s, "prompt", "queued")
      PROVE  "prompt" \in Callers /\ call[s]["prompt"] \in {"none", "freed"}
             /\ s \notin pool.waiting
  BY <1>5 DEF Begin, PoolInv, QueuedOK
<1>6. CASE fits /\ Update(Retain(q, s), Freed(s)) /\ Begin(s, "prompt", "granted")
           /\ Clash(lost \cup Overlap(s, "prompt"))
  <2> DEFINE x == Retain(q, s)
  <2>1. SameQueue(q, x) /\ x.reserved = q.reserved \cup {s}
    BY <1>2, RetainOK
  <2>2. pool' = x
    BY <1>6 DEF Update
  <2> HIDE DEF x
  <2>3. pool'.reserved = pool.reserved \cup G \cup {s} /\ pool'.waiting = pool.waiting \ G
    BY <1>4, <2>1, <2>2 DEF SameQueue
  <2>4. DrainedBut(s, pool', G)
    BY <2>3 DEF DrainedBut
  <2>5. \A t \in Sessions, d \in Callers :
            call'[t][d] = IF t = s /\ d = "prompt" THEN "granted" ELSE call[t][d]
    BY <1>6 DEF Begin, At, PoolInv, TypeOK
  <2>6. Begin(s, "prompt", "granted") /\ Clash(lost \cup Overlap(s, "prompt"))
        /\ Overlap(s, "prompt") \subseteq lost \cup Overlap(s, "prompt")
    BY <1>6
  <2> QED BY <1>5, <2>3, <2>4, <2>5, <2>6, AccountedBegin
<1>7. CASE ~fits /\ ~Throttled(s)
           /\ Update(Enqueue(q, s, lane), Freed(s)) /\ Begin(s, "prompt", "queued")
           /\ Clash(lost \cup Overlap(s, "prompt"))
  <2> DEFINE x == Enqueue(q, s, lane)
  <2>1. s \notin q.waiting /\ s \notin Observers /\ s \notin pool.waiting
    BY <1>4, <1>5, <1>7 DEF Throttled
  <2>2. /\ x.reserved = q.reserved /\ x.waiting = q.waiting \cup {s}
        /\ x.urgent = IF lane = "interactive" THEN q.urgent \cup {s} ELSE q.urgent
    BY <1>2, <2>1, EnqueueOK
  <2>3. pool' = x
    BY <1>7 DEF Update
  <2> HIDE DEF x
  <2>4. pool'.reserved = pool.reserved \cup G /\ pool'.waiting = (pool.waiting \ G) \cup {s}
    BY <1>4, <2>2, <2>3
  <2>5. DrainedBut(s, pool', G)
    BY <2>4 DEF DrainedBut
  <2>6. \A t \in Sessions, d \in Callers :
            call'[t][d] = IF t = s /\ d = "prompt" THEN "queued" ELSE call[t][d]
    BY <1>7 DEF Begin, At, PoolInv, TypeOK
  <2>7. Begin(s, "prompt", "queued") /\ Clash(lost \cup Overlap(s, "prompt"))
        /\ Overlap(s, "prompt") \subseteq lost \cup Overlap(s, "prompt")
    BY <1>7
  <2> QED BY <1>5, <2>1, <2>4, <2>5, <2>6, <2>7, AccountedBegin
<1>8. CASE ~fits /\ Throttled(s) /\ Update(q, Freed(s))
           /\ pendingStartSessions' = pendingStartSessions \ {s}
           /\ startingSessions' = startingSessions \ {s}
           /\ Clash(lost) /\ UNCHANGED call
  <2>1. SUFFICES ASSUME clashes = {} PROVE CallsOK'
    BY <1>8 DEF CallsOK, Clash
  <2>2. s \notin pool.waiting /\ s \notin pool.reserved
    BY <1>4, <1>8, PoolInvFacts DEF Throttled, PoolOK
  <2>3. s \notin pendingStartSessions /\ s \notin startingSessions
    BY <2>1, <2>2 DEF CallsOK, Accounted, Some, InProgress
  <2>4. UNCHANGED marks
    BY <1>8, <2>3 DEF marks
  <2>5. pool' = q
    BY <1>8 DEF Update
  <2>6. \A t \in Sessions, d \in Callers : call'[t][d] = call[t][d]
    BY <1>8
  <2> QED BY <1>4, <2>1, <2>4, <2>5, <2>6, AccountedQuiet
<1> QED BY <1>3, <1>6, <1>7, <1>8

LEMMA StartAccounted ==
    ASSUME PoolInv, CallsOK, NEW s \in Sessions, ColdStart(s) \/ ReplaceDone(s)
    PROVE  CallsOK'
<1>1. PoolOK(pool) /\ SameQueue(pool, pool)
  BY PoolInvFacts DEF SameQueue
<1>2. CASE ColdStart(s)
  <2>1. StartFrom(pool, s, handler[s].lane, {})
    BY <1>2 DEF ColdStart
  <2> QED BY <1>1, <2>1, StartFromAccounted
<1>3. CASE ReplaceDone(s)
  <2> DEFINE lost == When(pool.streaming[s] \in Live, "lost")
             r == Evict(pool, {s})
             p == IF pool.streaming[s] = "none" THEN pool ELSE Drain(r)
  <2>1. StartFrom(p, s, handler[s].lane, lost)
    BY <1>3 DEF ReplaceDone
  <2>2. PoolOK(r) /\ SameQueue(pool, r) /\ r.reserved = pool.reserved
    BY <1>1, EvictOK
  <2> HIDE DEF r, lost
  <2>3. PoolOK(Drain(r))
    BY <2>2, DrainOK
  <2>4. p = pool \/ p = Drain(r)
    OBVIOUS
  <2> HIDE DEF p
  <2> QED BY <1>1, <2>1, <2>2, <2>3, <2>4, StartFromAccounted
<1> QED BY <1>2, <1>3

LEMMA FinishAccounted ==
    ASSUME PoolInv, CallsOK, NEW s \in Sessions, NEW c \in Callers, NEW p, PoolOK(p),
           SameQueue(pool, p),
           pool.reserved \subseteq p.reserved, p.reserved \subseteq pool.reserved \cup {s},
           Finish(s, c, p), UNCHANGED clashes, call[s][c] \in InProgress,
           call[s][c] = "queued" => s \notin pool.waiting
    PROVE  CallsOK'
<1> DEFINE q == [p EXCEPT !.reserved = @ \ {s}]
           new == IF c = "restart" \/ (s \in p.reserved /\ p.streaming[s] = "none")
                  THEN Drain(q) ELSE q
<1>1. SUFFICES ASSUME clashes = {} PROVE CallsOK'
  BY DEF CallsOK
<1>2. /\ At(s, c, "none") /\ Update(new, handler)
      /\ pendingStartSessions' = pendingStartSessions \ {s}
      /\ startingSessions' = startingSessions \ {s}
  BY DEF Finish
<1>3. q \in Pools /\ SameQueue(p, q) /\ q.reserved = p.reserved \ {s}
  BY DEF PoolOK, Pools, SameQueue
<1> HIDE DEF q
<1>4. PoolOK(q) /\ SameQueue(pool, q) /\ (new = q \/ new = Drain(q))
  BY <1>3, SameQueueOK DEF SameQueue
<1>5. pool' = new
  BY <1>2 DEF Update
<1> HIDE DEF new
<1>6. PICK G \in SUBSET pool.waiting :
         new.reserved = q.reserved \cup G /\ new.waiting = pool.waiting \ G
  BY <1>4, DrainedReserved
<1>7. s \notin pool.waiting
  <2>1. s \in pool.waiting => call[s]["prompt"] = "queued" /\ "prompt" \in Callers
    BY PoolAssumption DEF PoolInv, QueuedOK
  <2>2. Accounted(s)
    BY <1>1 DEF CallsOK
  <2> QED BY <2>1, <2>2 DEF Accounted, InProgress
<1>8. DrainedBut(s, pool', G) /\ s \notin pool'.waiting /\ s \notin pool'.reserved
  BY <1>3, <1>5, <1>6, <1>7 DEF DrainedBut
<1>9. \A t \in Sessions, d \in Callers :
          call'[t][d] = IF t = s /\ d = c THEN "none" ELSE call[t][d]
  BY <1>2 DEF At, PoolInv, TypeOK
<1> QED BY <1>1, <1>2, <1>8, <1>9, AccountedEnd

LEMMA EndAccounted ==
    ASSUME PoolInv, CallsOK, NEW s \in Sessions,
           \/ TimeOutStart(s)
           \/ \E c \in Callers : LaunchNothing(s, c) \/ BuildOk(s, c) \/ Report(s, c)
    PROVE  CallsOK'
<1>1. PoolOK(pool) /\ SameQueue(pool, pool)
  BY PoolInvFacts DEF SameQueue
<1>2. ASSUME NEW c \in Callers, LaunchNothing(s, c) PROVE CallsOK'
  <2> DEFINE p == Retain(pool, s)
  <2>1. PoolOK(p) /\ SameQueue(pool, p) /\ p.reserved = pool.reserved \cup {s}
    BY <1>1, RetainOK
  <2>2. Finish(s, c, p) /\ UNCHANGED clashes /\ call[s][c] \in InProgress
        /\ (call[s][c] = "queued" => s \notin pool.waiting)
    BY <1>2 DEF LaunchNothing, Holding, InProgress
  <2> HIDE DEF p
  <2> QED BY <2>1, <2>2, FinishAccounted
<1>3. ASSUME NEW c \in Callers, BuildOk(s, c) PROVE CallsOK'
  <2>1. UNCHANGED clashes /\ call[s][c] = "building"
        /\ \/ Finish(s, c, pool)
           \/ Finish(s, c, Enter(pool, s, "busy"))
    BY <1>3 DEF BuildOk, Enter
  <2>2. call[s][c] \in InProgress /\ call[s][c] # "queued" /\ "busy" \in Stages \ {"none"}
    BY <2>1 DEF InProgress, Stages
  <2>3. CASE Finish(s, c, pool)
    BY <1>1, <2>1, <2>2, <2>3, FinishAccounted
  <2>4. CASE Finish(s, c, Enter(pool, s, "busy"))
    <3>1. LET p == Enter(pool, s, "busy") IN
          PoolOK(p) /\ SameQueue(pool, p) /\ p.reserved = pool.reserved
      BY <1>1, <2>2, EntryOK
    <3> QED BY <2>1, <2>2, <2>4, <3>1, FinishAccounted
  <2> QED BY <2>1, <2>3, <2>4
<1>4. ASSUME NEW c \in Callers, Report(s, c) PROVE CallsOK'
  <2>1. Finish(s, c, pool) /\ UNCHANGED clashes /\ call[s][c] = "failed"
    BY <1>4 DEF Report
  <2>2. call[s][c] \in InProgress /\ call[s][c] # "queued"
    BY <2>1 DEF InProgress
  <2> QED BY <1>1, <2>1, <2>2, FinishAccounted
<1>5. CASE TimeOutStart(s)
  <2>1. SUFFICES ASSUME clashes = {} PROVE CallsOK'
    BY <1>5 DEF CallsOK, TimeOutStart
  <2> DEFINE p == Without(pool, {s})
  <2>2. p.reserved = pool.reserved /\ p.waiting = pool.waiting \ {s}
    BY <1>1, WithoutOK
  <2>3. /\ s \in pool.waiting /\ pool' = p /\ At(s, "prompt", "none")
        /\ pendingStartSessions' = pendingStartSessions \ {s}
        /\ startingSessions' = startingSessions \ {s}
    BY <1>5 DEF TimeOutStart, Update
  <2> HIDE DEF p
  <2>4. "prompt" \in Callers /\ call[s]["prompt"] \in InProgress
    BY <2>3, PoolAssumption DEF PoolInv, QueuedOK, InProgress
  <2>5. s \notin pool.reserved
    BY <2>1, <2>3 DEF CallsOK, Accounted
  <2>6. DrainedBut(s, pool', {}) /\ s \notin pool'.waiting /\ s \notin pool'.reserved
    BY <2>2, <2>3, <2>5 DEF DrainedBut
  <2>7. \A t \in Sessions, d \in Callers :
            call'[t][d] = IF t = s /\ d = "prompt" THEN "none" ELSE call[t][d]
    BY <2>3 DEF At, PoolInv, TypeOK
  <2> QED BY <2>1, <2>3, <2>4, <2>6, <2>7, AccountedEnd
<1> QED BY <1>2, <1>3, <1>4, <1>5

LEMMA LaunchAccounted ==
    ASSUME PoolInv, CallsOK, NEW s \in Sessions, NEW c \in Callers, Launch(s, c)
    PROVE  CallsOK'
<1>1. SUFFICES ASSUME clashes = {} PROVE CallsOK'
  BY DEF CallsOK, Launch, Clash
<1> DEFINE r == Retain(pool, s)
           p == [r EXCEPT !.streaming[s] = c]
<1>2. PoolOK(r) /\ SameQueue(pool, r) /\ r.reserved = pool.reserved \cup {s}
  BY PoolInvFacts, RetainOK
<1>3. p = Enter(r, s, c) /\ c \in Stages \ {"none"}
  BY PoolAssumption DEF Stages, Enter
<1>4. /\ pool' = p /\ Holding(s, c) /\ At(s, c, "building")
      /\ pendingStartSessions' = pendingStartSessions \ {s}
      /\ startingSessions' = startingSessions \cup {s}
  BY DEF Launch, Update
<1> HIDE DEF r, p
<1>5. SameQueue(r, p) /\ p.reserved = r.reserved
  BY <1>2, <1>3, EntryOK
<1>6. pool'.waiting = pool.waiting /\ pool'.reserved = pool.reserved \cup {s}
  BY <1>2, <1>4, <1>5 DEF SameQueue
<1>7. \A t \in Sessions : Accounted(t)
  BY <1>1 DEF CallsOK
<1>8. s \notin pool.waiting /\ call[s][c] \in {"queued", "granted"}
  <2>1. s \in pool.waiting => call[s]["prompt"] = "queued" /\ "prompt" \in Callers
    BY PoolAssumption DEF PoolInv, QueuedOK
  <2> QED BY <1>4, <1>7, <2>1 DEF Accounted, InProgress, Holding
<1>9. \A t \in Sessions, d \in Callers :
          call'[t][d] = IF t = s /\ d = c THEN "building" ELSE call[t][d]
  BY <1>4 DEF At, PoolInv, TypeOK
<1>10. DrainedBut(s, pool', {})
  BY <1>6 DEF DrainedBut
<1>11. \A t \in Sessions \ {s} : Accounted(t)'
  BY <1>4, <1>7, <1>9, <1>10, OthersAccounted
<1>12. Accounted(s)'
  <2>1. call'[s][c] = "building"
    BY <1>9
  <2>2. \A d \in Callers : d # c => call'[s][d] \notin InProgress
    BY <1>7, <1>8, <1>9 DEF Accounted, InProgress
  <2>3. Some(s, {"building", "failed"})' /\ ~Some(s, {"queued", "granted"})' /\ Some(s, InProgress)'
    BY <2>1, <2>2 DEF Some, InProgress
  <2> QED BY <1>4, <1>6, <1>8, <2>1, <2>2, <2>3 DEF Accounted
<1> QED BY <1>11, <1>12 DEF CallsOK

LEMMA AccountedStep ==
    ASSUME PoolInv, CallsOK, Next
    PROVE  CallsOK'
<1>1. ASSUME NEW s \in Sessions, HandlerStep(s) PROVE CallsOK'
  BY <1>1, QuietSteps, RestartAccounted, StartAccounted DEF HandlerStep
<1>2. ASSUME NEW s \in Sessions, NEW c \in Callers, CallStep(s, c) PROVE CallsOK'
  BY <1>2, LaunchAccounted, StillAccounted, EndAccounted DEF CallStep
<1>3. ASSUME NEW s \in Sessions, LoopExit(s) PROVE CallsOK'
  BY <1>3, QuietSteps, StillAccounted, RestartAccounted DEF LoopExit
<1>4. ASSUME NEW s \in Sessions,
             \/ \E lane \in Lanes : Arrive(s, lane)
             \/ TimeOutStart(s)
             \/ TurnEnd(s) \/ EndLoop(s)
             \/ RecoverIdleGap(s) \/ RecoverNothing(s) \/ SwitchModel(s) \/ Abort(s)
      PROVE  CallsOK'
  BY <1>4, QuietSteps, EndAccounted, RestartAccounted
<1>5. ASSUME NEW gone \in SUBSET Sessions, Reclaim(gone) PROVE CallsOK'
  <2>1. PICK s \in Sessions : TRUE
    BY <1>5 DEF Reclaim, InMap
  <2> QED BY <1>5, <2>1, QuietSteps
<1> QED BY <1>1, <1>2, <1>3, <1>4, <1>5 DEF Next

LEMMA CallsOKHolds == Spec => []CallsOK
<1>1. Init => CallsOK
  <2>1. SUFFICES ASSUME Init, NEW s \in Sessions PROVE Accounted(s)
    BY DEF CallsOK
  <2>2. /\ \A c \in Callers : call[s][c] = "none"
        /\ s \notin pendingStartSessions /\ s \notin startingSessions /\ s \notin pool.reserved
    BY <2>1 DEF Init
  <2> QED BY <2>2 DEF Accounted, Some, InProgress
<1>2. PoolInv /\ CallsOK /\ [Next]_vars => CallsOK'
  <2>1. CallsOK /\ UNCHANGED vars => CallsOK'
    BY DEF CallsOK, Accounted, Some, vars
  <2> QED BY <2>1, AccountedStep
<1> QED BY PoolInvHolds, <1>1, <1>2, PTL DEF Spec

LEMMA AccountedFor == PoolInv /\ CallsOK => StartsAccountedFor
<1>1. SUFFICES ASSUME PoolInv, clashes = {}, \A s \in Sessions : Accounted(s)
               PROVE  /\ pendingStartSessions = Calls({"queued", "granted"})
                      /\ startingSessions = Calls({"building", "failed"})
                      /\ pool.reserved = Calls(InProgress) \ pool.waiting
                      /\ pool.waiting \subseteq {s \in Sessions : call[s]["prompt"] = "queued"}
  BY DEF CallsOK, StartsAccountedFor, InProgress
<1>2. /\ pendingStartSessions \subseteq Sessions /\ startingSessions \subseteq Sessions
      /\ pool.reserved \subseteq Sessions /\ pool.waiting \subseteq Sessions
  BY <1>1, PoolInvFacts DEF PoolInv, TypeOK
<1>3. pendingStartSessions = Calls({"queued", "granted"})
  BY <1>1, <1>2 DEF Accounted, Some, Calls
<1>4. startingSessions = Calls({"building", "failed"})
  BY <1>1, <1>2 DEF Accounted, Some, Calls
<1>5. pool.reserved = Calls(InProgress) \ pool.waiting
  BY <1>1, <1>2 DEF Accounted, Some, Calls
<1>6. pool.waiting \subseteq {s \in Sessions : call[s]["prompt"] = "queued"}
  BY <1>1, <1>2 DEF PoolInv, QueuedOK
<1> QED BY <1>3, <1>4, <1>5, <1>6

\* As long as no two starts of a name overlapped and no running runtime was
\* replaced, the marks and the reservations are exactly those of the start
\* calls in progress, on every path out of a start (startStreamingSession).
THEOREM StartsAreAccountedFor == Spec => []StartsAccountedFor
BY PoolInvHolds, CallsOKHolds, AccountedFor, PTL

-----------------------------------------------------------------------------
(* The size of the pool.                                                   *)

LEMMA DrainFits ==
    ASSUME NEW p, PoolOK(p), NEW H, Holders(p) \subseteq H
    PROVE  Holders(Drain(p)) \subseteq H \/ Cardinality(Holders(Drain(p))) <= Max
<1>1. Holders(Drain(p)) = Holders(p) \cup Grants(p)
  BY DrainOK
<1>2. CASE Grants(p) = {}
  BY <1>1, <1>2
<1>3. CASE Grants(p) # {}
  BY <1>1, <1>3, GrantsFit
<1> QED BY <1>2, <1>3

LEMMA OverfillStep ==
    ASSUME PoolInv, CallsOK, Shape
    PROVE  \/ Cardinality(Holders(pool')) <= Max
           \/ Holders(pool') \subseteq Holders(pool)
           \/ \E s \in Sessions :
                 BetweenSlots(s) /\ Holders(pool') = Holders(pool) \cup {s}
           \/ clashes # {}
<1>1. CASE Keeps \/ LetsGo
  BY <1>1 DEF Keeps, LetsGo
<1>2. CASE Drains
  BY <1>2, DrainFits DEF Drains, Shrunk
<1>3. CASE Promotes
  <2>1. PICK u \in pool.waiting : pool' = Drain(Front(pool, u))
    BY <1>3 DEF Promotes
  <2>2. PoolOK(Front(pool, u)) /\ Holders(Front(pool, u)) = Holders(pool)
    BY PoolInvFacts, FrontOK
  <2> QED BY <2>1, <2>2, DrainFits
<1>4. CASE TakesBack
  BY <1>4 DEF TakesBack
<1>5. CASE Launches
  <2>1. PICK s \in Sessions, c \in Callers :
          Holding(s, c) /\ Holders(pool') = Holders(pool) \cup {s}
    BY <1>5 DEF Launches
  <2>2. CASE clashes = {}
    <3>1. Accounted(s)
      BY <2>2 DEF CallsOK
    <3>2. s \in pool.waiting => call[s]["prompt"] = "queued" /\ "prompt" \in Callers
      BY PoolAssumption DEF PoolInv, QueuedOK
    <3>3. s \notin pool.waiting /\ call[s][c] \in InProgress
      BY <2>1, <3>1, <3>2 DEF Accounted, InProgress, Holding
    <3>4. s \in pool.reserved
      BY <3>1, <3>3 DEF Accounted, Some
    <3> QED BY <2>1, <3>4 DEF Holders
  <2> QED BY <2>2
<1>6. CASE Starts
  <2>0. PICK u \in Sessions : \E p, q : StartsFrom(p, q, u)
    BY <1>6 DEF Starts
  <2>1. PICK p, q : StartsFrom(p, q, u)
    BY <2>0
  <2>2. /\ PoolOK(p) /\ PoolOK(q) /\ Holders(q) \subseteq Holders(p)
        /\ p = pool \/ \E r : Shrunk(r) /\ p = Drain(r)
    BY <2>1 DEF StartsFrom
  <2>3. Holders(p) \in SUBSET Sessions /\ Holders(q) \in SUBSET Sessions /\ Max \in Int
    BY <2>2, HolderSets, PoolAssumption DEF PoolOK
  <2>4. Holders(p) \subseteq Holders(pool) \/ Cardinality(Holders(p)) <= Max
    BY <2>2, DrainFits DEF Shrunk
  <2>5. Holders(q) \subseteq Holders(pool) \/ Cardinality(Holders(q)) <= Max
    BY <2>2, <2>3, <2>4, FewerHolders
  <2>6. u \in q.reserved => u \in Holders(q)
    BY DEF Holders
  <2>7. CASE Holders(pool') = Holders(q)
    BY <2>5, <2>7
  <2>8. CASE HasSlot(Holders(q), handler[u].lane = "interactive")
             /\ Holders(pool') = Holders(q) \cup {u}
    BY <2>3, <2>8, OneMore, PoolAssumption DEF HasSlot
  <2> QED BY <2>1, <2>6, <2>7, <2>8 DEF StartsFrom
<1> QED BY <1>1, <1>2, <1>3, <1>4, <1>5, <1>6 DEF Shape

\* Admission never overfills the pool before the first clash: only a restart
\* that takes back the slot it let go of across an await does
\* (retainReleasedSlot).
THEOREM PoolOverfilledByRestartsOnly == Spec => OnlyRestartsOverfill
<1>1. PoolInv /\ CallsOK /\ [Next]_vars =>
        [\/ Cardinality(Holders(pool')) <= Max
         \/ Holders(pool') \subseteq Holders(pool)
         \/ \E s \in Sessions :
               BetweenSlots(s) /\ Holders(pool') = Holders(pool) \cup {s}
         \/ clashes # {}]_vars
  BY StepShape, OverfillStep
<1> QED BY PoolInvHolds, CallsOKHolds, <1>1, PTL DEF Spec, OnlyRestartsOverfill


=============================================================================
