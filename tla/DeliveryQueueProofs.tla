------------------------- MODULE DeliveryQueueProofs -------------------------
(* For any atoms and lanes, and under any trouble, the prompt queue keeps  *)
(* every prompt in one place, never hands over what is done with and cuts  *)
(* no tool that may not be cut.  Under the trouble that each theorem names *)
(* it loses no wake-up and no prompt, and keeps the order of its prompts.  *)
EXTENDS DeliveryQueue, SequenceTheorems, WellFoundedInduction, TLAPS

-----------------------------------------------------------------------------
(* Filters of sequences.  The filters are defined by recursion on the      *)
(* length of the sequence; what they return is shown by induction over     *)
(* that length, a set of numbers at a time.                                *)

\* Induction up to n, for a set of numbers.
LEMMA Induction ==
    ASSUME NEW n \in Nat, NEW T, 0 \in T, \A m \in 0..(n - 1) : m \in T => m + 1 \in T
    PROVE  n \in T
<1> DEFINE R == OpToRel(<, Nat)
           Missed == {m \in 0..n : m \notin T}
<1>1. IsWellFoundedOn(R, Nat)
  BY NatLessThanWellFounded
<1>2. SUFFICES ASSUME n \notin T PROVE FALSE
  OBVIOUS
<1>3. PICK m \in Missed : \A k \in Missed : <<k, m>> \notin R
  <2>1. Missed \subseteq Nat /\ n \in Missed
    BY <1>2
  <2> HIDE DEF Missed, R
  <2> QED BY <2>1, <1>1, WFMin
<1>4. m \in Nat \ {0} /\ m - 1 \in 0..(n - 1)
  OBVIOUS
<1>5. <<m - 1, m>> \in R
  BY <1>4 DEF OpToRel
<1>6. m - 1 \in T
  <2> HIDE DEF R
  <2> QED BY <1>3, <1>4, <1>5
<1> QED BY <1>4, <1>6

\* kept of Within, up to n.
Keeps(q, S, n, f) ==
    f = [i \in 0..n |-> IF i = 0 THEN <<>>
                        ELSE IF q[i] \in S THEN Append(f[i - 1], q[i]) ELSE f[i - 1]]

\* The recursion of Within has a solution.
LEMMA KeptExists ==
    ASSUME NEW q, NEW S, Len(q) \in Nat
    PROVE  \E f : Keeps(q, S, Len(q), f)
<1> DEFINE T == {n \in Nat : \E f : Keeps(q, S, n, f)}
<1>1. 0 \in T
  <2>1. Keeps(q, S, 0, [i \in 0..0 |-> <<>>])
    BY DEF Keeps
  <2> QED BY <2>1
<1>2. ASSUME NEW m \in 0..(Len(q) - 1), m \in T
      PROVE  m + 1 \in T
  <2>1. PICK f : Keeps(q, S, m, f)
    BY <1>2
  <2> DEFINE last == IF q[m + 1] \in S THEN Append(f[m], q[m + 1]) ELSE f[m]
             g == [i \in 0..(m + 1) |-> IF i = m + 1 THEN last ELSE f[i]]
  <2>2. ASSUME NEW i \in 0..(m + 1)
        PROVE  g[i] = IF i = 0 THEN <<>>
                      ELSE IF q[i] \in S THEN Append(g[i - 1], q[i]) ELSE g[i - 1]
    <3>1. CASE i = m + 1
      <4>1. g[i] = last /\ i # 0 /\ i - 1 = m /\ g[m] = f[m]
        BY <3>1
      <4> QED BY <4>1, <3>1
    <3>2. CASE i \in 1..m
      <4>1. g[i] = f[i] /\ g[i - 1] = f[i - 1] /\ i # 0
        BY <3>2
      <4>2. f[i] = IF q[i] \in S THEN Append(f[i - 1], q[i]) ELSE f[i - 1]
        <5>1. i \in 0..m /\ i # 0
          BY <3>2
        <5> QED BY <5>1, <2>1 DEF Keeps
      <4> HIDE DEF g
      <4> QED BY <4>1, <4>2
    <3>3. CASE i = 0
      <4>1. g[0] = f[0] /\ 0 \in 0..m
        BY <3>3
      <4>2. f[0] = <<>>
        BY <4>1, <2>1 DEF Keeps
      <4> HIDE DEF g
      <4> QED BY <4>1, <4>2, <3>3
    <3> QED BY <3>1, <3>2, <3>3
  <2>3. Keeps(q, S, m + 1, g)
    <3>1. g = [i \in 0..(m + 1) |-> g[i]]
      OBVIOUS
    <3> HIDE DEF g
    <3> QED BY <2>2, <3>1 DEF Keeps
  <2> QED BY <2>3
<1>3. Len(q) \in T
  <2> HIDE DEF T
  <2> QED BY <1>1, <1>2, Induction
<1> QED BY <1>3

\* s is q[g[1]], q[g[2]], ...: the elements of q up to n that are in S.
Picks(g, s, q, n, S) ==
    /\ g \in [1..Len(s) -> 1..n]
    /\ \A i, j \in 1..Len(s) : i < j => g[i] < g[j]
    /\ \A i \in 1..Len(s) : s[i] = q[g[i]] /\ s[i] \in S
    /\ \A k \in 1..n : q[k] \in S => \E i \in 1..Len(s) : g[i] = k

\* One more element.
LEMMA PickOne ==
    ASSUME NEW A, NEW q \in Seq(A), NEW S, NEW m \in 0..(Len(q) - 1),
           NEW s \in Seq(A), NEW g, Picks(g, s, q, m, S)
    PROVE  IF q[m + 1] \in S
           THEN \E h : Picks(h, Append(s, q[m + 1]), q, m + 1, S)
           ELSE Picks(g, s, q, m + 1, S)
<1>0. Len(s) \in Nat /\ Len(q) \in Nat /\ m + 1 \in 1..Len(q)
  OBVIOUS
<1>1. CASE q[m + 1] \notin S
  <2>1. g \in [1..Len(s) -> 1..(m + 1)]
    BY <1>0 DEF Picks
  <2>2. \A k \in 1..(m + 1) : q[k] \in S => k \in 1..m
    BY <1>1, <1>0
  <2> QED BY <1>1, <2>1, <2>2 DEF Picks
<1>2. CASE q[m + 1] \in S
  <2> DEFINE t == Append(s, q[m + 1])
             h == [i \in 1..(Len(s) + 1) |-> IF i = Len(s) + 1 THEN m + 1 ELSE g[i]]
  <2>1. Len(t) = Len(s) + 1 /\ t[Len(s) + 1] = q[m + 1] /\ \A i \in 1..Len(s) : t[i] = s[i]
    BY <1>0
  <2>2. \A i \in 1..Len(s) : h[i] = g[i] /\ g[i] \in 1..m /\ i # Len(s) + 1
    BY <1>0 DEF Picks
  <2>3. h[Len(s) + 1] = m + 1 /\ h \in [1..(Len(s) + 1) -> 1..(m + 1)]
    BY <1>0 DEF Picks
  <2>4. \A i \in 1..(Len(s) + 1) : i = Len(s) + 1 \/ i \in 1..Len(s)
    BY <1>0
  <2> HIDE DEF t, h
  <2>5. \A i, j \in 1..Len(t) : i < j => h[i] < h[j]
    <3> SUFFICES ASSUME NEW i \in 1..Len(t), NEW j \in 1..Len(t), i < j
                 PROVE  h[i] < h[j]
      OBVIOUS
    <3>1. i \in 1..Len(s) /\ (j \in 1..Len(s) \/ j = Len(s) + 1)
      BY <1>0, <2>1, <2>4
    <3> QED BY <3>1, <2>2, <2>3, <1>0 DEF Picks
  <2>6. \A i \in 1..Len(t) : t[i] = q[h[i]] /\ t[i] \in S
    BY <2>1, <2>2, <2>3, <2>4, <1>2 DEF Picks
  <2>7. \A k \in 1..(m + 1) : q[k] \in S => \E i \in 1..Len(t) : h[i] = k
    <3> SUFFICES ASSUME NEW k \in 1..(m + 1), q[k] \in S
                 PROVE  \E i \in 1..Len(t) : h[i] = k
      OBVIOUS
    <3>1. CASE k = m + 1
      BY <3>1, <2>1, <2>3, <1>0
    <3>2. CASE k \in 1..m
      <4>1. PICK i \in 1..Len(s) : g[i] = k
        BY <3>2 DEF Picks
      <4>2. i \in 1..Len(t)
        BY <2>1, <1>0
      <4> QED BY <4>1, <4>2, <2>2
    <3> QED BY <3>1, <3>2, <1>0
  <2>8. Picks(h, t, q, m + 1, S)
    BY <2>1, <2>3, <2>5, <2>6, <2>7 DEF Picks
  <2> QED BY <2>8, <1>2 DEF t
<1> QED BY <1>1, <1>2

\* Within keeps what is in the set, in the order of the sequence.
LEMMA WithinPicks ==
    ASSUME NEW A, NEW q \in Seq(A), NEW S
    PROVE  Within(q, S) \in Seq(A) /\ \E g : Picks(g, Within(q, S), q, Len(q), S)
<1> DEFINE f == CHOOSE f : Keeps(q, S, Len(q), f)
           T == {n \in 0..Len(q) : f[n] \in Seq(A) /\ \E g : Picks(g, f[n], q, n, S)}
<1>0. Len(q) \in Nat
  OBVIOUS
<1>1. Within(q, S) = f[Len(q)]
  BY Zenon DEF Within, Keeps
<1>2. Keeps(q, S, Len(q), f)
  BY <1>0, KeptExists, Zenon
<1>3. /\ f[0] = <<>>
      /\ \A m \in 0..(Len(q) - 1) :
            f[m + 1] = IF q[m + 1] \in S THEN Append(f[m], q[m + 1]) ELSE f[m]
  <2> HIDE DEF f
  <2> SUFFICES /\ f[0] = <<>>
               /\ \A i \in 1..Len(q) :
                    f[i] = IF q[i] \in S THEN Append(f[i - 1], q[i]) ELSE f[i - 1]
    BY <1>0
  <2>1. \A i \in 0..Len(q) :
           f[i] = IF i = 0 THEN <<>>
                  ELSE IF q[i] \in S THEN Append(f[i - 1], q[i]) ELSE f[i - 1]
    BY <1>2 DEF Keeps
  <2> QED BY <2>1, <1>0
<1> HIDE DEF f
<1>4. 0 \in T
  <2>1. f[0] \in Seq(A) /\ Len(f[0]) = 0
    BY <1>3
  <2>2. Picks([i \in {} |-> 0], f[0], q, 0, S)
    BY <2>1 DEF Picks
  <2> QED BY <2>1, <2>2, <1>0
<1>5. ASSUME NEW m \in 0..(Len(q) - 1), m \in T
      PROVE  m + 1 \in T
  <2>1. PICK g : Picks(g, f[m], q, m, S)
    BY <1>5
  <2>2. f[m] \in Seq(A) /\ m + 1 \in 0..Len(q) /\ q[m + 1] \in A
    BY <1>5, <1>0
  <2>3. f[m + 1] = IF q[m + 1] \in S THEN Append(f[m], q[m + 1]) ELSE f[m]
    BY <1>3
  <2>4. f[m + 1] \in Seq(A)
    <3>1. Append(f[m], q[m + 1]) \in Seq(A)
      BY <2>2
    <3> QED BY <2>2, <2>3, <3>1
  <2>5. IF q[m + 1] \in S
        THEN \E h : Picks(h, Append(f[m], q[m + 1]), q, m + 1, S)
        ELSE Picks(g, f[m], q, m + 1, S)
    BY <2>1, <2>2, PickOne
  <2>6. \E h : Picks(h, f[m + 1], q, m + 1, S)
    BY <2>3, <2>5, Zenon
  <2> QED BY <2>2, <2>4, <2>6
<1>6. Len(q) \in T
  <2> HIDE DEF T
  <2> QED BY <1>0, <1>4, <1>5, Induction
<1> QED BY <1>1, <1>6

\* What is kept: nothing else, nothing twice, in the same order.
LEMMA WithinFacts ==
    ASSUME NEW A, NEW q \in Seq(A), NEW S
    PROVE  /\ Within(q, S) \in Seq(A)
           /\ ToSet(Within(q, S)) = ToSet(q) \cap S
           /\ IsInjective(q) => IsInjective(Within(q, S))
<1> DEFINE w == Within(q, S)
<1>1. w \in Seq(A)
  BY WithinPicks
<1>2. PICK g : Picks(g, w, q, Len(q), S)
  BY WithinPicks
<1> HIDE DEF w
<1>3. DOMAIN w = 1..Len(w) /\ DOMAIN q = 1..Len(q) /\ Len(w) \in Nat /\ Len(q) \in Nat
  BY <1>1
<1>4. ToSet(w) = ToSet(q) \cap S
  <2>1. ASSUME NEW a \in ToSet(w) PROVE a \in ToSet(q) /\ a \in S
    <3>1. PICK i \in 1..Len(w) : a = w[i]
      BY <1>3 DEF ToSet
    <3>2. g[i] \in 1..Len(q) /\ w[i] = q[g[i]] /\ w[i] \in S
      BY <1>2 DEF Picks
    <3> QED BY <3>1, <3>2, <1>3 DEF ToSet
  <2>2. ASSUME NEW a \in ToSet(q), a \in S PROVE a \in ToSet(w)
    <3>1. PICK k \in 1..Len(q) : a = q[k]
      BY <1>3 DEF ToSet
    <3>2. PICK i \in 1..Len(w) : g[i] = k
      BY <3>1, <2>2, <1>2 DEF Picks
    <3>3. w[i] = a
      BY <3>1, <3>2, <1>2 DEF Picks
    <3> QED BY <3>3, <1>3 DEF ToSet
  <2> QED BY <2>1, <2>2
<1>5. ASSUME IsInjective(q) PROVE IsInjective(w)
  <2> SUFFICES ASSUME NEW i \in 1..Len(w), NEW j \in 1..Len(w), w[i] = w[j]
               PROVE  i = j
    BY <1>3 DEF IsInjective
  <2>1. /\ g[i] \in 1..Len(q) /\ g[j] \in 1..Len(q)
        /\ q[g[i]] = q[g[j]]
    BY <1>2 DEF Picks
  <2>2. g[i] = g[j]
    BY <2>1, <1>5, <1>3 DEF IsInjective
  <2>3. ~(i < j) /\ ~(j < i)
    BY <1>2, <2>1, <2>2 DEF Picks
  <2> QED BY <2>3, <1>3
<1> QED BY <1>1, <1>4, <1>5 DEF w

LEMMA WithoutFacts ==
    ASSUME NEW q \in Seq(Atoms), NEW S
    PROVE  /\ Without(q, S) \in Seq(Atoms)
           /\ ToSet(Without(q, S)) = ToSet(q) \ S
           /\ IsInjective(q) => IsInjective(Without(q, S))
<1>1. ToSet(q) \subseteq Atoms
  BY DEF ToSet
<1> QED BY <1>1, WithinFacts DEF Without

\* A non-empty set of numbers has a least one.
LEMMA Least ==
    ASSUME NEW T, T \subseteq Nat, T # {}
    PROVE  Min(T) \in T /\ \A m \in T : Min(T) <= m
<1> DEFINE R == OpToRel(<, Nat)
<1>1. PICK n \in T : \A m \in T : <<m, n>> \notin R
  <2>1. IsWellFoundedOn(R, Nat)
    BY NatLessThanWellFounded
  <2> HIDE DEF R
  <2> QED BY <2>1, WFMin
<1>2. \A m \in T : n <= m
  <2> SUFFICES ASSUME NEW m \in T, m < n PROVE FALSE
    OBVIOUS
  <2>1. <<m, n>> \in R
    BY DEF OpToRel
  <2> HIDE DEF R
  <2> QED BY <2>1, <1>1
<1> QED BY <1>2 DEF Min

\* Before takes a prefix, all of it outside the set, and as long as it can.
LEMMA BeforePrefix ==
    ASSUME NEW A, NEW q \in Seq(A), NEW S
    PROVE  \E n \in 0..Len(q) :
              /\ Before(q, S) = SubSeq(q, 1, n)
              /\ \A i \in 1..n : q[i] \notin S
              /\ n < Len(q) => q[n + 1] \in S
<1> DEFINE found == {n \in 1..Len(q) : q[n] \in S}
<1>1. CASE found = {}
  <2>1. Before(q, S) = q /\ q = SubSeq(q, 1, Len(q)) /\ Len(q) \in 0..Len(q)
    BY <1>1, SubSeqFull DEF Before
  <2>2. \A i \in 1..Len(q) : q[i] \notin S
    BY <1>1
  <2>3. ~(Len(q) < Len(q))
    BY <2>1
  <2> QED BY <2>1, <2>2, <2>3
<1>2. CASE found # {}
  <2> DEFINE n == Min(found)
  <2>1. Before(q, S) = SubSeq(q, 1, n - 1)
    BY <1>2 DEF Before
  <2>2. n \in found /\ \A m \in found : n <= m
    <3>1. found \subseteq Nat
      OBVIOUS
    <3> HIDE DEF found
    <3> QED BY <3>1, <1>2, Least
  <2> HIDE DEF n
  <2>3. n - 1 \in 0..Len(q) /\ (n - 1) + 1 = n
    BY <2>2
  <2>4. \A i \in 1..(n - 1) : q[i] \notin S
    BY <2>2
  <2> QED BY <2>1, <2>2, <2>3, <2>4
<1> QED BY <1>1, <1>2

LEMMA BeforeFacts ==
    ASSUME NEW A, NEW q \in Seq(A), NEW S
    PROVE  /\ Before(q, S) \in Seq(A)
           /\ ToSet(Before(q, S)) \subseteq ToSet(q) \ S
           /\ IsInjective(q) => IsInjective(Before(q, S))
<1>1. PICK n \in 0..Len(q) : /\ Before(q, S) = SubSeq(q, 1, n)
                             /\ \A i \in 1..n : q[i] \notin S
  BY BeforePrefix
<1> DEFINE p == Before(q, S)
<1>2. p \in Seq(A) /\ Len(p) = n /\ \A i \in 1..n : p[i] = q[i]
  BY <1>1
<1> HIDE DEF p
<1>3. DOMAIN p = 1..n /\ DOMAIN q = 1..Len(q) /\ 1..n \subseteq 1..Len(q)
  BY <1>2
<1> QED BY <1>1, <1>2, <1>3 DEF p, ToSet, IsInjective

\* Queues put together.
LEMMA ConcatFacts ==
    ASSUME NEW A, NEW p \in Seq(A), NEW q \in Seq(A)
    PROVE  /\ p \o q \in Seq(A)
           /\ ToSet(p \o q) = ToSet(p) \cup ToSet(q)
           /\ IsInjective(p \o q) <=>
                IsInjective(p) /\ IsInjective(q) /\ ToSet(p) \cap ToSet(q) = {}
<1> DEFINE t == p \o q
<1>1. /\ t \in Seq(A) /\ Len(t) = Len(p) + Len(q)
      /\ \A i \in 1..Len(p) : t[i] = p[i]
      /\ \A i \in 1..Len(q) : t[Len(p) + i] = q[i]
  OBVIOUS
<1>2. /\ DOMAIN t = 1..(Len(p) + Len(q)) /\ DOMAIN p = 1..Len(p) /\ DOMAIN q = 1..Len(q)
      /\ Len(p) \in Nat /\ Len(q) \in Nat
  BY <1>1
<1> HIDE DEF t
<1>3. \A i \in 1..(Len(p) + Len(q)) :
         i \in 1..Len(p) \/ \E k \in 1..Len(q) : i = Len(p) + k
  <2> SUFFICES ASSUME NEW i \in 1..(Len(p) + Len(q)), i \notin 1..Len(p)
               PROVE  \E k \in 1..Len(q) : i = Len(p) + k
    OBVIOUS
  <2>1. i - Len(p) \in 1..Len(q) /\ i = Len(p) + (i - Len(p))
    BY <1>2
  <2> QED BY <2>1
<1>4. /\ \A i \in 1..Len(p) : i \in 1..(Len(p) + Len(q))
      /\ \A i \in 1..Len(q) : Len(p) + i \in 1..(Len(p) + Len(q))
  BY <1>2
<1>5. ToSet(t) = ToSet(p) \cup ToSet(q)
  <2>1. ASSUME NEW a \in ToSet(t) PROVE a \in ToSet(p) \cup ToSet(q)
    <3>1. PICK i \in 1..(Len(p) + Len(q)) : t[i] = a
      BY <1>2 DEF ToSet
    <3> QED BY <3>1, <1>1, <1>2, <1>3 DEF ToSet
  <2>2. ToSet(p) \subseteq ToSet(t)
    BY <1>1, <1>2, <1>4 DEF ToSet
  <2>3. ToSet(q) \subseteq ToSet(t)
    <3> SUFFICES ASSUME NEW i \in 1..Len(q) PROVE q[i] \in ToSet(t)
      BY <1>2 DEF ToSet
    <3>1. Len(p) + i \in DOMAIN t /\ t[Len(p) + i] = q[i]
      BY <1>1, <1>2, <1>4
    <3> QED BY <3>1 DEF ToSet
  <2> QED BY <2>1, <2>2, <2>3
<1>6. ASSUME IsInjective(t)
      PROVE  IsInjective(p) /\ IsInjective(q) /\ ToSet(p) \cap ToSet(q) = {}
  <2>1. IsInjective(p)
    BY <1>1, <1>2, <1>4, <1>6 DEF IsInjective
  <2>2. ASSUME NEW i \in 1..Len(q), NEW j \in 1..Len(q), q[i] = q[j] PROVE i = j
    <3>1. t[Len(p) + i] = t[Len(p) + j] /\ Len(p) + i \in DOMAIN t /\ Len(p) + j \in DOMAIN t
      BY <2>2, <1>1, <1>2, <1>4
    <3>2. Len(p) + i = Len(p) + j
      BY <3>1, <1>6 DEF IsInjective
    <3> QED BY <3>2, <1>2
  <2>3. ASSUME NEW i \in 1..Len(p), NEW j \in 1..Len(q) PROVE p[i] # q[j]
    <3>1. i \in DOMAIN t /\ Len(p) + j \in DOMAIN t /\ t[i] = p[i] /\ t[Len(p) + j] = q[j]
      BY <1>1, <1>2, <1>4
    <3>2. i # Len(p) + j
      BY <1>2
    <3> QED BY <3>1, <3>2, <1>6 DEF IsInjective
  <2>4. IsInjective(q)
    BY <2>2, <1>2 DEF IsInjective
  <2> QED BY <2>1, <2>3, <2>4, <1>2 DEF ToSet
<1>7. ASSUME IsInjective(p), IsInjective(q), ToSet(p) \cap ToSet(q) = {}
      PROVE  IsInjective(t)
  <2> SUFFICES ASSUME NEW i \in DOMAIN t, NEW j \in DOMAIN t, t[i] = t[j] PROVE i = j
    BY DEF IsInjective
  <2>1. \A k \in 1..Len(p), l \in 1..Len(q) : p[k] # q[l]
    BY <1>7, <1>2 DEF ToSet
  <2>2. CASE i \in 1..Len(p) /\ j \in 1..Len(p)
    BY <2>2, <1>1, <1>2, <1>7 DEF IsInjective
  <2>3. CASE i \in 1..Len(p) /\ j \notin 1..Len(p)
    BY <2>1, <2>3, <1>1, <1>2, <1>3
  <2>4. CASE i \notin 1..Len(p) /\ j \in 1..Len(p)
    BY <2>1, <2>4, <1>1, <1>2, <1>3
  <2>5. CASE i \notin 1..Len(p) /\ j \notin 1..Len(p)
    <3>1. PICK k \in 1..Len(q) : i = Len(p) + k
      BY <2>5, <1>2, <1>3
    <3>2. PICK l \in 1..Len(q) : j = Len(p) + l
      BY <2>5, <1>2, <1>3
    <3>3. q[k] = q[l]
      BY <3>1, <3>2, <1>1
    <3>4. k = l
      BY <3>3, <1>2, <1>7 DEF IsInjective
    <3> QED BY <3>1, <3>2, <3>4
  <2> QED BY <2>2, <2>3, <2>4, <2>5
<1> QED BY <1>1, <1>5, <1>6, <1>7 DEF t

LEMMA SingleFacts ==
    /\ <<>> \in Seq(Atoms) /\ ToSet(<<>>) = {} /\ IsInjective(<<>>)
    /\ \A a \in Atoms : <<a>> \in Seq(Atoms) /\ ToSet(<<a>>) = {a} /\ IsInjective(<<a>>)
<1>1. ToSet(<<>>) = {} /\ IsInjective(<<>>) /\ <<>> \in Seq(Atoms)
  BY DEF ToSet, IsInjective
<1>2. ASSUME NEW a \in Atoms
      PROVE  <<a>> \in Seq(Atoms) /\ ToSet(<<a>>) = {a} /\ IsInjective(<<a>>)
  <2>1. <<a>> \in Seq(Atoms) /\ DOMAIN <<a>> = {1} /\ <<a>>[1] = a
    OBVIOUS
  <2> HIDE DEF SingleFacts
  <2> QED BY <2>1 DEF ToSet, IsInjective
<1> QED BY <1>1, <1>2

\* An arrival at the end of a queue.
LEMMA AppendFacts ==
    ASSUME NEW q \in Seq(Atoms), NEW a \in Atoms
    PROVE  /\ Append(q, a) \in Seq(Atoms)
           /\ ToSet(Append(q, a)) = ToSet(q) \cup {a}
           /\ IsInjective(Append(q, a)) <=> IsInjective(q) /\ a \notin ToSet(q)
<1>1. Append(q, a) = q \o <<a>> /\ <<a>> \in Seq(Atoms)
  BY AppendIsConcat
<1>2. ToSet(<<a>>) = {a} /\ IsInjective(<<a>>)
  BY SingleFacts
<1>3. /\ q \o <<a>> \in Seq(Atoms)
      /\ ToSet(q \o <<a>>) = ToSet(q) \cup ToSet(<<a>>)
      /\ IsInjective(q \o <<a>>) <=>
            IsInjective(q) /\ IsInjective(<<a>>) /\ ToSet(q) \cap ToSet(<<a>>) = {}
  BY <1>1, ConcatFacts
<1>4. (ToSet(q) \cap {a} = {}) <=> a \notin ToSet(q)
  OBVIOUS
<1> QED BY <1>1, <1>2, <1>3, <1>4

\* The elements of a queue.
LEMMA QueueFacts ==
    ASSUME NEW q \in Seq(Atoms)
    PROVE  /\ ToSet(q) \subseteq Atoms
           /\ Len(q) \in Nat
           /\ q = <<>> <=> ToSet(q) = {}
           /\ q # <<>> => Head(q) = q[1] /\ q[1] \in ToSet(q) /\ q[Len(q)] \in ToSet(q)
<1>1. DOMAIN q = 1..Len(q) /\ Len(q) \in Nat /\ \A i \in 1..Len(q) : q[i] \in Atoms
  OBVIOUS
<1>2. q # <<>> => Len(q) # 0 /\ Head(q) = q[1]
  OBVIOUS
<1>3. q = <<>> => ToSet(q) = {}
  BY SingleFacts
<1>4. q # <<>> => 1 \in DOMAIN q /\ Len(q) \in DOMAIN q
  BY <1>1, <1>2
<1> QED BY <1>1, <1>2, <1>3, <1>4 DEF ToSet

-----------------------------------------------------------------------------
(* What holds in every reachable state, of a runtime r, a stash sh, the    *)
(* settled atoms st and the arrived ones ar.                               *)

\* A runtime has a generator once it is built, and a queue once a start was
\* asked for.  A turn that is not active any more has its terminal latch.
PlacesOK(r) ==
    /\ r.turn # {} => r.gen \in {"preparing", "running", "ended"}
    /\ r.active => r.gen \in {"preparing", "running"}
    /\ (r.life = "up") <=> (r.gen # "none")
    /\ r.life = "none" => r.queue = <<>>
    /\ r.gen = "preparing" => r.latch = "none" /\ r.active
    /\ r.gen = "running" /\ ~r.active => r.latch # "none"
    /\ r.gen = "ended" => r.latch # "none"

\* A turn in progress is interrupted by a successor only.
FlagsOK(r) ==
    /\ r.gen \in {"none", "fresh", "waiting"} => ~r.interrupted /\ ~r.superseded
    /\ r.gen \in {"preparing", "running"} => (r.interrupted <=> r.superseded)
    /\ r.gen = "broken" => ~r.superseded

\* The stash has no atom of the queue or the turn, and no atom is twice in it
\* or in the queue.
ApartOK(r, sh) ==
    /\ IsInjective(sh) /\ IsInjective(r.queue)
    /\ ToSet(sh) \cap ToSet(r.queue) = {} /\ ToSet(sh) \cap r.turn = {}

\* What is queued, in a turn or settled was dispatched.
KnownOK(r, sh, st, ar) ==
    /\ ToSet(sh) \subseteq ToSet(ar) /\ ToSet(r.queue) \subseteq ToSet(ar)
    /\ r.turn \subseteq ToSet(ar) /\ st \subseteq ToSet(ar)

\* What will be handed over is not settled: what is stashed, what is queued
\* behind the turn, and the turn itself when it may be replayed.
OwedOK(r, sh, st) ==
    /\ ToSet(sh) \cap st = {}
    /\ (ToSet(r.queue) \ r.turn) \cap st = {}
    /\ ~r.superseded /\ (Replayable(r) \/ (r.gen = "ended" /\ r.interrupted)) =>
         ToSet(r.queue) \cap st = {}

Fits(r, sh, st, ar) ==
    /\ r \in Runtimes /\ sh \in Seq(Atoms) /\ st \subseteq Atoms /\ ar \in Seq(Atoms)
    /\ PlacesOK(r) /\ FlagsOK(r) /\ ApartOK(r, sh)
    /\ KnownOK(r, sh, st, ar) /\ OwedOK(r, sh, st)

OthersOK ==
    /\ lane \in [Atoms -> Barriers] /\ carries \in [Atoms -> SUBSET Atoms]
    /\ stamped \subseteq Atoms /\ told \subseteq Atoms /\ promised \subseteq Atoms
    /\ task \in BOOLEAN /\ taskEvent \in BOOLEAN

QueueInv == OthersOK /\ Fits(rt, stash, settled, arrived)

-----------------------------------------------------------------------------
(* What the operators return of a runtime.                                 *)

LEMMA DeliverableFacts ==
    ASSUME NEW r \in Runtimes
    PROVE  /\ Deliverable(r) \in Seq(Atoms)
           /\ ToSet(Deliverable(r)) \subseteq ToSet(r.queue)
           /\ \A a \in ToSet(Deliverable(r)) : a \in Atoms /\ CanRelease(r, a)
<1> DEFINE free == {a \in Atoms : CanRelease(r, a)}
           able == Within(r.queue, free)
           cut == {b \in Atoms \ {able[1]} : Apart(able[1], b)}
<1>1. r.queue \in Seq(Atoms)
  BY DEF Runtimes
<1>2. able \in Seq(Atoms) /\ ToSet(able) = ToSet(r.queue) \cap free
  <2> HIDE DEF free
  <2> QED BY <1>1, WithinFacts
<1>3. Deliverable(r) = Before(able, cut)
  BY DEF Deliverable
<1>4. Before(able, cut) \in Seq(Atoms) /\ ToSet(Before(able, cut)) \subseteq ToSet(able)
  <2> HIDE DEF able, cut
  <2> QED BY <1>2, BeforeFacts
<1> HIDE DEF able, cut
<1> QED BY <1>2, <1>3, <1>4

LEMMA CohortFacts ==
    ASSUME NEW r \in Runtimes
    PROVE  /\ Cohort(r) \in Seq(Atoms)
           /\ ToSet(Cohort(r)) \subseteq ToSet(r.queue) \ r.turn
           /\ \A a \in ToSet(Cohort(r)) : a \in Atoms /\ MayInterrupt(r, a)
           /\ r.turn = {} => Cohort(r) = <<>>
<1> DEFINE rest == Without(r.queue, r.turn)
           other == {b \in Atoms : \E a \in r.turn : OtherSurface(a, b)}
           near == Before(rest, other)
           free == {a \in Atoms : MayInterrupt(r, a)}
           able == Able(r)
           cut == {b \in Atoms \ {able[1]} : ~Foldable(able[1], b)}
<1>1. r.queue \in Seq(Atoms)
  BY DEF Runtimes
<1>2. rest \in Seq(Atoms) /\ ToSet(rest) = ToSet(r.queue) \ r.turn
  BY <1>1, WithoutFacts
<1>3. near \in Seq(Atoms) /\ ToSet(near) \subseteq ToSet(rest)
  <2> HIDE DEF rest, other
  <2> QED BY <1>2, BeforeFacts
<1>4. Within(near, free) \in Seq(Atoms) /\ ToSet(Within(near, free)) = ToSet(near) \cap free
  <2> HIDE DEF near, free
  <2> QED BY <1>3, WithinFacts
<1>5. able = IF r.turn = {} THEN <<>> ELSE Within(near, free)
  BY DEF Able
<1>6. /\ able \in Seq(Atoms) /\ ToSet(able) \subseteq ToSet(rest) \cap free
      /\ r.turn = {} => able = <<>>
  <2> HIDE DEF able, near, free, rest
  <2> QED BY <1>3, <1>4, <1>5, SingleFacts
<1>7. Cohort(r) = Before(able, cut)
  BY DEF Cohort
<1>8. /\ Before(able, cut) \in Seq(Atoms)
      /\ ToSet(Before(able, cut)) \subseteq ToSet(able)
  <2> HIDE DEF able, cut
  <2> QED BY <1>6, BeforeFacts
<1>9. r.turn = {} => Before(able, cut) = <<>>
  <2> HIDE DEF able, cut
  <2> QED BY <1>6, <1>8, QueueFacts, SingleFacts
<1> HIDE DEF able, cut, rest
<1> QED BY <1>2, <1>6, <1>7, <1>8, <1>9

LEMMA SuccessorsFacts ==
    ASSUME NEW r \in Runtimes, IsInjective(r.queue)
    PROVE  /\ Successors(r) \in Seq(Atoms) /\ IsInjective(Successors(r))
           /\ ToSet(Successors(r)) = IF r.turn = {} THEN {} ELSE ToSet(r.queue) \ r.turn
BY WithoutFacts, SingleFacts DEF Successors, Runtimes

LEMMA RetainedFacts ==
    ASSUME NEW r \in Runtimes, IsInjective(r.queue)
    PROVE  /\ Retained(r) \in Seq(Atoms) /\ IsInjective(Retained(r))
           /\ ToSet(Retained(r)) = IF r.superseded THEN ToSet(r.queue) \ r.turn
                                   ELSE ToSet(r.queue)
BY WithoutFacts DEF Retained, Runtimes

LEMMA CurrentFacts ==
    ASSUME NEW r \in Runtimes, IsInjective(r.queue)
    PROVE  /\ Within(r.queue, r.turn) \in Seq(Atoms) /\ IsInjective(Within(r.queue, r.turn))
           /\ ToSet(Within(r.queue, r.turn)) = ToSet(r.queue) \cap r.turn
BY WithinFacts DEF Runtimes

\* What is carried over was queued, and is not settled.
LEMMA CarriedFacts ==
    ASSUME NEW r, NEW sh, NEW st, NEW ar, Fits(r, sh, st, ar),
           NEW q \in {Carryable(r), CurrentTurn(r, FALSE)}
    PROVE  /\ q \in Seq(Atoms) /\ IsInjective(q)
           /\ ToSet(q) \subseteq ToSet(r.queue) /\ ToSet(q) \cap st = {}
<1>1. r \in Runtimes /\ IsInjective(r.queue) /\ r.superseded \in BOOLEAN
  BY DEF Fits, ApartOK, Runtimes
<1>2. ASSUME NEW s \in {Successors(r), Retained(r), Within(r.queue, r.turn)}
      PROVE  s \in Seq(Atoms) /\ IsInjective(s) /\ ToSet(s) \subseteq ToSet(r.queue)
  BY <1>1, <1>2, SuccessorsFacts, RetainedFacts, CurrentFacts
<1>3. ToSet(Successors(r)) \cap st = {}
  BY <1>1, SuccessorsFacts DEF Fits, OwedOK
<1>4. r.superseded \/ r.turn = {} \/ Replayable(r) => ToSet(Retained(r)) \cap st = {}
  BY <1>1, RetainedFacts DEF Fits, OwedOK
<1>5. ~r.superseded /\ Replayable(r) => ToSet(Within(r.queue, r.turn)) \cap st = {}
  BY <1>1, CurrentFacts DEF Fits, OwedOK
<1>6. CASE q = Carryable(r)
  BY <1>2, <1>3, <1>4, <1>6 DEF Carryable
<1>7. CASE q = CurrentTurn(r, FALSE)
  BY <1>2, <1>3, <1>4, <1>5, <1>7 DEF CurrentTurn
<1> QED BY <1>6, <1>7

\* A turn that is to be reconciled was queued, and is settled no more.
LEMMA ReconciledFacts ==
    ASSUME NEW r, NEW sh, NEW st, NEW ar, Fits(r, sh, st, ar)
    PROVE  LET q == CurrentTurn(r, TRUE) IN
           /\ q \in Seq(Atoms) /\ IsInjective(q)
           /\ ToSet(q) \subseteq ToSet(r.queue)
           /\ ToSet(q) \cap (st \ (r.turn \cap ToSet(q))) = {}
<1>1. r \in Runtimes /\ IsInjective(r.queue) /\ r.superseded \in BOOLEAN
  BY DEF Fits, ApartOK, Runtimes
<1>2. CASE r.superseded
  <2>1. (ToSet(r.queue) \ r.turn) \cap st = {}
    BY DEF Fits, OwedOK
  <2>2. CurrentTurn(r, TRUE) = Retained(r)
    BY <1>2 DEF CurrentTurn
  <2> QED BY <1>1, <1>2, <2>1, <2>2, RetainedFacts
<1>3. CASE ~r.superseded
  <2>1. CurrentTurn(r, TRUE) = Within(r.queue, r.turn)
    BY <1>3 DEF CurrentTurn
  <2> QED BY <1>1, <2>1, CurrentFacts
<1> QED BY <1>2, <1>3

-----------------------------------------------------------------------------
(* The steps that several actions share.                                   *)

\* Another queue for a runtime.
LEMMA Requeued ==
    ASSUME NEW r \in Runtimes, NEW q \in Seq(Atoms)
    PROVE  /\ [r EXCEPT !.queue = q] \in Runtimes
           /\ [r EXCEPT !.queue = q].queue = q
BY DEF Runtimes

\* An arrival is pushed.
LEMMA PushFits ==
    ASSUME NEW r, NEW sh, NEW st, NEW ar, NEW a \in Atoms, Fits(r, sh, st, ar),
           a \notin ToSet(ar), r.life # "none"
    PROVE  Fits([r EXCEPT !.queue = Append(@, a)], sh, st, Append(ar, a))
<1> DEFINE q == Append(r.queue, a)
           p == [r EXCEPT !.queue = q]
<1>1. r \in Runtimes /\ r.queue \in Seq(Atoms) /\ ar \in Seq(Atoms)
  BY DEF Fits, Runtimes
<1>2. /\ q \in Seq(Atoms) /\ ToSet(q) = ToSet(r.queue) \cup {a}
      /\ IsInjective(q) <=> IsInjective(r.queue) /\ a \notin ToSet(r.queue)
      /\ Append(ar, a) \in Seq(Atoms) /\ ToSet(Append(ar, a)) = ToSet(ar) \cup {a}
  BY <1>1, AppendFacts
<1>3. /\ p \in Runtimes /\ p.queue = q
      /\ p.life = r.life /\ p.gen = r.gen /\ p.turn = r.turn /\ p.active = r.active
      /\ p.superseded = r.superseded /\ p.interrupted = r.interrupted /\ p.latch = r.latch
      /\ p.ahead = r.ahead /\ p.effects = r.effects
  BY <1>1, <1>2 DEF Runtimes
<1> HIDE DEF q, p
<1>4. a \notin ToSet(sh) /\ a \notin ToSet(r.queue) /\ a \notin st
  BY DEF Fits, KnownOK
<1>5. ApartOK(p, sh)
  BY <1>2, <1>3, <1>4 DEF Fits, ApartOK
<1>6. KnownOK(p, sh, st, Append(ar, a))
  BY <1>2, <1>3 DEF Fits, KnownOK
<1>7. OwedOK(p, sh, st)
  BY <1>2, <1>3, <1>4 DEF Fits, OwedOK, Replayable
<1>8. PlacesOK(p) /\ FlagsOK(p)
  BY <1>3 DEF Fits, PlacesOK, FlagsOK
<1>9. Fits(p, sh, st, Append(ar, a))
  BY <1>2, <1>3, <1>5, <1>6, <1>7, <1>8 DEF Fits
<1> QED BY <1>9 DEF p, q

\* A turn that is interrupted by a successor.
LEMMA InterruptFits ==
    ASSUME NEW r, NEW ar, Fits(r, stash, settled, ar), Interrupt(r),
           carries \in [Atoms -> SUBSET Atoms], promised \subseteq Atoms
    PROVE  /\ Fits(rt', stash, settled', ar)
           /\ carries' \in [Atoms -> SUBSET Atoms] /\ promised' \subseteq Atoms
           /\ rt'.gen = r.gen
<1> DEFINE fold == Cohort(r)
           lead == fold[Len(fold)]
           now == Within(r.queue, r.turn)
           rest == Without(r.queue, r.turn \cup ToSet(fold))
           q == now \o <<lead>> \o rest
<1>1. r \in Runtimes /\ r.queue \in Seq(Atoms) /\ IsInjective(r.queue)
  BY DEF Fits, ApartOK, Runtimes
<1>2. CASE fold = <<>>
  BY <1>2 DEF Interrupt
<1>3. CASE fold # <<>>
  <2>1. /\ rt' = [r EXCEPT !.queue = q, !.superseded = TRUE, !.interrupted = TRUE]
        /\ carries' = [carries EXCEPT ![lead] = UNION {carries[a] : a \in ToSet(fold)}]
        /\ settled' = settled \cup r.turn
        /\ promised' = {lead}
    BY <1>3 DEF Interrupt
  <2>2. /\ fold \in Seq(Atoms) /\ lead \in ToSet(fold)
        /\ ToSet(fold) \subseteq ToSet(r.queue) \ r.turn
        /\ ToSet(fold) \subseteq Atoms /\ lead \in Atoms
        /\ MayInterrupt(r, lead)
    <3>1. /\ fold \in Seq(Atoms) /\ ToSet(fold) \subseteq ToSet(r.queue) \ r.turn
          /\ \A a \in ToSet(fold) : a \in Atoms /\ MayInterrupt(r, a)
      BY <1>1, CohortFacts
    <3> HIDE DEF fold
    <3>2. lead \in ToSet(fold)
      BY <3>1, <1>3, QueueFacts
    <3> QED BY <3>1, <3>2
  <2>3. /\ now \in Seq(Atoms) /\ IsInjective(now) /\ ToSet(now) = ToSet(r.queue) \cap r.turn
    BY <1>1, CurrentFacts
  <2>4. /\ rest \in Seq(Atoms) /\ IsInjective(rest)
        /\ ToSet(rest) = ToSet(r.queue) \ (r.turn \cup ToSet(fold))
    BY <1>1, WithoutFacts
  <2> HIDE DEF fold, lead, now, rest
  <2>5. <<lead>> \in Seq(Atoms) /\ ToSet(<<lead>>) = {lead} /\ IsInjective(<<lead>>)
    BY <2>2, SingleFacts
  <2>6. /\ now \o <<lead>> \in Seq(Atoms) /\ ToSet(now \o <<lead>>) = ToSet(now) \cup {lead}
        /\ IsInjective(now \o <<lead>>)
    <3>1. ToSet(now) \cap ToSet(<<lead>>) = {}
      BY <2>2, <2>3, <2>5
    <3> QED BY <2>3, <2>5, <3>1, ConcatFacts
  <2>7. /\ q \in Seq(Atoms) /\ ToSet(q) = ToSet(now) \cup {lead} \cup ToSet(rest)
        /\ IsInjective(q)
    <3>1. ToSet(now \o <<lead>>) \cap ToSet(rest) = {}
      BY <2>2, <2>3, <2>4, <2>6
    <3> QED BY <2>4, <2>6, <3>1, ConcatFacts
  <2>8. ToSet(q) \subseteq ToSet(r.queue) /\ ToSet(q) \ r.turn \subseteq ToSet(r.queue) \ r.turn
    BY <2>2, <2>3, <2>4, <2>7
  <2> HIDE DEF q
  <2>9. /\ rt' \in Runtimes /\ rt'.queue = q /\ rt'.superseded /\ rt'.interrupted
        /\ rt'.life = r.life /\ rt'.gen = r.gen /\ rt'.turn = r.turn /\ rt'.active = r.active
        /\ rt'.latch = r.latch
    BY <1>1, <2>1, <2>7 DEF Runtimes
  <2>10. r.life = "up" /\ r.active /\ r.turn \subseteq Atoms /\ r.turn \subseteq ToSet(ar)
    BY <1>1, <2>2 DEF MayInterrupt, Fits, KnownOK, Runtimes
  <2>11. PlacesOK(rt') /\ FlagsOK(rt')
    BY <2>9, <2>10 DEF Fits, PlacesOK, FlagsOK
  <2>12. ApartOK(rt', stash) /\ KnownOK(rt', stash, settled', ar)
    BY <2>1, <2>7, <2>8, <2>9, <2>10 DEF Fits, ApartOK, KnownOK
  <2>13. ToSet(stash) \cap r.turn = {}
    BY DEF Fits, ApartOK
  <2>14. OwedOK(rt', stash, settled')
    BY <2>1, <2>8, <2>9, <2>13 DEF Fits, OwedOK
  <2>15. /\ carries' \in [Atoms -> SUBSET Atoms] /\ promised' \subseteq Atoms
         /\ settled' \subseteq Atoms
    <3>1. UNION {carries[a] : a \in ToSet(fold)} \subseteq Atoms
      BY <2>2
    <3> QED BY <2>1, <2>2, <2>10, <3>1 DEF Fits
  <2> QED BY <2>9, <2>11, <2>12, <2>14, <2>15 DEF Fits
<1> QED BY <1>2, <1>3

\* The head of the generator's loop, between turns.
LEMMA ScanFits ==
    ASSUME NEW r, NEW sh, NEW st, NEW ar, Fits(r, sh, st, ar), Scan(r),
           r.turn = {}, ~r.active, ~r.superseded, ~r.interrupted,
           r.gen \in {"fresh", "waiting", "ended"},
           stamped \subseteq Atoms, promised \subseteq Atoms
    PROVE  /\ Fits(rt', sh, st, ar)
           /\ stamped' \subseteq Atoms /\ promised' \subseteq Atoms
           /\ rt'.turn \cap st = {}
<1> DEFINE d == ToSet(Deliverable(r))
<1>1. r \in Runtimes /\ d \subseteq ToSet(r.queue) /\ d \subseteq Atoms
  BY DeliverableFacts DEF Fits
<1>2. r.life = "up"
  BY DEF Fits, PlacesOK
<1>3. ToSet(r.queue) \cap st = {}
  BY DEF Fits, OwedOK
<1>4. CASE d = {}
  <2>1. rt' = [r EXCEPT !.gen = "waiting", !.wake = FALSE] /\ UNCHANGED <<stamped, promised>>
    BY <1>4 DEF Scan
  <2>2. /\ rt' \in Runtimes /\ rt'.queue = r.queue /\ rt'.gen = "waiting"
        /\ rt'.life = r.life /\ rt'.turn = r.turn /\ rt'.active = r.active
        /\ rt'.superseded = r.superseded /\ rt'.interrupted = r.interrupted
    BY <1>1, <2>1 DEF Runtimes, Places
  <2>3. PlacesOK(rt') /\ FlagsOK(rt')
    BY <1>2, <2>2 DEF PlacesOK, FlagsOK
  <2>4. ApartOK(rt', sh) /\ KnownOK(rt', sh, st, ar) /\ OwedOK(rt', sh, st)
    BY <1>3, <2>2 DEF Fits, ApartOK, KnownOK, OwedOK
  <2> QED BY <2>1, <2>2, <2>3, <2>4 DEF Fits
<1>5. CASE d # {}
  <2>1. /\ rt' = [r EXCEPT !.gen = "preparing", !.turn = d, !.active = TRUE,
                          !.latch = "none", !.effects = {}, !.superseded = FALSE,
                          !.timer = FALSE, !.wake = r.wake /\ r.gen # "waiting"]
        /\ stamped' = stamped \cup d
        /\ promised' = {}
    BY <1>5 DEF Scan
  <2> HIDE DEF d
  <2>2. /\ rt' \in Runtimes /\ rt'.queue = r.queue /\ rt'.gen = "preparing"
        /\ rt'.life = r.life /\ rt'.turn = d /\ rt'.active /\ rt'.latch = "none"
        /\ ~rt'.superseded /\ rt'.interrupted = r.interrupted
    BY <1>1, <2>1 DEF Runtimes, Places
  <2>3. PlacesOK(rt') /\ FlagsOK(rt')
    BY <1>2, <2>2 DEF PlacesOK, FlagsOK
  <2>4. ApartOK(rt', sh) /\ KnownOK(rt', sh, st, ar) /\ OwedOK(rt', sh, st)
    BY <1>1, <1>3, <2>2 DEF Fits, ApartOK, KnownOK, OwedOK
  <2> QED BY <1>1, <1>3, <2>1, <2>2, <2>3, <2>4 DEF Fits
<1> QED BY <1>4, <1>5

\* A name without a runtime, and one for which a start was asked.
LEMMA GoneFacts ==
    /\ Gone \in Runtimes /\ Gone.life = "none" /\ Gone.queue = <<>> /\ Gone.gen = "none"
    /\ Gone.turn = {} /\ ~Gone.active /\ ~Gone.superseded /\ ~Gone.interrupted
    /\ \A q \in Seq(Atoms) :
          LET r == Asked(q) IN
          /\ r \in Runtimes /\ r.life = "asked" /\ r.queue = q /\ r.gen = "none"
          /\ r.turn = {} /\ ~r.active /\ ~r.superseded /\ ~r.interrupted
    /\ <<>> \in Seq(Atoms)
<1>1. <<>> \in Seq(Atoms)
  OBVIOUS
<1>2. Gone \in Runtimes
  BY <1>1 DEF Gone, Runtimes, Lives, Places, Tools
<1>3. /\ Gone.life = "none" /\ Gone.queue = <<>> /\ Gone.gen = "none"
      /\ Gone.turn = {} /\ ~Gone.active /\ ~Gone.superseded /\ ~Gone.interrupted
  BY DEF Gone
<1>4. ASSUME NEW q \in Seq(Atoms), NEW r, r = Asked(q)
      PROVE  /\ r \in Runtimes /\ r.life = "asked" /\ r.queue = q /\ r.gen = "none"
             /\ r.turn = {} /\ ~r.active /\ ~r.superseded /\ ~r.interrupted
  BY <1>2, <1>3, <1>4 DEF Asked, Runtimes, Lives
<1> QED BY <1>1, <1>2, <1>3, <1>4

\* A runtime that is gone or starts anew, over a stash of atoms that are owed.
LEMMA AnewFits ==
    ASSUME NEW r \in {Gone, Asked(<<>>)}, NEW sh \in Seq(Atoms), IsInjective(sh),
           NEW st, NEW ar \in Seq(Atoms), st \subseteq ToSet(ar),
           ToSet(sh) \subseteq ToSet(ar), ToSet(sh) \cap st = {}
    PROVE  Fits(r, sh, st, ar)
<1>1. r \in Runtimes
  BY GoneFacts
<1>2. /\ r.queue = <<>> /\ r.turn = {} /\ ~r.active /\ r.gen = "none" /\ r.life # "up"
      /\ ~r.interrupted /\ ~r.superseded
  BY GoneFacts
<1>3. ToSet(ar) \subseteq Atoms
  BY QueueFacts
<1>4. PlacesOK(r) /\ FlagsOK(r)
  BY <1>2 DEF PlacesOK, FlagsOK
<1>5. ApartOK(r, sh) /\ KnownOK(r, sh, st, ar) /\ OwedOK(r, sh, st)
  BY <1>2, SingleFacts DEF ApartOK, KnownOK, OwedOK
<1> QED BY <1>1, <1>3, <1>4, <1>5 DEF Fits

-----------------------------------------------------------------------------
(* The actions of the dispatcher keep the invariant.                       *)

\* The rest of a runtime does not matter to what is owed.
LEMMA SameFits ==
    ASSUME NEW r, NEW sh, NEW st, NEW ar, Fits(r, sh, st, ar), NEW s \in Runtimes,
           s.life = r.life, s.gen = r.gen, s.turn = r.turn, s.active = r.active,
           s.queue = r.queue, s.superseded = r.superseded, s.interrupted = r.interrupted,
           s.latch = r.latch, s.ahead = r.ahead, s.effects = r.effects
    PROVE  Fits(s, sh, st, ar)
<1>1. Replayable(s) = Replayable(r)
  BY DEF Replayable
<1>2. PlacesOK(s) /\ FlagsOK(s)
  BY DEF Fits, PlacesOK, FlagsOK
<1>3. ApartOK(s, sh) /\ KnownOK(s, sh, st, ar) /\ OwedOK(s, sh, st)
  BY <1>1 DEF Fits, ApartOK, KnownOK, OwedOK
<1> QED BY <1>2, <1>3 DEF Fits

LEMMA PromptFits ==
    ASSUME QueueInv, NEW a \in Atoms, Prompt(a)
    PROVE  QueueInv'
<1> DEFINE pushed == [rt EXCEPT !.queue = Append(@, a)]
<1>1. /\ a \notin ToSet(arrived) /\ arrived' = Append(arrived, a)
      /\ UNCHANGED <<lane, task, taskEvent, told>>
  BY DEF Prompt
<1>2. /\ rt \in Runtimes /\ rt.queue \in Seq(Atoms) /\ stash \in Seq(Atoms)
      /\ arrived \in Seq(Atoms) /\ Fits(rt, stash, settled, arrived)
  BY DEF QueueInv, Fits, Runtimes
<1>3. /\ arrived' \in Seq(Atoms) /\ ToSet(arrived') = ToSet(arrived) \cup {a}
  BY <1>1, <1>2, AppendFacts
<1>4. a \notin ToSet(stash) /\ a \notin ToSet(rt.queue) /\ a \notin rt.turn /\ a \notin settled
  BY <1>1, <1>2 DEF Fits, KnownOK
<1>5. rt.life # "none" => Fits(pushed, stash, settled, arrived')
  BY <1>1, <1>2, PushFits
<1>6. /\ pushed \in Runtimes
      /\ pushed.life = rt.life /\ pushed.gen = rt.gen /\ pushed.turn = rt.turn
      /\ pushed.active = rt.active /\ pushed.superseded = rt.superseded
      /\ pushed.interrupted = rt.interrupted
  BY <1>2, AppendFacts DEF Runtimes
<1>7. /\ rt.life = "up" <=> rt.gen # "none"
      /\ rt.gen = "waiting" => /\ rt.turn = {} /\ ~rt.active /\ ~rt.superseded
                               /\ ~rt.interrupted
  BY <1>2 DEF Fits, PlacesOK, FlagsOK
<1> HIDE DEF pushed
<1>8. CASE /\ rt.life = "none" /\ rt' = Asked(<<a>>)
           /\ UNCHANGED <<stash, stamped, carries, settled, promised>>
  <2>1. <<a>> \in Seq(Atoms) /\ ToSet(<<a>>) = {a} /\ IsInjective(<<a>>)
    BY SingleFacts
  <2>2. /\ rt' \in Runtimes /\ rt'.life = "asked" /\ rt'.queue = <<a>> /\ rt'.gen = "none"
        /\ rt'.turn = {} /\ ~rt'.active /\ ~rt'.superseded /\ ~rt'.interrupted
    BY <1>8, <2>1, GoneFacts
  <2>3. PlacesOK(rt') /\ FlagsOK(rt')
    BY <2>2 DEF PlacesOK, FlagsOK
  <2>4. ApartOK(rt', stash)
    BY <1>2, <1>4, <2>1, <2>2 DEF Fits, ApartOK
  <2>5. KnownOK(rt', stash, settled, arrived') /\ OwedOK(rt', stash, settled)
    BY <1>2, <1>3, <1>4, <2>1, <2>2 DEF Fits, KnownOK, OwedOK
  <2>6. Fits(rt', stash, settled, arrived')
    BY <1>2, <1>3, <2>2, <2>3, <2>4, <2>5 DEF Fits
  <2> QED BY <1>1, <1>8, <2>6 DEF QueueInv, OthersOK
<1>9. CASE /\ rt.life = "asked" /\ stash' = Append(stash, a)
           /\ UNCHANGED <<rt, stamped, carries, settled, promised>>
  <2>1. /\ stash' \in Seq(Atoms) /\ ToSet(stash') = ToSet(stash) \cup {a}
        /\ IsInjective(stash') <=> IsInjective(stash) /\ a \notin ToSet(stash)
    BY <1>2, <1>9, AppendFacts
  <2>2. ApartOK(rt, stash')
    BY <1>2, <1>4, <2>1 DEF Fits, ApartOK
  <2>3. KnownOK(rt, stash', settled, arrived') /\ OwedOK(rt, stash', settled)
    BY <1>2, <1>3, <1>4, <2>1 DEF Fits, KnownOK, OwedOK
  <2>4. Fits(rt, stash', settled, arrived')
    BY <1>2, <1>3, <2>1, <2>2, <2>3 DEF Fits
  <2> QED BY <1>1, <1>9, <2>4 DEF QueueInv, OthersOK
<1>10. CASE /\ rt.life = "launching" /\ rt' = pushed
            /\ UNCHANGED <<stash, stamped, carries, settled, promised>>
  BY <1>1, <1>5, <1>10 DEF QueueInv, OthersOK
<1>11. CASE /\ rt.gen = "waiting"
            /\ IF Deliverable(pushed) = <<>>
               THEN rt' = pushed /\ UNCHANGED <<stamped, promised>>
               ELSE Scan(pushed)
            /\ UNCHANGED <<stash, carries, settled>>
  <2>1. Fits(pushed, stash, settled, arrived')
    BY <1>5, <1>7, <1>11
  <2>2. CASE Deliverable(pushed) = <<>>
    BY <1>1, <1>11, <2>1, <2>2 DEF QueueInv, OthersOK
  <2>3. CASE Deliverable(pushed) # <<>>
    <3>1. Scan(pushed) /\ stamped \subseteq Atoms /\ promised \subseteq Atoms
      BY <1>11, <2>3 DEF QueueInv, OthersOK
    <3>2. /\ Fits(rt', stash, settled, arrived')
          /\ stamped' \subseteq Atoms /\ promised' \subseteq Atoms
      BY <1>6, <1>7, <1>11, <2>1, <3>1, ScanFits
    <3> QED BY <1>1, <1>11, <3>2 DEF QueueInv, OthersOK
  <2> QED BY <2>2, <2>3
<1>12. CASE MayInterrupt(pushed, a) /\ Interrupt(pushed) /\ UNCHANGED <<stash, stamped>>
  <2>1. rt.life = "up"
    BY <1>6, <1>12 DEF MayInterrupt
  <2>2. /\ Fits(pushed, stash, settled, arrived')
        /\ carries \in [Atoms -> SUBSET Atoms] /\ promised \subseteq Atoms
    BY <1>5, <2>1 DEF QueueInv, OthersOK
  <2>3. /\ Fits(rt', stash, settled', arrived')
        /\ carries' \in [Atoms -> SUBSET Atoms] /\ promised' \subseteq Atoms
    BY <1>12, <2>2, InterruptFits
  <2> QED BY <1>1, <1>12, <2>3 DEF QueueInv, OthersOK
<1>13. CASE /\ rt.life = "up" /\ rt.gen # "waiting"
            /\ \E idleGap \in BOOLEAN :
                  rt' = [pushed EXCEPT !.wake = @ \/ idleGap, !.timer = @ \/ idleGap]
            /\ UNCHANGED <<stash, stamped, carries, settled, promised>>
  <2>1. Fits(pushed, stash, settled, arrived')
    BY <1>5, <1>13
  <2>2. Fits(rt', stash, settled, arrived')
    <3>1. /\ rt' \in Runtimes
          /\ rt'.life = pushed.life /\ rt'.gen = pushed.gen /\ rt'.turn = pushed.turn
          /\ rt'.active = pushed.active /\ rt'.queue = pushed.queue
          /\ rt'.superseded = pushed.superseded /\ rt'.interrupted = pushed.interrupted
          /\ rt'.latch = pushed.latch /\ rt'.ahead = pushed.ahead
          /\ rt'.effects = pushed.effects
      BY <1>6, <1>13 DEF Runtimes
    <3> QED BY <2>1, <3>1, SameFits
  <2> QED BY <1>1, <1>13, <2>2 DEF QueueInv, OthersOK
<1>14. (~rt.compacting /\ ~rt.active) \in BOOLEAN
  OBVIOUS
<1> QED BY <1>8, <1>9, <1>10, <1>11, <1>12, <1>13, <1>14 DEF Prompt, pushed

LEMMA StartFits ==
    ASSUME QueueInv, Launch \/ Built \/ LaunchFails
    PROVE  QueueInv'
<1>1. /\ rt \in Runtimes /\ Fits(rt, stash, settled, arrived)
      /\ rt.queue \in Seq(Atoms)
  BY DEF QueueInv, Fits, Runtimes
<1>2. CASE Launch
  <2>1. /\ rt' \in Runtimes /\ rt'.life = "launching" /\ rt.life = "asked"
        /\ rt'.gen = rt.gen /\ rt'.turn = rt.turn /\ rt'.active = rt.active
        /\ rt'.queue = rt.queue /\ rt'.superseded = rt.superseded
        /\ rt'.interrupted = rt.interrupted /\ rt'.latch = rt.latch
        /\ rt'.ahead = rt.ahead /\ rt'.effects = rt.effects
    BY <1>1, <1>2 DEF Launch, Runtimes, Lives
  <2>2. PlacesOK(rt') /\ FlagsOK(rt')
    BY <1>1, <2>1 DEF Fits, PlacesOK, FlagsOK
  <2>3. /\ ApartOK(rt', stash) /\ KnownOK(rt', stash, settled, arrived)
        /\ OwedOK(rt', stash, settled)
    BY <1>1, <2>1 DEF Fits, ApartOK, KnownOK, OwedOK, Replayable
  <2>4. Fits(rt', stash, settled, arrived)
    BY <1>1, <2>1, <2>2, <2>3 DEF Fits
  <2> QED BY <1>2, <2>4 DEF QueueInv, OthersOK, Launch, history
<1>3. CASE Built
  <2>0. \E ahead \in BOOLEAN : \E reconciles \in BOOLEAN :
           rt' = [rt EXCEPT !.life = "up", !.gen = "fresh", !.ahead = ahead,
                            !.reconciles = reconciles]
    <3>1. PICK kind \in Providers :
             rt' = [rt EXCEPT !.life = "up", !.gen = "fresh", !.ahead = (kind = "ahead"),
                              !.reconciles = (kind = "reconciling")]
      BY <1>3 DEF Built
    <3>2. (kind = "ahead") \in BOOLEAN /\ (kind = "reconciling") \in BOOLEAN
      OBVIOUS
    <3> QED BY <3>1, <3>2
  <2>1. /\ rt' \in Runtimes /\ rt'.life = "up" /\ rt.life = "launching"
        /\ rt'.gen = "fresh" /\ rt'.turn = rt.turn /\ rt'.active = rt.active
        /\ rt'.queue = rt.queue /\ rt'.superseded = rt.superseded
        /\ rt'.interrupted = rt.interrupted
    <3>1. rt.life = "launching"
      BY <1>3 DEF Built
    <3> QED BY <1>1, <2>0, <3>1 DEF Runtimes, Lives, Places
  <2>2. rt.gen = "none" /\ rt.turn = {} /\ ~rt.active /\ ~rt.superseded /\ ~rt.interrupted
    BY <1>1, <2>1 DEF Fits, PlacesOK, FlagsOK
  <2>3. PlacesOK(rt') /\ FlagsOK(rt')
    BY <2>1, <2>2 DEF PlacesOK, FlagsOK
  <2>4. /\ ApartOK(rt', stash) /\ KnownOK(rt', stash, settled, arrived)
        /\ OwedOK(rt', stash, settled)
    BY <1>1, <2>1, <2>2 DEF Fits, ApartOK, KnownOK, OwedOK
  <2>5. Fits(rt', stash, settled, arrived)
    BY <1>1, <2>1, <2>3, <2>4 DEF Fits
  <2> QED BY <1>3, <2>5 DEF QueueInv, OthersOK, Built, history
<1>4. CASE LaunchFails
  <2>1. /\ stash \in Seq(Atoms) /\ IsInjective(stash) /\ settled \subseteq ToSet(arrived)
        /\ arrived \in Seq(Atoms) /\ ToSet(stash) \subseteq ToSet(arrived)
        /\ ToSet(stash) \cap settled = {}
    BY <1>1 DEF Fits, ApartOK, KnownOK, OwedOK
  <2>2. Fits(Gone, stash, settled, arrived)
    BY <2>1, AnewFits
  <2>3. (IF rt.queue = <<>> THEN {} ELSE {Head(rt.queue)}) \subseteq Atoms
    BY <1>1
  <2> QED BY <1>4, <2>2, <2>3 DEF QueueInv, OthersOK, LaunchFails
<1> QED BY <1>2, <1>3, <1>4

\* What a replaced runtime leaves behind.
LEMMA SavedFacts ==
    ASSUME QueueInv, NEW q \in {Carryable(rt), CurrentTurn(rt, FALSE)},
           NEW r \in {Gone, Asked(<<>>)}
    PROVE  Fits(r, IF q = <<>> THEN stash ELSE q, settled, arrived)
<1>1. /\ Fits(rt, stash, settled, arrived) /\ stash \in Seq(Atoms) /\ IsInjective(stash)
      /\ settled \subseteq ToSet(arrived)
      /\ arrived \in Seq(Atoms) /\ ToSet(stash) \subseteq ToSet(arrived)
      /\ ToSet(stash) \cap settled = {} /\ ToSet(rt.queue) \subseteq ToSet(arrived)
  BY DEF QueueInv, Fits, ApartOK, KnownOK, OwedOK
<1>2. /\ q \in Seq(Atoms) /\ IsInjective(q)
      /\ ToSet(q) \subseteq ToSet(rt.queue) /\ ToSet(q) \cap settled = {}
  BY <1>1, CarriedFacts
<1> DEFINE sh == IF q = <<>> THEN stash ELSE q
<1>3. /\ sh \in Seq(Atoms) /\ IsInjective(sh)
      /\ ToSet(sh) \subseteq ToSet(arrived) /\ ToSet(sh) \cap settled = {}
  BY <1>1, <1>2
<1> HIDE DEF sh
<1>4. Fits(r, sh, settled, arrived)
  BY <1>1, <1>3, AnewFits
<1> QED BY <1>4 DEF sh

\* The runtime of the name is replaced, or given up.
LEMMA ReplaceFits ==
    ASSUME QueueInv, NEW q \in {Carryable(rt), CurrentTurn(rt, FALSE)}, NEW found,
           Replace(IF q = <<>> THEN stash ELSE q, found), UNCHANGED settled
    PROVE  QueueInv'
<1>1. rt' \in {Gone, Asked(<<>>)}
  BY DEF Replace
<1>2. /\ stash' = IF q = <<>> THEN stash ELSE q
      /\ UNCHANGED <<lane, stamped, carries, task, taskEvent, arrived, settled, told, promised>>
  BY Zenon DEF Replace
<1>3. Fits(rt', stash', settled, arrived)
  BY <1>1, <1>2, SavedFacts
<1> QED BY <1>2, <1>3 DEF QueueInv, OthersOK

LEMMA AbortFits ==
    ASSUME QueueInv, Abort \/ SwitchModel \/ IdleGap \/ RecoverFailed \/ RetryCredential
                       \/ LoopEnds
    PROVE  QueueInv'
<1>1. rt \in Runtimes /\ Fits(rt, stash, settled, arrived)
  BY DEF QueueInv, Fits
<1>2. Saved(rt) = IF Carryable(rt) = <<>> THEN stash ELSE Carryable(rt)
  BY DEF Saved
<1>3. CASE Abort
  <2>1. UNCHANGED <<lane, stamped, carries, task, taskEvent, arrived, settled, told, promised>>
    BY <1>3 DEF Abort, history
  <2>2. CASE rt.tool \in {"unsafe", "delivering"}
    <3>1. rt' = [rt EXCEPT !.pendingAbort = TRUE] /\ UNCHANGED stash
      BY <1>3, <2>2 DEF Abort
    <3>2. /\ rt' \in Runtimes
          /\ rt'.life = rt.life /\ rt'.gen = rt.gen /\ rt'.turn = rt.turn
          /\ rt'.active = rt.active /\ rt'.queue = rt.queue
          /\ rt'.superseded = rt.superseded /\ rt'.interrupted = rt.interrupted
          /\ rt'.latch = rt.latch /\ rt'.ahead = rt.ahead /\ rt'.effects = rt.effects
      BY <1>1, <3>1 DEF Runtimes
    <3>3. Fits(rt', stash, settled, arrived)
      BY <1>1, <3>2, SameFits
    <3> QED BY <2>1, <3>1, <3>3 DEF QueueInv, OthersOK
  <2>3. CASE rt.tool \notin {"unsafe", "delivering"}
    <3>1. rt' = Gone /\ stash' = Saved(rt)
      BY <1>3, <2>3 DEF Abort
    <3>2. Fits(rt', stash', settled, arrived)
      BY <1>2, <3>1, SavedFacts
    <3> QED BY <2>1, <3>2 DEF QueueInv, OthersOK
  <2> QED BY <2>2, <2>3
<1>4. CASE SwitchModel
  <2>1. Replace(Saved(rt), rt.queue # <<>> /\ Saved(rt) # <<>>) /\ UNCHANGED settled
    BY <1>4 DEF SwitchModel
  <2> QED BY <1>2, <2>1, ReplaceFits
<1>5. CASE IdleGap
  <2>1. UNCHANGED <<lane, stamped, carries, task, taskEvent, arrived, settled, told, promised>>
    BY <1>5 DEF IdleGap, history
  <2>2. CASE rt' \in {Gone, Asked(<<>>)} /\ stash' = Saved(rt)
    <3>1. Fits(rt', stash', settled, arrived)
      BY <1>2, <2>2, SavedFacts
    <3> QED BY <2>1, <3>1 DEF QueueInv, OthersOK
  <2>3. CASE rt' = [rt EXCEPT !.timer = FALSE] /\ UNCHANGED stash
    <3>1. /\ rt' \in Runtimes
          /\ rt'.life = rt.life /\ rt'.gen = rt.gen /\ rt'.turn = rt.turn
          /\ rt'.active = rt.active /\ rt'.queue = rt.queue
          /\ rt'.superseded = rt.superseded /\ rt'.interrupted = rt.interrupted
          /\ rt'.latch = rt.latch /\ rt'.ahead = rt.ahead /\ rt'.effects = rt.effects
      BY <1>1, <2>3 DEF Runtimes
    <3>2. Fits(rt', stash, settled, arrived)
      BY <1>1, <3>1, SameFits
    <3> QED BY <2>1, <2>3, <3>2 DEF QueueInv, OthersOK
  <2> QED BY <1>5, <2>2, <2>3 DEF IdleGap
<1>6. CASE RecoverFailed
  <2>1. Replace(Saved(rt), Carryable(rt) # <<>>) /\ UNCHANGED settled
    BY <1>6 DEF RecoverFailed
  <2> QED BY <1>2, <2>1, ReplaceFits
<1>7. CASE RetryCredential
  <2> DEFINE q == CurrentTurn(rt, FALSE)
  <2>1. Replace(q, TRUE) /\ q # <<>> /\ UNCHANGED settled
    BY <1>7 DEF RetryCredential
  <2>2. Replace(IF q = <<>> THEN stash ELSE q, TRUE)
    BY <2>1
  <2> HIDE DEF q
  <2> QED BY <2>1, <2>2, ReplaceFits DEF q
<1>8. CASE LoopEnds
  <2> DEFINE sh == IF Rest = <<>> THEN stash ELSE Rest
  <2>1. Replace(sh, Rest # <<>>) /\ settled' = settled \ Ambiguous
    BY <1>8 DEF LoopEnds
  <2>2. CASE Rest = CurrentTurn(rt, TRUE) /\ Ambiguous = rt.turn \cap ToSet(Rest)
    <3>1. /\ stash \in Seq(Atoms) /\ IsInjective(stash) /\ settled \subseteq ToSet(arrived)
          /\ arrived \in Seq(Atoms) /\ ToSet(stash) \subseteq ToSet(arrived)
          /\ ToSet(stash) \cap settled = {} /\ ToSet(rt.queue) \subseteq ToSet(arrived)
      BY <1>1 DEF Fits, ApartOK, KnownOK, OwedOK
    <3>2. /\ Rest \in Seq(Atoms) /\ IsInjective(Rest) /\ ToSet(Rest) \subseteq ToSet(rt.queue)
          /\ ToSet(Rest) \cap settled' = {}
      BY <1>1, <2>1, <2>2, ReconciledFacts
    <3>3. /\ sh \in Seq(Atoms) /\ IsInjective(sh) /\ ToSet(sh) \subseteq ToSet(arrived)
          /\ ToSet(sh) \cap settled' = {} /\ settled' \subseteq ToSet(arrived)
      BY <2>1, <3>1, <3>2
    <3> HIDE DEF sh
    <3>4. rt' \in {Gone, Asked(<<>>)} /\ stash' = sh
      BY <2>1 DEF Replace
    <3>5. Fits(rt', stash', settled', arrived)
      BY <3>1, <3>3, <3>4, AnewFits
    <3> QED BY <2>1, <3>5 DEF QueueInv, OthersOK, Replace
  <2>3. CASE UNCHANGED settled /\ Rest = <<>>
    <3>1. stash' = stash
      BY <2>1, <2>3 DEF Replace
    <3>2. Fits(rt', stash, settled, arrived)
      <4>1. /\ stash \in Seq(Atoms) /\ IsInjective(stash) /\ settled \subseteq ToSet(arrived)
            /\ arrived \in Seq(Atoms) /\ ToSet(stash) \subseteq ToSet(arrived)
            /\ ToSet(stash) \cap settled = {}
        BY <1>1 DEF Fits, ApartOK, KnownOK, OwedOK
      <4>2. rt' \in {Gone, Asked(<<>>)}
        BY <2>1 DEF Replace
      <4> QED BY <4>1, <4>2, AnewFits
    <3> QED BY <2>1, <2>3, <3>1, <3>2 DEF QueueInv, OthersOK, Replace
  <2>4. CASE UNCHANGED settled /\ Rest \in {Saved(rt), CurrentTurn(rt, FALSE)}
    <3>1. CASE sh = stash
      <4>1. /\ stash \in Seq(Atoms) /\ IsInjective(stash) /\ settled \subseteq ToSet(arrived)
            /\ arrived \in Seq(Atoms) /\ ToSet(stash) \subseteq ToSet(arrived)
            /\ ToSet(stash) \cap settled = {}
        BY <1>1 DEF Fits, ApartOK, KnownOK, OwedOK
      <4>2. rt' \in {Gone, Asked(<<>>)} /\ stash' = stash
        BY <2>1, <3>1 DEF Replace
      <4>3. Fits(rt', stash', settled, arrived)
        BY <4>1, <4>2, AnewFits
      <4> QED BY <2>1, <2>4, <4>3 DEF QueueInv, OthersOK, Replace
    <3>2. CASE sh # stash
      <4>1. \/ sh = IF Carryable(rt) = <<>> THEN stash ELSE Carryable(rt)
            \/ sh = IF CurrentTurn(rt, FALSE) = <<>> THEN stash ELSE CurrentTurn(rt, FALSE)
        BY <1>2, <2>4, <3>2
      <4> HIDE DEF sh
      <4> QED BY <2>1, <2>4, <4>1, ReplaceFits
    <3> QED BY <3>1, <3>2
  <2>5. \/ Rest = CurrentTurn(rt, TRUE) /\ Ambiguous = rt.turn \cap ToSet(Rest)
        \/ Ambiguous = {} /\ Rest \in {<<>>, Saved(rt), CurrentTurn(rt, FALSE)}
    <3>1. rt.reconciles \in BOOLEAN
      BY <1>1 DEF Runtimes
    <3>2. CASE InTurn /\ rt.tool = "none"
      <4>1. rt.gen # "broken"
        BY <3>2 DEF InTurn
      <4>2. Rest = CurrentTurn(rt, rt.reconciles)
        BY <3>2, <4>1 DEF Rest
      <4> QED BY <3>1, <3>2, <4>2 DEF Ambiguous
    <3>3. CASE ~(InTurn /\ rt.tool = "none")
      <4>1. Ambiguous = {}
        BY <3>3 DEF Ambiguous
      <4>2. Rest \in {<<>>, Saved(rt)}
        BY <3>3 DEF Rest
      <4> QED BY <4>1, <4>2
    <3> QED BY <3>2, <3>3
  <2>6. Ambiguous = {} => UNCHANGED settled
    BY <2>1
  <2> HIDE DEF sh
  <2> QED BY <2>2, <2>3, <2>4, <2>5, <2>6
<1> QED BY <1>3, <1>4, <1>5, <1>6, <1>7, <1>8

\* Tasks come and go, and their end wakes the generator.
LEMMA TaskFits ==
    ASSUME QueueInv, TaskStarts \/ TaskEnds \/ TaskReleased
    PROVE  QueueInv'
<1>1. rt \in Runtimes /\ Fits(rt, stash, settled, arrived)
  BY DEF QueueInv, Fits
<1>2. CASE TaskStarts \/ TaskEnds
  <2>1. /\ UNCHANGED <<lane, rt, stash, stamped, carries, arrived, settled, told, promised>>
        /\ task' \in BOOLEAN /\ taskEvent' \in BOOLEAN
    BY <1>2 DEF TaskStarts, TaskEnds, history, QueueInv, OthersOK
  <2> QED BY <2>1 DEF QueueInv, OthersOK
<1>3. CASE TaskReleased
  <2>1. taskEvent' = FALSE /\ UNCHANGED <<lane, stash, carries, task, arrived, settled, told>>
    BY <1>3 DEF TaskReleased, history
  <2>2. CASE rt.gen = "waiting" /\ Scan(rt)
    <3>1. rt.turn = {} /\ ~rt.active /\ ~rt.superseded /\ ~rt.interrupted
      BY <1>1, <2>2 DEF Fits, PlacesOK, FlagsOK
    <3>2. stamped \subseteq Atoms /\ promised \subseteq Atoms
      BY DEF QueueInv, OthersOK
    <3>3. /\ Fits(rt', stash, settled, arrived)
          /\ stamped' \subseteq Atoms /\ promised' \subseteq Atoms
      BY <1>1, <2>2, <3>1, <3>2, ScanFits
    <3> QED BY <2>1, <3>3 DEF QueueInv, OthersOK
  <2>3. CASE /\ \E late \in BOOLEAN : rt' = [rt EXCEPT !.wake = @ \/ late]
             /\ UNCHANGED <<stamped, promised>>
    <3>1. /\ rt' \in Runtimes
          /\ rt'.life = rt.life /\ rt'.gen = rt.gen /\ rt'.turn = rt.turn
          /\ rt'.active = rt.active /\ rt'.queue = rt.queue
          /\ rt'.superseded = rt.superseded /\ rt'.interrupted = rt.interrupted
          /\ rt'.latch = rt.latch /\ rt'.ahead = rt.ahead /\ rt'.effects = rt.effects
      BY <1>1, <2>3 DEF Runtimes
    <3>2. Fits(rt', stash, settled, arrived)
      BY <1>1, <3>1, SameFits
    <3> QED BY <2>1, <2>3, <3>2 DEF QueueInv, OthersOK
  <2>4. (rt.life \in {"launching", "up"} /\ rt.gen # "waiting") \in BOOLEAN
    OBVIOUS
  <2> QED BY <1>3, <2>2, <2>3, <2>4 DEF TaskReleased
<1> QED BY <1>2, <1>3

-----------------------------------------------------------------------------
(* The generator and the event loop keep the invariant.                    *)

LEMMA PullFits ==
    ASSUME QueueInv, Pull
    PROVE  QueueInv' /\ rt'.turn \cap settled' = {}
<1>1. /\ rt \in Runtimes /\ rt.queue \in Seq(Atoms) /\ stash \in Seq(Atoms)
      /\ Fits(rt, stash, settled, arrived) /\ rt.turn \subseteq Atoms
      /\ settled \subseteq Atoms /\ arrived \in Seq(Atoms)
      /\ stamped \subseteq Atoms /\ promised \subseteq Atoms
  BY DEF QueueInv, OthersOK, Fits, Runtimes
<1>2. UNCHANGED <<lane, carries, task, taskEvent, arrived, told>>
  BY DEF Pull
<1>3. CASE /\ rt.gen = "fresh" /\ Scan([rt EXCEPT !.queue = stash \o @])
           /\ stash' = <<>> /\ UNCHANGED settled
  <2> DEFINE q == stash \o rt.queue
             r == [rt EXCEPT !.queue = q]
  <2>1. /\ q \in Seq(Atoms) /\ ToSet(q) = ToSet(stash) \cup ToSet(rt.queue)
        /\ IsInjective(q)
    BY <1>1, ConcatFacts DEF Fits, ApartOK
  <2>2. /\ r \in Runtimes /\ r.queue = q /\ r.life = rt.life /\ r.gen = "fresh"
        /\ r.turn = rt.turn /\ r.active = rt.active /\ r.superseded = rt.superseded
        /\ r.interrupted = rt.interrupted /\ r.latch = rt.latch
    BY <1>1, <1>3, <2>1 DEF Runtimes
  <2>3. Scan(r)
    BY <1>3
  <2> HIDE DEF r, q
  <2>4. r.turn = {} /\ ~r.active /\ ~r.superseded /\ ~r.interrupted /\ r.life = "up"
    BY <1>1, <1>3, <2>2 DEF Fits, PlacesOK, FlagsOK
  <2>5. PlacesOK(r) /\ FlagsOK(r)
    BY <2>2, <2>4 DEF PlacesOK, FlagsOK
  <2>6. /\ ApartOK(r, <<>>) /\ KnownOK(r, <<>>, settled, arrived)
        /\ OwedOK(r, <<>>, settled)
    <3>1. rt.turn = {}
      BY <2>2, <2>4
    <3> QED BY <1>1, <2>1, <2>2, <3>1, SingleFacts DEF Fits, ApartOK, KnownOK, OwedOK
  <2>7. Fits(r, <<>>, settled, arrived)
    BY <1>1, <2>2, <2>5, <2>6, SingleFacts DEF Fits
  <2>8. /\ Fits(rt', <<>>, settled, arrived)
        /\ stamped' \subseteq Atoms /\ promised' \subseteq Atoms
        /\ rt'.turn \cap settled = {}
    BY <1>1, <2>2, <2>3, <2>4, <2>7, ScanFits
  <2> QED BY <1>2, <1>3, <2>8 DEF QueueInv, OthersOK
<1>4. CASE /\ rt.gen = "ended"
           /\ LET kept == IF rt.interrupted THEN Retained(rt) ELSE Without(rt.queue, rt.turn)
              IN  /\ Scan([rt EXCEPT !.queue = kept, !.interrupted = FALSE,
                                     !.turn = {}, !.superseded = FALSE])
                  /\ settled' = settled \cup (rt.turn \ ToSet(kept))
           /\ UNCHANGED stash
  <2> DEFINE kept == IF rt.interrupted THEN Retained(rt) ELSE Without(rt.queue, rt.turn)
             r == [rt EXCEPT !.queue = kept, !.interrupted = FALSE,
                             !.turn = {}, !.superseded = FALSE]
  <2>1. IsInjective(rt.queue)
    BY <1>1 DEF Fits, ApartOK
  <2>2. /\ kept \in Seq(Atoms) /\ IsInjective(kept) /\ ToSet(kept) \subseteq ToSet(rt.queue)
        /\ ToSet(kept) \cap settled = {}
    <3>1. /\ Retained(rt) \in Seq(Atoms) /\ IsInjective(Retained(rt))
          /\ ToSet(Retained(rt)) = IF rt.superseded THEN ToSet(rt.queue) \ rt.turn
                                   ELSE ToSet(rt.queue)
      BY <1>1, <2>1, RetainedFacts
    <3>2. /\ Without(rt.queue, rt.turn) \in Seq(Atoms)
          /\ IsInjective(Without(rt.queue, rt.turn))
          /\ ToSet(Without(rt.queue, rt.turn)) = ToSet(rt.queue) \ rt.turn
      BY <1>1, <2>1, WithoutFacts
    <3> QED BY <1>1, <1>4, <3>1, <3>2 DEF Fits, OwedOK
  <2>3. Scan(r) /\ settled' = settled \cup (rt.turn \ ToSet(kept))
    BY <1>4
  <2> HIDE DEF kept
  <2>4. /\ r \in Runtimes /\ r.queue = kept /\ r.life = rt.life /\ r.gen = "ended"
        /\ r.turn = {} /\ r.active = rt.active /\ ~r.superseded
        /\ ~r.interrupted /\ r.latch = rt.latch
    BY <1>1, <1>4, <2>2 DEF Runtimes
  <2> HIDE DEF r
  <2>5. ~r.active /\ PlacesOK(r) /\ FlagsOK(r)
    BY <1>1, <1>4, <2>4 DEF Fits, PlacesOK, FlagsOK
  <2>6. /\ ApartOK(r, stash) /\ KnownOK(r, stash, settled', arrived)
        /\ OwedOK(r, stash, settled')
    BY <1>1, <2>2, <2>3, <2>4 DEF Fits, ApartOK, KnownOK, OwedOK
  <2>7. Fits(r, stash, settled', arrived)
    BY <1>1, <2>3, <2>4, <2>5, <2>6 DEF Fits
  <2>8. /\ Fits(rt', stash, settled', arrived)
        /\ stamped' \subseteq Atoms /\ promised' \subseteq Atoms
        /\ rt'.turn \cap settled' = {}
    BY <1>1, <2>3, <2>4, <2>5, <2>7, ScanFits
  <2> QED BY <1>2, <1>4, <2>8 DEF QueueInv, OthersOK
<1> QED BY <1>3, <1>4 DEF Pull

LEMMA PreparedFits ==
    ASSUME QueueInv, Prepared \/ PrepareFails
    PROVE  QueueInv'
<1>1. /\ rt \in Runtimes /\ Fits(rt, stash, settled, arrived) /\ rt.turn \subseteq Atoms
      /\ settled \subseteq Atoms /\ rt.gen = "preparing" /\ rt.ahead \in BOOLEAN
      /\ rt.turn \subseteq ToSet(arrived)
  BY DEF QueueInv, Fits, KnownOK, Runtimes, Prepared, PrepareFails
<1>2. /\ rt.life = "up" /\ rt.active /\ rt.latch = "none"
      /\ rt.interrupted <=> rt.superseded
  BY <1>1 DEF Fits, PlacesOK, FlagsOK
<1>3. UNCHANGED <<lane, stash, stamped, carries, task, taskEvent, arrived, told, promised>>
  BY DEF Prepared, PrepareFails
<1>4. CASE Prepared
  <2>1. /\ rt' \in Runtimes /\ rt'.life = rt.life /\ rt'.gen = "running"
        /\ rt'.turn = rt.turn /\ rt'.active = rt.active
        /\ rt'.queue = rt.queue /\ rt'.superseded = rt.superseded
        /\ rt'.interrupted = rt.interrupted /\ rt'.latch = rt.latch
        /\ rt'.ahead = rt.ahead /\ rt'.effects = rt.effects
    BY <1>1, <1>4 DEF Prepared, Runtimes, Places
  <2>2. settled' = settled \cup IF rt.ahead THEN {} ELSE rt.turn
    BY <1>4 DEF Prepared
  <2>3. PlacesOK(rt') /\ FlagsOK(rt')
    BY <1>2, <2>1 DEF PlacesOK, FlagsOK
  <2>4. ApartOK(rt', stash) /\ KnownOK(rt', stash, settled', arrived)
    BY <1>1, <2>1, <2>2 DEF Fits, ApartOK, KnownOK
  <2>5. OwedOK(rt', stash, settled')
    BY <1>1, <1>2, <2>1, <2>2 DEF Fits, OwedOK, ApartOK, Replayable
  <2>6. Fits(rt', stash, settled', arrived)
    BY <1>1, <2>1, <2>2, <2>3, <2>4, <2>5 DEF Fits
  <2> QED BY <1>3, <2>6 DEF QueueInv, OthersOK
<1>5. CASE PrepareFails
  <2>1. /\ rt' \in Runtimes /\ rt'.life = rt.life /\ rt'.gen = "broken"
        /\ rt'.turn = {} /\ ~rt'.active /\ ~rt'.superseded /\ rt'.queue = rt.queue
    BY <1>1, <1>5 DEF PrepareFails, Runtimes, Places
  <2>2. settled' = settled \ rt.turn
    BY <1>5 DEF PrepareFails
  <2>3. PlacesOK(rt') /\ FlagsOK(rt')
    BY <1>2, <2>1 DEF PlacesOK, FlagsOK
  <2>4. ApartOK(rt', stash) /\ KnownOK(rt', stash, settled', arrived)
    BY <1>1, <2>1, <2>2 DEF Fits, ApartOK, KnownOK
  <2>5. OwedOK(rt', stash, settled')
    BY <1>1, <2>1, <2>2 DEF Fits, OwedOK
  <2>6. Fits(rt', stash, settled', arrived)
    BY <1>1, <2>1, <2>2, <2>3, <2>4, <2>5 DEF Fits
  <2> QED BY <1>3, <2>6 DEF QueueInv, OthersOK
<1> QED BY <1>4, <1>5

\* Effects and terminals settle the turn, or leave it as it was.
LEMMA TurnFits ==
    ASSUME QueueInv,
           \/ \E e \in {"tool", "output"} : Effect(e)
           \/ \E status \in {"complete", "interrupted", "failed"} : Terminal(status)
    PROVE  QueueInv'
<1>1. /\ rt \in Runtimes /\ Fits(rt, stash, settled, arrived) /\ rt.turn \subseteq Atoms
      /\ settled \subseteq Atoms /\ rt.gen = "running" /\ rt.latch = "none"
      /\ rt.turn \subseteq ToSet(arrived)
  BY DEF QueueInv, Fits, KnownOK, Runtimes, Effect, Terminal, InTurn
<1>2. UNCHANGED <<lane, stash, stamped, carries, task, taskEvent, arrived, told, promised>>
  BY DEF Effect, Terminal
<1>3. /\ rt' \in Runtimes
      /\ rt'.life = rt.life /\ rt'.gen = rt.gen /\ rt'.turn = rt.turn
      /\ rt'.active = rt.active /\ rt'.queue = rt.queue
      /\ rt'.superseded = rt.superseded /\ rt'.interrupted = rt.interrupted
      /\ rt'.ahead = rt.ahead
      /\ \/ /\ settled' = settled \cup rt.turn
            /\ rt'.effects # {} \/ rt'.latch = "complete"
         \/ settled' = settled /\ rt'.effects = rt.effects /\ rt'.latch # "complete"
  <2>1. CASE \E e \in {"tool", "output"} : Effect(e)
    <3>1. PICK e \in {"tool", "output"} : Effect(e)
      BY <2>1
    <3>2. PICK tool \in {rt.tool, "safe", "unsafe"} :
             rt' = [rt EXCEPT !.effects = @ \cup {e}, !.tool = tool]
      <4>1. CASE rt' = [rt EXCEPT !.effects = @ \cup {e}]
        BY <1>1, <4>1 DEF Runtimes
      <4> QED BY <3>1, <4>1 DEF Effect
    <3>3. tool \in Tools /\ rt.effects \cup {e} \in SUBSET {"tool", "output"}
      BY <1>1 DEF Runtimes, Tools
    <3>4. settled' = settled \cup rt.turn
      BY <3>1 DEF Effect
    <3> QED BY <1>1, <3>2, <3>3, <3>4 DEF Runtimes
  <2>2. CASE \E status \in {"complete", "interrupted", "failed"} : Terminal(status)
    <3>1. PICK status \in {"complete", "interrupted", "failed"} : Terminal(status)
      BY <2>2
    <3> QED BY <1>1, <3>1 DEF Terminal, Runtimes
  <2> QED BY <2>1, <2>2
<1>4. rt.active /\ rt.life = "up"
  BY <1>1 DEF Fits, PlacesOK
<1>5. PlacesOK(rt') /\ FlagsOK(rt')
  BY <1>1, <1>3, <1>4 DEF Fits, PlacesOK, FlagsOK
<1>6. ApartOK(rt', stash) /\ KnownOK(rt', stash, settled', arrived)
  BY <1>1, <1>3 DEF Fits, ApartOK, KnownOK
<1>7. OwedOK(rt', stash, settled')
  BY <1>1, <1>3 DEF Fits, OwedOK, ApartOK, Replayable
<1>8. Fits(rt', stash, settled', arrived)
  BY <1>1, <1>3, <1>5, <1>6, <1>7 DEF Fits
<1> QED BY <1>2, <1>8 DEF QueueInv, OthersOK

LEMMA ToolFits ==
    ASSUME QueueInv, ToolAnswers \/ ToolEnds \/ CompactBegins \/ CompactEnds
    PROVE  QueueInv'
<1>1. rt \in Runtimes /\ Fits(rt, stash, settled, arrived)
  BY DEF QueueInv, Fits
<1>2. CASE ToolAnswers \/ CompactBegins \/ CompactEnds
  <2>1. /\ rt' \in Runtimes
        /\ rt'.life = rt.life /\ rt'.gen = rt.gen /\ rt'.turn = rt.turn
        /\ rt'.active = rt.active /\ rt'.queue = rt.queue
        /\ rt'.superseded = rt.superseded /\ rt'.interrupted = rt.interrupted
        /\ rt'.latch = rt.latch /\ rt'.ahead = rt.ahead /\ rt'.effects = rt.effects
    <3>1. \/ rt' = [rt EXCEPT !.tool = "delivering"] \/ rt' = [rt EXCEPT !.compacting = TRUE]
          \/ rt' = [rt EXCEPT !.compacting = FALSE]
      BY <1>2 DEF ToolAnswers, CompactBegins, CompactEnds
    <3> QED BY <1>1, <3>1 DEF Runtimes, Tools
  <2>2. Fits(rt', stash, settled, arrived)
    BY <1>1, <2>1, SameFits
  <2> QED BY <1>2, <2>2 DEF QueueInv, OthersOK, ToolAnswers, CompactBegins, CompactEnds, history
<1>3. CASE ToolEnds
  <2> DEFINE r == [rt EXCEPT !.tool = "none"]
  <2>1. /\ r \in Runtimes
        /\ r.life = rt.life /\ r.gen = rt.gen /\ r.turn = rt.turn
        /\ r.active = rt.active /\ r.queue = rt.queue
        /\ r.superseded = rt.superseded /\ r.interrupted = rt.interrupted
        /\ r.latch = rt.latch /\ r.ahead = rt.ahead /\ r.effects = rt.effects
    BY <1>1 DEF Runtimes, Tools
  <2>2. UNCHANGED <<lane, stamped, task, taskEvent, arrived, told>>
    BY <1>3 DEF ToolEnds
  <2>3. \/ rt' = Gone /\ stash' = Saved(r) /\ UNCHANGED <<carries, settled, promised>>
        \/ Interrupt(r) /\ UNCHANGED stash
        \/ rt' = r /\ UNCHANGED <<carries, settled, promised>> /\ UNCHANGED stash
    BY <1>3 DEF ToolEnds
  <2> HIDE DEF r
  <2>4. Fits(r, stash, settled, arrived)
    BY <1>1, <2>1, SameFits
  <2>5. CASE rt' = Gone /\ stash' = Saved(r) /\ UNCHANGED <<carries, settled, promised>>
    <3>1. Saved(r) = Saved(rt)
      BY <2>1 DEF Saved, Carryable, Retained, Successors, Replayable
    <3>2. Fits(rt', stash', settled, arrived)
      BY <2>5, <3>1, SavedFacts DEF Saved
    <3> QED BY <2>2, <2>5, <3>2 DEF QueueInv, OthersOK
  <2>6. CASE Interrupt(r) /\ UNCHANGED stash
    <3>1. carries \in [Atoms -> SUBSET Atoms] /\ promised \subseteq Atoms
      BY DEF QueueInv, OthersOK
    <3>2. /\ Fits(rt', stash, settled', arrived)
          /\ carries' \in [Atoms -> SUBSET Atoms] /\ promised' \subseteq Atoms
      BY <2>4, <2>6, <3>1, InterruptFits
    <3> QED BY <2>2, <2>6, <3>2 DEF QueueInv, OthersOK
  <2>7. CASE rt' = r /\ UNCHANGED <<carries, settled, promised>> /\ UNCHANGED stash
    BY <2>2, <2>4, <2>7 DEF QueueInv, OthersOK
  <2> QED BY <2>3, <2>5, <2>6, <2>7
<1> QED BY <1>2, <1>3

LEMMA CloseFits ==
    ASSUME QueueInv, CloseComplete \/ CloseInterrupted \/ CloseFailed \/ Reported
    PROVE  QueueInv'
<1>1. /\ rt \in Runtimes /\ Fits(rt, stash, settled, arrived) /\ rt.gen = "running"
      /\ rt.life = "up" /\ (rt.interrupted <=> rt.superseded) /\ rt.queue \in Seq(Atoms)
      /\ IsInjective(rt.queue)
  BY DEF QueueInv, Fits, ApartOK, PlacesOK, FlagsOK, Runtimes,
         CloseComplete, CloseInterrupted, CloseFailed, Reported, Closing
<1>2. UNCHANGED <<lane, stash, stamped, carries, task, taskEvent, arrived, settled, told,
                  promised>>
  BY DEF CloseComplete, CloseInterrupted, CloseFailed, Reported, history
<1>3. CASE CloseComplete \/ CloseFailed \/ Reported
  <2>1. /\ rt' \in Runtimes
        /\ rt'.life = rt.life /\ rt'.turn = rt.turn /\ rt'.queue = rt.queue
        /\ rt'.gen \in {"running", "ended"} /\ ~rt'.active
        /\ rt'.superseded = rt.superseded /\ rt'.interrupted = rt.interrupted
        /\ rt'.latch = rt.latch /\ rt'.ahead = rt.ahead /\ rt'.effects = rt.effects
        /\ rt.latch # "none"
    <3>1. CASE CloseComplete
      BY <1>1, <3>1 DEF CloseComplete, Closing, Quiet, Runtimes, Places, Tools
    <3>2. CASE CloseFailed
      BY <1>1, <3>2 DEF CloseFailed, Closing, Quiet, Runtimes, Places, Tools
    <3>3. CASE Reported
      BY <1>1, <3>3 DEF Reported, Fits, PlacesOK, Runtimes, Places
    <3> QED BY <1>3, <3>1, <3>2, <3>3
  <2>2. PlacesOK(rt') /\ FlagsOK(rt')
    BY <1>1, <2>1 DEF PlacesOK, FlagsOK
  <2>3. /\ ApartOK(rt', stash) /\ KnownOK(rt', stash, settled, arrived)
        /\ OwedOK(rt', stash, settled)
    BY <1>1, <2>1 DEF Fits, ApartOK, KnownOK, OwedOK, Replayable
  <2>4. Fits(rt', stash, settled, arrived)
    BY <1>1, <2>1, <2>2, <2>3 DEF Fits
  <2> QED BY <1>2, <2>4 DEF QueueInv, OthersOK
<1>4. CASE CloseInterrupted
  <2> DEFINE afterTools == /\ ~rt.superseded /\ ~rt.pendingAbort /\ "tool" \in rt.effects
                           /\ "output" \in rt.effects \/ rt.tool = "none"
             q == IF afterTools \/ ~Replayable(rt) THEN Carryable(rt) ELSE rt.queue
  <2>1. rt' = [Quiet(rt) EXCEPT !.gen = "ended", !.interrupted = ~afterTools, !.queue = q]
    BY <1>1, <1>4 DEF CloseInterrupted, Quiet, Runtimes
  <2>2. /\ Carryable(rt) \in Seq(Atoms) /\ IsInjective(Carryable(rt))
        /\ ToSet(Carryable(rt)) \subseteq ToSet(rt.queue)
        /\ ToSet(Carryable(rt)) \cap settled = {}
    BY <1>1, CarriedFacts
  <2>3. /\ q \in Seq(Atoms) /\ IsInjective(q) /\ ToSet(q) \subseteq ToSet(rt.queue)
        /\ q = rt.queue => Replayable(rt) \/ ToSet(q) \cap settled = {}
        /\ q # rt.queue => ToSet(q) \cap settled = {}
    BY <1>1, <2>2
  <2>4. afterTools \in BOOLEAN /\ rt.latch = "interrupted"
    BY <1>4 DEF CloseInterrupted, Closing
  <2> HIDE DEF afterTools, q
  <2>5. /\ rt' \in Runtimes
        /\ rt'.life = rt.life /\ rt'.turn = rt.turn /\ rt'.queue = q
        /\ rt'.gen = "ended" /\ ~rt'.active
        /\ rt'.superseded = rt.superseded
        /\ rt'.latch = rt.latch
    BY <1>1, <2>1, <2>3, <2>4 DEF Quiet, Runtimes, Places, Tools
  <2>6. PlacesOK(rt') /\ FlagsOK(rt')
    BY <1>1, <2>4, <2>5 DEF PlacesOK, FlagsOK
  <2>7. ApartOK(rt', stash) /\ KnownOK(rt', stash, settled, arrived)
    BY <1>1, <2>3, <2>5 DEF Fits, ApartOK, KnownOK
  <2>8. OwedOK(rt', stash, settled)
    <3>1. ToSet(rt.queue) \cap settled = {} \/ rt.superseded \/ ~Replayable(rt)
      BY <1>1 DEF Fits, OwedOK
    <3>2. rt.superseded \/ ToSet(q) \cap settled = {}
      BY <2>3, <3>1
    <3> QED BY <1>1, <2>3, <2>5, <3>2 DEF Fits, OwedOK
  <2>9. Fits(rt', stash, settled, arrived)
    BY <1>1, <2>5, <2>6, <2>7, <2>8 DEF Fits
  <2> QED BY <1>2, <2>9 DEF QueueInv, OthersOK
<1> QED BY <1>3, <1>4

-----------------------------------------------------------------------------
(* The theorems.                                                           *)

LEMMA QueueInitial == Init => QueueInv
<1> SUFFICES ASSUME Init PROVE QueueInv
  OBVIOUS
<1>1. /\ rt = Gone /\ stash = <<>> /\ settled = {} /\ arrived = <<>>
      /\ IsInjective(stash) /\ stash \in Seq(Atoms) /\ ToSet(stash) = {}
  BY SingleFacts DEF Init
<1>2. Fits(rt, stash, settled, arrived)
  BY <1>1, AnewFits
<1>3. OthersOK
  BY DEF Init, OthersOK
<1> QED BY <1>2, <1>3 DEF QueueInv

LEMMA QueueStep == QueueInv /\ [Next]_vars => QueueInv'
<1> SUFFICES ASSUME QueueInv, [Next]_vars PROVE QueueInv'
  OBVIOUS
<1>1. CASE \E a \in Atoms : Prompt(a)
  BY <1>1, PromptFits
<1>2. CASE Launch \/ Built \/ LaunchFails
  BY <1>2, StartFits
<1>3. CASE Pull
  BY <1>3, PullFits
<1>4. CASE Prepared \/ PrepareFails
  BY <1>4, PreparedFits
<1>5. CASE CloseComplete \/ CloseInterrupted \/ CloseFailed \/ Reported
  BY <1>5, CloseFits
<1>6. CASE \/ \E e \in {"tool", "output"} : Effect(e)
           \/ \E status \in {"complete", "interrupted", "failed"} : Terminal(status)
  BY <1>6, TurnFits
<1>7. CASE ToolAnswers \/ ToolEnds \/ CompactBegins \/ CompactEnds
  BY <1>7, ToolFits
<1>8. CASE Abort \/ SwitchModel \/ IdleGap \/ RecoverFailed \/ RetryCredential \/ LoopEnds
  BY <1>8, AbortFits
<1>9. CASE TaskStarts \/ TaskEnds \/ TaskReleased
  BY <1>9, TaskFits
<1>10. CASE UNCHANGED vars
  BY <1>10 DEF vars, QueueInv, OthersOK
<1> QED BY <1>1, <1>2, <1>3, <1>4, <1>5, <1>6, <1>7, <1>8, <1>9, <1>10
        DEF Next, HostStep, ProviderStep

\* In every reachable state what is queued, stashed, in a turn and settled fits
\* together, whatever happens.
THEOREM QueueInvHolds == Spec => []QueueInv
BY QueueInitial, QueueStep, PTL DEF Spec

\* A prompt is never in the queue of a runtime and in the stash that outlives
\* it, and never twice in one of them.
THEOREM PromptsHaveOneOwner == Spec => []OneOwner
<1>1. QueueInv => OneOwner
  <2> SUFFICES ASSUME QueueInv PROVE OneOwner
    OBVIOUS
  <2>1. /\ stash \in Seq(Atoms) /\ rt.queue \in Seq(Atoms)
        /\ IsInjective(stash) /\ IsInjective(rt.queue)
        /\ ToSet(stash) \cap ToSet(rt.queue) = {}
    BY DEF QueueInv, Fits, ApartOK, Runtimes
  <2> QED BY <2>1, ConcatFacts DEF OneOwner
<1> QED BY <1>1, QueueInvHolds, PTL

\* An interruption leaves the generator and the tool alone.
LEMMA InterruptKeeps ==
    ASSUME NEW r \in Runtimes, Interrupt(r)
    PROVE  /\ rt'.gen = r.gen /\ rt'.life = r.life /\ rt'.tool = r.tool
           /\ Cohort(r) = <<>> => rt' = r
<1>1. rt' = r \/ \E q : rt' = [r EXCEPT !.queue = q, !.superseded = TRUE,
                                         !.interrupted = TRUE]
  BY DEF Interrupt
<1>2. Cohort(r) = <<>> => rt' = r
  BY DEF Interrupt
<1>3. ASSUME NEW q, rt' = [r EXCEPT !.queue = q, !.superseded = TRUE, !.interrupted = TRUE]
      PROVE  rt'.gen = r.gen /\ rt'.life = r.life /\ rt'.tool = r.tool
  BY <1>3 DEF Runtimes
<1> QED BY <1>1, <1>2, <1>3

\* A replaced runtime has no generator yet.
LEMMA ReplaceNone ==
    ASSUME NEW saved, NEW found, Replace(saved, found)
    PROVE  rt'.gen = "none"
<1>1. rt' \in {Gone, Asked(<<>>)}
  BY DEF Replace
<1> QED BY <1>1, GoneFacts

\* No other action hands a turn over.
LEMMA OthersHandNothing ==
    ASSUME QueueInv, Next,
           ~(Pull \/ TaskReleased \/ \E a \in Atoms : Prompt(a))
    PROVE  ~Hands
<1>1. rt \in Runtimes
  BY DEF QueueInv, Fits
<1>2. CASE Launch \/ Built \/ LaunchFails
  <2>1. CASE Launch
    BY <1>1, <2>1 DEF Launch, Hands, Runtimes
  <2>2. CASE Built
    BY <1>1, <2>2 DEF Built, Hands, Runtimes
  <2>3. CASE LaunchFails
    BY <2>3, GoneFacts DEF LaunchFails, Hands
  <2> QED BY <1>2, <2>1, <2>2, <2>3
<1>3. CASE Prepared \/ PrepareFails
  BY <1>1, <1>3 DEF Prepared, PrepareFails, Hands, Runtimes
<1>4. CASE CloseComplete \/ CloseInterrupted \/ CloseFailed \/ Reported
  <2>1. Quiet(rt) \in Runtimes /\ Quiet(rt).gen = rt.gen
    BY <1>1 DEF Quiet, Runtimes, Tools
  <2> QED BY <1>1, <1>4, <2>1
          DEF CloseComplete, CloseInterrupted, CloseFailed, Reported, Hands, Runtimes
<1>5. CASE \/ \E e \in {"tool", "output"} : Effect(e)
           \/ \E status \in {"complete", "interrupted", "failed"} : Terminal(status)
           \/ ToolAnswers \/ CompactBegins \/ CompactEnds
  BY <1>1, <1>5
     DEF Effect, Terminal, ToolAnswers, CompactBegins, CompactEnds, Hands, Runtimes
<1>6. CASE ToolEnds
  <2> DEFINE r == [rt EXCEPT !.tool = "none"]
  <2>1. r \in Runtimes /\ r.gen = rt.gen
    BY <1>1 DEF Runtimes, Tools
  <2>2. rt' = Gone \/ rt' = r \/ Interrupt(r)
    BY <1>6 DEF ToolEnds
  <2> HIDE DEF r
  <2> QED BY <2>1, <2>2, InterruptKeeps, GoneFacts DEF Hands
<1>7. CASE Abort \/ IdleGap
  <2>1. rt' \in {Gone, Asked(<<>>)} \/ rt' = [rt EXCEPT !.pendingAbort = TRUE]
        \/ rt' = [rt EXCEPT !.timer = FALSE]
    BY <1>7 DEF Abort, IdleGap
  <2> QED BY <1>1, <2>1, GoneFacts DEF Hands, Runtimes
<1>8. CASE SwitchModel \/ RecoverFailed \/ RetryCredential \/ LoopEnds
  <2>1. \E saved, found : Replace(saved, found)
    BY <1>8 DEF SwitchModel, RecoverFailed, RetryCredential, LoopEnds
  <2> QED BY <2>1, ReplaceNone DEF Hands
<1>9. CASE TaskStarts \/ TaskEnds
  BY <1>9 DEF TaskStarts, TaskEnds, Hands
<1> QED BY <1>2, <1>3, <1>4, <1>5, <1>6, <1>7, <1>8, <1>9 DEF Next, HostStep, ProviderStep

\* A turn is handed over by the loop of the generator alone: when the provider
\* pulls it, or where it waits on pushMessage.
LEMMA HandsWhere ==
    ASSUME QueueInv, [Next]_vars, Hands
    PROVE  \/ Pull
           \/ rt.gen = "waiting" /\ TaskReleased /\ Scan(rt)
           \/ rt.gen = "waiting" /\ \E a \in Atoms :
                 Prompt(a) /\ Scan([rt EXCEPT !.queue = Append(@, a)])
<1>1. rt \in Runtimes
  BY DEF QueueInv, Fits
<1>2. CASE TaskReleased
  <2>1. CASE rt' = [rt EXCEPT !.wake = @ \/ (rt.life \in {"launching", "up"}
                                              /\ rt.gen # "waiting")]
    BY <1>1, <2>1 DEF Hands, Runtimes
  <2> QED BY <1>2, <2>1 DEF TaskReleased
<1>3. ASSUME NEW a \in Atoms, Prompt(a)
      PROVE  rt.gen = "waiting" /\ Scan([rt EXCEPT !.queue = Append(@, a)])
  <2> DEFINE pushed == [rt EXCEPT !.queue = Append(@, a)]
  <2>1. pushed \in Runtimes /\ pushed.gen = rt.gen
    <3>1. Append(rt.queue, a) \in Seq(Atoms)
      BY <1>1, AppendFacts DEF Runtimes
    <3> QED BY <1>1, <3>1 DEF Runtimes
  <2>2. CASE rt.life = "none" /\ rt' = Asked(<<a>>)
    BY <2>2, GoneFacts, SingleFacts DEF Hands
  <2>3. CASE rt' \in {rt, pushed}
    BY <2>1, <2>3 DEF Hands
  <2>4. CASE Interrupt(pushed)
    BY <2>1, <2>4, InterruptKeeps DEF Hands
  <2>5. CASE \E idleGap : rt' = [pushed EXCEPT !.wake = @ \/ idleGap,
                                               !.timer = @ \/ idleGap]
    BY <2>1, <2>5 DEF Hands, Runtimes
  <2> QED BY <1>3, <2>2, <2>3, <2>4, <2>5 DEF Prompt
<1>4. CASE UNCHANGED vars
  BY <1>4 DEF vars, Hands
<1>5. CASE ~ (Pull \/ TaskReleased \/ (\E a \in Atoms : Prompt(a)) \/ UNCHANGED vars)
  BY <1>5, OthersHandNothing
<1> QED BY <1>2, <1>3, <1>4, <1>5

\* What is handed over is owed.
LEMMA HandsOwed ==
    ASSUME QueueInv, [Next]_vars, Hands
    PROVE  rt'.turn \cap settled' = {}
<1>1. rt \in Runtimes /\ Fits(rt, stash, settled, arrived)
  BY DEF QueueInv, Fits
<1>2. stamped \subseteq Atoms /\ promised \subseteq Atoms
  BY DEF QueueInv, OthersOK
<1>3. CASE Pull
  BY <1>3, PullFits
<1>4. rt.gen = "waiting" => /\ rt.turn = {} /\ ~rt.active /\ ~rt.superseded
                            /\ ~rt.interrupted /\ rt.life = "up"
  BY <1>1 DEF Fits, PlacesOK, FlagsOK
<1>5. CASE rt.gen = "waiting" /\ TaskReleased /\ Scan(rt)
  <2>1. rt'.turn \cap settled = {}
    BY <1>1, <1>2, <1>4, <1>5, ScanFits
  <2> QED BY <1>5, <2>1 DEF TaskReleased, history
<1>6. CASE rt.gen = "waiting" /\ \E a \in Atoms :
              Prompt(a) /\ Scan([rt EXCEPT !.queue = Append(@, a)])
  <2> PICK a \in Atoms : Prompt(a) /\ Scan([rt EXCEPT !.queue = Append(@, a)])
    BY <1>6
  <2> DEFINE pushed == [rt EXCEPT !.queue = Append(@, a)]
  <2>1. a \notin ToSet(arrived) /\ arrived' = Append(arrived, a) /\ rt.life # "none"
    BY <1>4, <1>6 DEF Prompt
  <2>2. Fits(pushed, stash, settled, arrived')
    <3> HIDE DEF pushed
    <3> QED BY <1>1, <2>1, PushFits DEF pushed
  <2>3. /\ pushed.gen = rt.gen /\ pushed.turn = rt.turn
        /\ pushed.active = rt.active /\ pushed.superseded = rt.superseded
        /\ pushed.interrupted = rt.interrupted /\ Scan(pushed)
    BY <1>1 DEF Runtimes
  <2> HIDE DEF pushed
  <2>4. rt'.turn \cap settled = {}
    BY <1>2, <1>4, <1>6, <2>2, <2>3, ScanFits
  <2>5. UNCHANGED settled
    BY <1>1, <1>4, <1>6 DEF Prompt, MayInterrupt, Runtimes
  <2> QED BY <2>4, <2>5
<1> QED BY <1>3, <1>5, <1>6, HandsWhere

\* Of the atoms that are handed over together all are replays, or none.
LEMMA DeliversApart ==
    ASSUME NEW r \in Runtimes, NEW a \in ToSet(Deliverable(r)), NEW b \in ToSet(Deliverable(r)),
           a \in replays
    PROVE  b \in replays
<1> DEFINE free == {c \in Atoms : CanRelease(r, c)}
           able == Within(r.queue, free)
           cut == {c \in Atoms \ {able[1]} : Apart(able[1], c)}
<1>1. able \in Seq(Atoms)
  <2> HIDE DEF free
  <2> QED BY WithinFacts DEF Runtimes
<1>2. Deliverable(r) = Before(able, cut)
  BY DEF Deliverable
<1>3. ToSet(Before(able, cut)) \cap cut = {} /\ ToSet(Deliverable(r)) \subseteq Atoms
  <2>1. ToSet(Before(able, cut)) \cap cut = {}
    <3> HIDE DEF able, cut
    <3> QED BY <1>1, BeforeFacts
  <2> QED BY <2>1, DeliverableFacts
<1>4. \A c \in ToSet(Deliverable(r)) : c = able[1] \/ ~Apart(able[1], c)
  BY <1>2, <1>3
<1>5. \A c \in ToSet(Deliverable(r)) : (able[1] \in replays) <=> (c \in replays)
  BY <1>4 DEF Apart
<1> QED BY <1>5

\* What is handed over is one replay, or none of it is.
LEMMA HandsApart ==
    ASSUME QueueInv, [Next]_vars, Hands, rt'.turn \cap replays # {}
    PROVE  rt'.turn \subseteq replays
<1>1. rt \in Runtimes /\ stash \in Seq(Atoms) /\ IsInjective(rt.queue)
  BY DEF QueueInv, Fits, ApartOK
<1>2. ASSUME NEW r \in Runtimes, Scan(r)
      PROVE  rt'.turn \subseteq replays
  <2>1. rt'.gen = "preparing"
    BY DEF Hands
  <2>2. rt'.turn = ToSet(Deliverable(r))
    <3> DEFINE d == ToSet(Deliverable(r))
    <3>1. d \in SUBSET Atoms
      BY DeliverableFacts
    <3>2. \/ rt' = [r EXCEPT !.gen = "waiting", !.wake = FALSE]
          \/ rt' = [r EXCEPT !.gen = "preparing", !.turn = d, !.active = TRUE,
                             !.latch = "none", !.effects = {}, !.superseded = FALSE,
                             !.timer = FALSE, !.wake = r.wake /\ r.gen # "waiting"]
      BY <1>2 DEF Scan
    <3> HIDE DEF d
    <3>3. rt'.turn = d
      BY <2>1, <3>1, <3>2 DEF Runtimes
    <3> QED BY <3>3 DEF d
  <2> QED BY <2>2, DeliversApart
<1>3. CASE Pull
  <2>1. \E q \in {stash \o rt.queue, Retained(rt), Without(rt.queue, rt.turn)} :
           \/ Scan([rt EXCEPT !.queue = q])
           \/ Scan([rt EXCEPT !.queue = q, !.interrupted = FALSE, !.turn = {},
                              !.superseded = FALSE])
    BY <1>3 DEF Pull
  <2>2. /\ stash \o rt.queue \in Seq(Atoms) /\ Retained(rt) \in Seq(Atoms)
        /\ Without(rt.queue, rt.turn) \in Seq(Atoms)
    BY <1>1, RetainedFacts, WithoutFacts DEF Runtimes
  <2>3. PICK q \in Seq(Atoms) :
           \/ Scan([rt EXCEPT !.queue = q])
           \/ Scan([rt EXCEPT !.queue = q, !.interrupted = FALSE, !.turn = {},
                              !.superseded = FALSE])
    BY <2>1, <2>2
  <2>4. /\ [rt EXCEPT !.queue = q] \in Runtimes
        /\ [rt EXCEPT !.queue = q, !.interrupted = FALSE, !.turn = {},
                      !.superseded = FALSE] \in Runtimes
    BY <1>1 DEF Runtimes
  <2> QED BY <1>2, <2>3, <2>4
<1>4. CASE Scan(rt)
  BY <1>1, <1>2, <1>4
<1>5. CASE \E a \in Atoms : Scan([rt EXCEPT !.queue = Append(@, a)])
  <2>1. PICK a \in Atoms : Scan([rt EXCEPT !.queue = Append(@, a)])
    BY <1>5
  <2>2. Append(rt.queue, a) \in Seq(Atoms)
    BY <1>1, AppendFacts DEF Runtimes
  <2>3. [rt EXCEPT !.queue = Append(@, a)] \in Runtimes
    BY <1>1, <2>2 DEF Runtimes
  <2> QED BY <1>2, <2>1, <2>3
<1> QED BY <1>3, <1>4, <1>5, HandsWhere

-----------------------------------------------------------------------------
(* The marks of reconciliation.                                            *)

\* No provider that reconciles writes ahead.  A turn that had effects is
\* settled, or it is a replay; it was one already when it was handed over.
MarkInv ==
    /\ replays \subseteq Atoms /\ touched \subseteq Atoms
    /\ ~(rt.ahead /\ rt.reconciles)
    /\ touched \subseteq settled \cup replays
    /\ rt.gen = "preparing" => rt.turn \cap touched \subseteq replays

\* A runtime keeps its provider, and a turn in preparation its atoms.
KeepsTurn(r) ==
    /\ ~(r.ahead /\ r.reconciles)
    /\ r.gen = "preparing" /\ rt.gen = "preparing" => r.turn = rt.turn

LEMMA ScanMarks ==
    ASSUME NEW r \in Runtimes, Scan(r), ~(r.ahead /\ r.reconciles), rt.gen # "preparing"
    PROVE  KeepsTurn(rt')
<1> DEFINE d == ToSet(Deliverable(r))
<1>1. d \in SUBSET Atoms
  BY DeliverableFacts
<1>2. \/ rt' = [r EXCEPT !.gen = "waiting", !.wake = FALSE]
      \/ rt' = [r EXCEPT !.gen = "preparing", !.turn = d, !.active = TRUE,
                         !.latch = "none", !.effects = {}, !.superseded = FALSE,
                         !.timer = FALSE, !.wake = r.wake /\ r.gen # "waiting"]
  BY DEF Scan
<1> HIDE DEF d
<1>3. rt'.ahead = r.ahead /\ rt'.reconciles = r.reconciles
  BY <1>1, <1>2 DEF Runtimes
<1> QED BY <1>3 DEF KeepsTurn

LEMMA InterruptMarks ==
    ASSUME NEW r \in Runtimes, Interrupt(r), KeepsTurn(r)
    PROVE  KeepsTurn(rt')
<1>1. rt' = r \/ \E q : rt' = [r EXCEPT !.queue = q, !.superseded = TRUE,
                                         !.interrupted = TRUE]
  BY DEF Interrupt
<1> QED BY <1>1 DEF Runtimes, KeepsTurn

LEMMA GoneMarks == \A r \in {Gone} \cup {Asked(q) : q \in Seq(Atoms)} : KeepsTurn(r)
<1>1. ~Gone.ahead /\ Gone.gen = "none"
  BY DEF Gone
<1>2. ASSUME NEW q \in Seq(Atoms), NEW r, r = Asked(q) PROVE ~r.ahead /\ r.gen = "none"
  BY <1>1, <1>2, GoneFacts DEF Asked, Runtimes
<1> QED BY <1>1, <1>2 DEF KeepsTurn

LEMMA PromptMarks ==
    ASSUME QueueInv, MarkInv, NEW a \in Atoms, Prompt(a)
    PROVE  KeepsTurn(rt')
<1> DEFINE pushed == [rt EXCEPT !.queue = Append(@, a)]
<1>1. /\ rt \in Runtimes /\ KeepsTurn(rt) /\ ~(rt.ahead /\ rt.reconciles)
  BY DEF QueueInv, Fits, MarkInv, KeepsTurn
<1>2. /\ pushed \in Runtimes /\ pushed.gen = rt.gen /\ pushed.turn = rt.turn
      /\ pushed.ahead = rt.ahead /\ pushed.reconciles = rt.reconciles
  <2>1. Append(rt.queue, a) \in Seq(Atoms)
    BY <1>1, AppendFacts DEF Runtimes
  <2> QED BY <1>1, <2>1 DEF Runtimes
<1>3. KeepsTurn(pushed)
  BY <1>1, <1>2 DEF KeepsTurn
<1>4. CASE rt' = Asked(<<a>>)
  <2> DEFINE one == <<a>>
  <2>1. one \in Seq(Atoms) /\ rt' = Asked(one)
    BY <1>4, SingleFacts
  <2> HIDE DEF one
  <2> QED BY <2>1, GoneMarks
<1>5. CASE rt' \in {rt, pushed}
  BY <1>1, <1>3, <1>5
<1>6. CASE rt.gen = "waiting" /\ Scan(pushed)
  <2> HIDE DEF pushed
  <2> QED BY <1>1, <1>2, <1>6, ScanMarks
<1>7. CASE Interrupt(pushed)
  <2> HIDE DEF pushed
  <2> QED BY <1>2, <1>3, <1>7, InterruptMarks
<1>8. CASE \E idleGap : rt' = [pushed EXCEPT !.wake = @ \/ idleGap, !.timer = @ \/ idleGap]
  <2> HIDE DEF pushed
  <2> QED BY <1>2, <1>3, <1>8 DEF KeepsTurn, Runtimes
<1> QED BY <1>4, <1>5, <1>6, <1>7, <1>8 DEF Prompt

LEMMA RuntimeMarks ==
    ASSUME QueueInv, MarkInv, [Next]_vars
    PROVE  KeepsTurn(rt')
<1>1. rt \in Runtimes /\ KeepsTurn(rt) /\ ~(rt.ahead /\ rt.reconciles)
  BY DEF QueueInv, Fits, MarkInv, KeepsTurn
<1>2. CASE \E a \in Atoms : Prompt(a)
  BY <1>2, PromptMarks
<1>3. CASE Launch \/ Built \/ LaunchFails
  <2>1. CASE Launch
    BY <1>1, <2>1 DEF Launch, KeepsTurn, Runtimes
  <2>2. CASE Built
    BY <1>1, <2>2 DEF Built, KeepsTurn, Runtimes
  <2>3. CASE LaunchFails
    BY <2>3, GoneMarks DEF LaunchFails
  <2> QED BY <1>3, <2>1, <2>2, <2>3
<1>4. CASE Pull
  <2>1. \E q \in {stash \o rt.queue, Retained(rt), Without(rt.queue, rt.turn)} :
           \/ Scan([rt EXCEPT !.queue = q]) /\ rt.gen = "fresh"
           \/ Scan([rt EXCEPT !.queue = q, !.interrupted = FALSE, !.turn = {},
                              !.superseded = FALSE]) /\ rt.gen = "ended"
    BY <1>4 DEF Pull
  <2>2. stash \o rt.queue \in Seq(Atoms) /\ IsInjective(rt.queue)
    BY DEF QueueInv, Fits, ApartOK, Runtimes
  <2>3. Retained(rt) \in Seq(Atoms) /\ Without(rt.queue, rt.turn) \in Seq(Atoms)
    BY <1>1, <2>2, RetainedFacts, WithoutFacts DEF Runtimes
  <2>4. PICK q \in Seq(Atoms) :
           \/ Scan([rt EXCEPT !.queue = q]) /\ rt.gen = "fresh"
           \/ Scan([rt EXCEPT !.queue = q, !.interrupted = FALSE, !.turn = {},
                              !.superseded = FALSE]) /\ rt.gen = "ended"
    BY <2>1, <2>2, <2>3
  <2>5. \E r \in Runtimes : Scan(r) /\ r.ahead = rt.ahead /\ r.reconciles = rt.reconciles
    <3>1. CASE Scan([rt EXCEPT !.queue = q])
      <4> DEFINE r == [rt EXCEPT !.queue = q]
      <4>1. r \in Runtimes /\ r.ahead = rt.ahead /\ r.reconciles = rt.reconciles
        BY <1>1 DEF Runtimes
      <4> QED BY <3>1, <4>1
    <3>2. CASE Scan([rt EXCEPT !.queue = q, !.interrupted = FALSE, !.turn = {},
                               !.superseded = FALSE])
      <4> DEFINE r == [rt EXCEPT !.queue = q, !.interrupted = FALSE, !.turn = {},
                                 !.superseded = FALSE]
      <4>1. r \in Runtimes /\ r.ahead = rt.ahead /\ r.reconciles = rt.reconciles
        BY <1>1 DEF Runtimes
      <4> QED BY <3>2, <4>1
    <3> QED BY <2>4, <3>1, <3>2
  <2> QED BY <1>1, <2>4, <2>5, ScanMarks
<1>5. CASE Prepared \/ PrepareFails
  BY <1>1, <1>5 DEF Prepared, PrepareFails, KeepsTurn, Runtimes
<1>6. CASE CloseComplete \/ CloseInterrupted \/ CloseFailed \/ Reported
  <2>1. /\ Quiet(rt) \in Runtimes /\ Quiet(rt).gen = rt.gen /\ Quiet(rt).turn = rt.turn
        /\ Quiet(rt).ahead = rt.ahead /\ Quiet(rt).reconciles = rt.reconciles
    BY <1>1 DEF Quiet, Runtimes, Tools
  <2>2. CASE CloseInterrupted
    <3>1. \E i, q : rt' = [Quiet(rt) EXCEPT !.gen = "ended", !.interrupted = i, !.queue = q]
      <4> DEFINE afterTools == /\ ~rt.superseded /\ ~rt.pendingAbort /\ "tool" \in rt.effects
                               /\ "output" \in rt.effects \/ rt.tool = "none"
                 q == IF afterTools \/ ~Replayable(rt) THEN Carryable(rt) ELSE Quiet(rt).queue
      <4>1. rt' = [Quiet(rt) EXCEPT !.gen = "ended", !.interrupted = ~afterTools, !.queue = q]
        BY <2>2 DEF CloseInterrupted
      <4> HIDE DEF afterTools, q
      <4> QED BY <4>1
    <3> QED BY <1>1, <2>1, <3>1 DEF KeepsTurn, Runtimes
  <2>3. CASE CloseComplete \/ CloseFailed
    BY <1>1, <2>1, <2>3 DEF CloseComplete, CloseFailed, Closing, KeepsTurn, Runtimes
  <2>4. CASE Reported
    BY <1>1, <2>4 DEF Reported, KeepsTurn, Runtimes
  <2> QED BY <1>6, <2>2, <2>3, <2>4
<1>7. CASE \/ \E e \in {"tool", "output"} : Effect(e)
           \/ \E status \in {"complete", "interrupted", "failed"} : Terminal(status)
           \/ ToolAnswers \/ CompactBegins \/ CompactEnds
  BY <1>1, <1>7
     DEF Effect, Terminal, ToolAnswers, CompactBegins, CompactEnds, KeepsTurn, Runtimes
<1>8. CASE ToolEnds
  <2> DEFINE r == [rt EXCEPT !.tool = "none"]
  <2>1. r \in Runtimes /\ KeepsTurn(r)
    BY <1>1 DEF Runtimes, Tools, KeepsTurn
  <2>2. rt' = Gone \/ rt' = r \/ Interrupt(r)
    BY <1>8 DEF ToolEnds
  <2> HIDE DEF r
  <2> QED BY <2>1, <2>2, InterruptMarks, GoneMarks
<1>9. CASE Abort \/ IdleGap
  <2>1. rt' \in {Gone, Asked(<<>>)} \/ rt' = [rt EXCEPT !.pendingAbort = TRUE]
        \/ rt' = [rt EXCEPT !.timer = FALSE]
    BY <1>9 DEF Abort, IdleGap
  <2>2. CASE rt' \in {Gone, Asked(<<>>)}
    BY <2>2, GoneMarks, GoneFacts
  <2>3. CASE rt' = [rt EXCEPT !.pendingAbort = TRUE] \/ rt' = [rt EXCEPT !.timer = FALSE]
    BY <1>1, <2>3 DEF KeepsTurn, Runtimes
  <2> QED BY <2>1, <2>2, <2>3
<1>10. CASE SwitchModel \/ RecoverFailed \/ RetryCredential \/ LoopEnds
  <2>1. \E saved, found : Replace(saved, found)
    BY <1>10 DEF SwitchModel, RecoverFailed, RetryCredential, LoopEnds
  <2>2. rt' \in {Gone, Asked(<<>>)}
    BY <2>1 DEF Replace
  <2> QED BY <2>2, GoneMarks, GoneFacts
<1>11. CASE TaskStarts \/ TaskEnds \/ UNCHANGED vars
  BY <1>1, <1>11 DEF TaskStarts, TaskEnds, vars
<1>12. CASE TaskReleased
  <2>1. CASE rt' = [rt EXCEPT !.wake = @ \/ (rt.life \in {"launching", "up"}
                                              /\ rt.gen # "waiting")]
    BY <1>1, <2>1 DEF KeepsTurn, Runtimes
  <2>2. CASE rt.gen = "waiting" /\ Scan(rt)
    BY <1>1, <2>2, ScanMarks
  <2> QED BY <1>12, <2>1, <2>2 DEF TaskReleased
<1> QED BY <1>2, <1>3, <1>4, <1>5, <1>6, <1>7, <1>8, <1>9, <1>10, <1>11, <1>12
        DEF Next, HostStep, ProviderStep

\* The turn in progress is settled with its first effect, and settled no more
\* when it was not handed over or is to be reconciled.
LEMMA MarksMove ==
    ASSUME QueueInv, [Next]_vars
    PROVE  \/ UNCHANGED <<replays, touched>> /\ settled \subseteq settled'
           \/ /\ rt.gen = "running" /\ rt'.gen # "preparing" /\ UNCHANGED replays
              /\ settled' = settled \cup rt.turn /\ touched' = touched \cup rt.turn
           \/ /\ rt.gen = "preparing" /\ rt'.gen # "preparing"
              /\ UNCHANGED <<replays, touched>> /\ settled' = settled \ rt.turn
           \/ /\ rt'.gen # "preparing" /\ UNCHANGED touched
              /\ replays' = replays \cup Ambiguous /\ settled' = settled \ Ambiguous
<1>1. rt \in Runtimes
  BY DEF QueueInv, Fits
<1>2. CASE \E a \in Atoms : Prompt(a)
  BY <1>2 DEF Prompt, Interrupt
<1>3. CASE Launch \/ Built \/ LaunchFails \/ TaskStarts \/ TaskEnds \/ TaskReleased
  BY <1>3 DEF Launch, Built, LaunchFails, TaskStarts, TaskEnds, TaskReleased, history
<1>4. CASE Pull \/ Prepared
  BY <1>4 DEF Pull, Prepared
<1>5. CASE PrepareFails
  BY <1>1, <1>5 DEF PrepareFails, Runtimes
<1>6. CASE CloseComplete \/ CloseInterrupted \/ CloseFailed \/ Reported
  BY <1>6 DEF CloseComplete, CloseInterrupted, CloseFailed, Reported, history
<1>7. CASE \E e \in {"tool", "output"} : Effect(e)
  BY <1>1, <1>7 DEF Effect, InTurn, Runtimes
<1>8. CASE \E status \in {"complete", "interrupted", "failed"} : Terminal(status)
  BY <1>8 DEF Terminal
<1>9. CASE ToolAnswers \/ CompactBegins \/ CompactEnds
  BY <1>9 DEF ToolAnswers, CompactBegins, CompactEnds, history
<1>10. CASE ToolEnds
  BY <1>10 DEF ToolEnds, Interrupt
<1>11. CASE Abort \/ IdleGap
  BY <1>11 DEF Abort, IdleGap, history
<1>12. CASE SwitchModel \/ RecoverFailed \/ RetryCredential
  BY <1>12 DEF SwitchModel, RecoverFailed, RetryCredential, Replace
<1>13. CASE LoopEnds
  <2>1. \E saved, found : Replace(saved, found)
    BY <1>13 DEF LoopEnds
  <2>2. rt'.gen = "none"
    BY <2>1, ReplaceNone
  <2> QED BY <1>13, <2>2 DEF LoopEnds, Replace
<1>14. CASE UNCHANGED vars
  BY <1>14 DEF vars
<1> QED BY <1>2, <1>3, <1>4, <1>5, <1>6, <1>7, <1>8, <1>9, <1>10, <1>11, <1>12, <1>13, <1>14
        DEF Next, HostStep, ProviderStep

LEMMA MarkStep == QueueInv /\ MarkInv /\ [Next]_vars => MarkInv'
<1> SUFFICES ASSUME QueueInv, MarkInv, [Next]_vars PROVE MarkInv'
  OBVIOUS
<1>1. KeepsTurn(rt')
  BY RuntimeMarks
<1>2. Hands => rt'.turn \cap settled' = {}
  BY HandsOwed
<1>3. rt.turn \subseteq Atoms /\ Ambiguous \subseteq Atoms
  BY DEF QueueInv, Fits, Runtimes, Ambiguous
<1>4. replays' \subseteq Atoms /\ touched' \subseteq Atoms
  BY <1>3, MarksMove DEF MarkInv
<1>5. touched' \subseteq settled' \cup replays'
  BY MarksMove DEF MarkInv
<1>6. rt'.gen = "preparing" => rt'.turn \cap touched' \subseteq replays'
  <2>1. CASE Hands
    BY <1>2, <1>5, <2>1
  <2>2. CASE rt'.gen = "preparing" /\ rt.gen = "preparing"
    <3>1. rt'.turn = rt.turn
      BY <1>1, <2>2 DEF KeepsTurn
    <3>2. UNCHANGED <<replays, touched>>
      BY <2>2, MarksMove
    <3> QED BY <2>2, <3>1, <3>2 DEF MarkInv
  <2> QED BY <2>1, <2>2 DEF Hands
<1> QED BY <1>1, <1>4, <1>5, <1>6 DEF MarkInv, KeepsTurn

\* A turn that had effects is settled or marked, in every reachable state.
THEOREM MarkInvHolds == Spec => []MarkInv
<1>1. Init => MarkInv
  BY DEF Init, MarkInv, Gone
<1> QED BY <1>1, MarkStep, QueueInvHolds, PTL DEF Spec

\* The variables of the prompt queue keep their types; a turn is only there
\* while the generator holds it or waits for its end.
THEOREM QueueTypeCorrect == Spec => []TypeOK
<1>1. QueueInv /\ MarkInv => TypeOK
  BY DEF QueueInv, OthersOK, Fits, PlacesOK, MarkInv, TypeOK
<1> QED BY <1>1, QueueInvHolds, MarkInvHolds, PTL

\* A turn that completed, had effects or was superseded in the provider's
\* hands is never handed over again, whatever was aborted, replaced or
\* recovered since, but for the turn of a provider that reconciles, under which
\* the stream ended: that one may come again, and if it had effects, it comes
\* as a replay and of nothing else.
THEOREM TurnsAreNeverReplayed == Spec => NeverReplayed
<1>1. QueueInv /\ MarkInv /\ [Next]_vars =>
         [Hands => /\ rt'.turn \cap settled' = {}
                   /\ rt'.turn \cap touched # {} => rt'.turn \subseteq replays]_vars
  <2> SUFFICES ASSUME QueueInv, MarkInv, [Next]_vars, Hands
               PROVE  /\ rt'.turn \cap settled' = {}
                      /\ rt'.turn \cap touched # {} => rt'.turn \subseteq replays
    OBVIOUS
  <2>1. rt'.turn \cap settled' = {}
    BY HandsOwed
  <2>2. touched \subseteq settled' \cup replays
    BY MarksMove DEF Hands, MarkInv
  <2>3. rt'.turn \cap touched # {} => rt'.turn \cap replays # {}
    BY <2>1, <2>2
  <2> QED BY <2>1, <2>3, HandsApart
<1> QED BY <1>1, QueueInvHolds, MarkInvHolds, PTL DEF Spec, NeverReplayed

\* A tool that may not be cut, and the delivery of a result, keep the turn from
\* being superseded and the runtime from being taken down, except by the
\* provider itself or a change of the model.
LEMMA ToolHolds ==
    ASSUME QueueInv, [Next]_vars, InTurn, rt.tool \in {"unsafe", "delivering"}
    PROVE  /\ rt'.tool = rt.tool => (rt'.superseded <=> rt.superseded)
           /\ rt'.life = "up" \/ ToolEnds \/ SwitchModel \/ LoopEnds
<1>1. /\ rt \in Runtimes /\ rt.gen = "running" /\ rt.latch = "none" /\ rt.life = "up"
  BY DEF QueueInv, Fits, PlacesOK, InTurn
<1>2. CASE \E a \in Atoms : Prompt(a)
  <2>1. PICK a \in Atoms : Prompt(a)
    BY <1>2
  <2> DEFINE pushed == [rt EXCEPT !.queue = Append(@, a)]
  <2>2. /\ pushed \in Runtimes /\ pushed.life = "up" /\ pushed.tool = rt.tool
        /\ pushed.superseded = rt.superseded
    <3>1. Append(rt.queue, a) \in Seq(Atoms)
      BY <1>1, AppendFacts DEF Runtimes
    <3> QED BY <1>1, <3>1 DEF Runtimes
  <2>3. ~MayInterrupt(pushed, a)
    BY <2>2 DEF MayInterrupt
  <2>4. \E idleGap : rt' = [pushed EXCEPT !.wake = @ \/ idleGap, !.timer = @ \/ idleGap]
    BY <1>1, <2>1, <2>3 DEF Prompt
  <2> HIDE DEF pushed
  <2> QED BY <2>2, <2>4 DEF Runtimes
<1>3. CASE Abort \/ IdleGap \/ TaskReleased
  <2>1. \/ rt' = [rt EXCEPT !.pendingAbort = TRUE] \/ rt' = [rt EXCEPT !.timer = FALSE]
        \/ \E late : rt' = [rt EXCEPT !.wake = @ \/ late]
    BY <1>1, <1>3 DEF Abort, IdleGap, TaskReleased
  <2> QED BY <1>1, <2>1 DEF Runtimes
<1>4. CASE \/ \E e \in {"tool", "output"} : Effect(e)
           \/ \E status \in {"complete", "interrupted", "failed"} : Terminal(status)
           \/ ToolAnswers \/ CompactBegins \/ CompactEnds
  BY <1>1, <1>4
     DEF Effect, Terminal, ToolAnswers, CompactBegins, CompactEnds, Runtimes
<1>5. CASE ToolEnds
  <2> DEFINE r == [rt EXCEPT !.tool = "none"]
  <2>1. r \in Runtimes /\ r.tool = "none"
    BY <1>1 DEF Runtimes, Tools
  <2>2. rt' = Gone \/ rt' = r \/ Interrupt(r)
    BY <1>5 DEF ToolEnds
  <2>3. Gone.tool = "none"
    BY DEF Gone
  <2> HIDE DEF r
  <2> QED BY <1>5, <2>1, <2>2, <2>3, InterruptKeeps
<1>6. CASE TaskStarts \/ TaskEnds
  BY <1>1, <1>6 DEF TaskStarts, TaskEnds
<1>7. CASE SwitchModel \/ LoopEnds
  <2>1. rt' \in {Gone, Asked(<<>>)}
    BY <1>7 DEF SwitchModel, LoopEnds, Replace
  <2>2. Gone.tool = "none" /\ Asked(<<>>).tool = "none"
    BY DEF Gone, Asked
  <2> QED BY <1>7, <2>1, <2>2
<1>8. CASE UNCHANGED vars
  BY <1>1, <1>8 DEF vars
<1>9. ~(\/ Launch \/ Built \/ LaunchFails \/ Pull \/ Prepared \/ PrepareFails
        \/ CloseComplete \/ CloseInterrupted \/ CloseFailed
        \/ RecoverFailed \/ RetryCredential)
  BY <1>1 DEF Launch, Built, LaunchFails, Pull, Prepared, PrepareFails, CloseComplete,
              CloseInterrupted, CloseFailed, RecoverFailed, RetryCredential, Closing
<1>10. ~Reported
  BY <1>1 DEF QueueInv, Fits, PlacesOK, Reported
<1> QED BY <1>2, <1>3, <1>4, <1>5, <1>6, <1>7, <1>8, <1>9, <1>10
        DEF Next, HostStep, ProviderStep

\* No prompt interrupts an unsafe tool or the delivery of its result, and an
\* abort waits for its end.
THEOREM ToolsAreNotCut == Spec => ToolsFinish
<1>1. QueueInv => rt.superseded \in BOOLEAN /\ rt \in Runtimes
  BY DEF QueueInv, Fits, Runtimes
<1>2. QueueInv /\ QueueInv' /\ [Next]_vars =>
        [InTurn /\ rt.tool \in {"unsafe", "delivering"} =>
           /\ rt'.tool = rt.tool => rt'.superseded = rt.superseded
           /\ rt'.life = "up" \/ ToolEnds \/ SwitchModel \/ LoopEnds]_vars
  <2> SUFFICES ASSUME QueueInv, QueueInv', [Next]_vars, InTurn,
                      rt.tool \in {"unsafe", "delivering"}
               PROVE  /\ rt'.tool = rt.tool => rt'.superseded = rt.superseded
                      /\ rt'.life = "up" \/ ToolEnds \/ SwitchModel \/ LoopEnds
    OBVIOUS
  <2>1. rt.superseded \in BOOLEAN /\ rt'.superseded \in BOOLEAN
    BY DEF QueueInv, Fits, Runtimes
  <2> QED BY <2>1, ToolHolds
<1> QED BY <1>2, QueueInvHolds, PTL DEF Spec, ToolsFinish

-----------------------------------------------------------------------------
(* A waiting generator is never left beside a prompt it could deliver.     *)

\* Whatever may be released is delivered, at least in part.
LEMMA DeliversSome ==
    ASSUME NEW r \in Runtimes, Deliverable(r) = <<>>, NEW a \in ToSet(r.queue)
    PROVE  ~CanRelease(r, a)
<1> DEFINE free == {b \in Atoms : CanRelease(r, b)}
           able == Within(r.queue, free)
           cut == {b \in Atoms \ {able[1]} : Apart(able[1], b)}
<1>1. r.queue \in Seq(Atoms) /\ a \in Atoms
  BY QueueFacts DEF Runtimes
<1>2. able \in Seq(Atoms) /\ ToSet(able) = ToSet(r.queue) \cap free
  <2> HIDE DEF free
  <2> QED BY <1>1, WithinFacts
<1>3. Before(able, cut) = <<>>
  BY DEF Deliverable
<1>4. PICK n \in 0..Len(able) : /\ Before(able, cut) = SubSeq(able, 1, n)
                                /\ n < Len(able) => able[n + 1] \in cut
  <2> HIDE DEF able, cut
  <2> QED BY <1>2, BeforePrefix
<1>5. n = 0
  <2> HIDE DEF able, cut
  <2>1. Len(SubSeq(able, 1, n)) = n
    BY <1>2
  <2> QED BY <1>3, <1>4, <2>1
<1>6. able[1] \notin cut
  OBVIOUS
<1>7. able = <<>>
  <2> HIDE DEF able, cut
  <2> QED BY <1>2, <1>4, <1>5, <1>6
<1>8. ToSet(able) = {}
  BY <1>7, SingleFacts
<1> HIDE DEF able
<1> QED BY <1>1, <1>2, <1>8

NothingFree(r) == \A a \in ToSet(r.queue) : ~CanRelease(r, a)

\* A tool and, unless the idle session compacts, a compaction belong to a turn
\* in progress.
WakeOK(r) ==
    /\ r.tool # "none" => r.gen = "running" /\ r.active
    /\ r.compacting => \/ r.gen = "running" /\ r.active
                       \/ r.gen = "waiting" /\ "idleCompact" \in Turmoil

WakeInv ==
    /\ WakeOK(rt)
    /\ "idleCompact" \notin Turmoil /\ rt.gen = "waiting" /\ ~taskEvent => NothingFree(rt)

LEMMA WakeElsewhere ==
    ASSUME WakeOK(rt'), rt'.gen # "waiting"
    PROVE  WakeInv'
BY DEF WakeInv, WakeOK

LEMMA GoneWakes ==
    ASSUME NEW r, r = Gone \/ \E q \in Seq(Atoms) : r = Asked(q)
    PROVE  WakeOK(r) /\ r.gen = "none"
<1>1. Gone.tool = "none" /\ ~Gone.compacting
  BY DEF Gone
<1>2. \A q \in Seq(Atoms) : Asked(q).tool = "none" /\ ~Asked(q).compacting
  BY DEF Asked, Gone
<1> QED BY <1>1, <1>2, GoneFacts DEF WakeOK

LEMMA ScanWakes ==
    ASSUME NEW r \in Runtimes, Scan(r), r.tool = "none",
           r.compacting => "idleCompact" \in Turmoil
    PROVE  WakeOK(rt') /\ (rt'.gen = "waiting" => NothingFree(rt'))
<1> DEFINE d == ToSet(Deliverable(r))
<1>1. CASE d = {}
  <2>1. rt' = [r EXCEPT !.gen = "waiting", !.wake = FALSE]
    BY <1>1 DEF Scan
  <2>2. /\ rt'.queue = r.queue /\ rt'.life = r.life /\ rt'.tool = r.tool
        /\ rt'.compacting = r.compacting /\ rt'.active = r.active /\ rt'.gen = "waiting"
    BY <2>1 DEF Runtimes
  <2>3. NothingFree(r)
    <3>1. Deliverable(r) = <<>>
      BY <1>1, DeliverableFacts, QueueFacts
    <3> QED BY <3>1, DeliversSome DEF NothingFree
  <2>4. NothingFree(rt')
    BY <2>2, <2>3 DEF NothingFree, CanRelease
  <2> QED BY <2>2, <2>4 DEF WakeOK
<1>2. CASE d # {}
  <2>1. rt' = [r EXCEPT !.gen = "preparing", !.turn = d, !.active = TRUE,
                        !.latch = "none", !.effects = {}, !.superseded = FALSE,
                        !.timer = FALSE, !.wake = r.wake /\ r.gen # "waiting"]
    BY <1>2 DEF Scan
  <2> HIDE DEF d
  <2>2. rt'.gen = "preparing" /\ rt'.tool = r.tool /\ rt'.compacting = r.compacting
    BY <2>1 DEF Runtimes
  <2>3. ~r.compacting
    BY <1>2, DeliverableFacts DEF CanRelease, d
  <2> QED BY <2>2, <2>3 DEF WakeOK
<1> QED BY <1>1, <1>2

LEMMA WakeStep ==
    ASSUME QueueInv, WakeInv, [Next]_vars
    PROVE  WakeInv'
<1>1. /\ rt \in Runtimes /\ WakeOK(rt)
      /\ (rt.life = "up") <=> (rt.gen # "none")
      /\ rt.gen \in {"preparing", "running"} \/ ~rt.active
  BY DEF QueueInv, Fits, PlacesOK, WakeInv
<1>2. CASE \E a \in Atoms : Prompt(a)
  <2>1. PICK a \in Atoms : Prompt(a)
    BY <1>2
  <2> DEFINE pushed == [rt EXCEPT !.queue = Append(@, a)]
  <2>2. /\ pushed \in Runtimes /\ pushed.life = rt.life /\ pushed.gen = rt.gen
        /\ pushed.tool = rt.tool /\ pushed.compacting = rt.compacting
        /\ pushed.active = rt.active
    <3>1. Append(rt.queue, a) \in Seq(Atoms)
      BY <1>1, AppendFacts DEF Runtimes
    <3> QED BY <1>1, <3>1 DEF Runtimes
  <2>3. UNCHANGED <<lane, task, taskEvent>>
    BY <2>1 DEF Prompt
  <2>4. CASE rt.gen = "waiting"
    <3>1. \/ Deliverable(pushed) = <<>> /\ rt' = pushed
          \/ Scan(pushed)
      BY <1>1, <2>1, <2>2, <2>4 DEF Prompt, MayInterrupt
    <3>2. pushed.tool = "none" /\ (pushed.compacting => "idleCompact" \in Turmoil)
      BY <1>1, <2>2, <2>4 DEF WakeOK
    <3> HIDE DEF pushed
    <3>3. WakeOK(rt') /\ (rt'.gen = "waiting" => NothingFree(rt'))
      <4>1. CASE Deliverable(pushed) = <<>> /\ rt' = pushed
        <5>1. WakeOK(pushed)
          BY <2>2, <2>4, <3>2 DEF WakeOK
        <5>2. NothingFree(pushed)
          BY <2>2, <4>1, DeliversSome DEF NothingFree
        <5> QED BY <4>1, <5>1, <5>2
      <4>2. CASE Scan(pushed)
        BY <2>2, <3>2, <4>2, ScanWakes
      <4> QED BY <3>1, <4>1, <4>2
    <3> QED BY <2>3, <3>3 DEF WakeInv, NothingFree, CanRelease
  <2>5. CASE rt.gen # "waiting"
    <3>1. \/ rt' = Asked(<<a>>) \/ rt' = rt \/ rt' = pushed
          \/ MayInterrupt(pushed, a) /\ Interrupt(pushed)
          \/ \E idleGap : rt' = [pushed EXCEPT !.wake = @ \/ idleGap, !.timer = @ \/ idleGap]
      BY <2>1, <2>5 DEF Prompt
    <3>2. <<a>> \in Seq(Atoms)
      OBVIOUS
    <3> HIDE DEF pushed
    <3>3. CASE rt' = Asked(<<a>>)
      BY <3>2, <3>3, GoneWakes, WakeElsewhere
    <3>4. CASE rt' = rt \/ rt' = pushed
      BY <1>1, <2>2, <2>5, <3>4, WakeElsewhere DEF WakeOK
    <3>5. CASE Interrupt(pushed)
      <4>1. rt' = pushed \/ \E q : rt' = [pushed EXCEPT !.queue = q, !.superseded = TRUE,
                                                        !.interrupted = TRUE]
        BY <3>5 DEF Interrupt
      <4>2. /\ rt'.gen = pushed.gen /\ rt'.tool = pushed.tool
            /\ rt'.compacting = pushed.compacting /\ rt'.active = pushed.active
        <5>1. ASSUME NEW q, rt' = [pushed EXCEPT !.queue = q, !.superseded = TRUE,
                                                  !.interrupted = TRUE]
              PROVE  /\ rt'.gen = pushed.gen /\ rt'.tool = pushed.tool
                     /\ rt'.compacting = pushed.compacting /\ rt'.active = pushed.active
          BY <2>2, <5>1 DEF Runtimes
        <5> QED BY <4>1, <5>1
      <4> QED BY <1>1, <2>2, <2>5, <4>2, WakeElsewhere DEF WakeOK
    <3>6. CASE \E idleGap : rt' = [pushed EXCEPT !.wake = @ \/ idleGap,
                                                 !.timer = @ \/ idleGap]
      <4>1. /\ rt'.gen = pushed.gen /\ rt'.tool = pushed.tool
            /\ rt'.compacting = pushed.compacting /\ rt'.active = pushed.active
        BY <2>2, <3>6 DEF Runtimes
      <4> QED BY <1>1, <2>2, <2>5, <4>1, WakeElsewhere DEF WakeOK
    <3> QED BY <3>1, <3>3, <3>4, <3>5, <3>6
  <2> QED BY <2>4, <2>5
<1>3. CASE Launch \/ Built
  <2>1. rt'.gen \in {"none", "fresh"} /\ rt'.tool = rt.tool /\ rt'.compacting = rt.compacting
        /\ rt.gen = "none"
    BY <1>1, <1>3 DEF Launch, Built, Runtimes
  <2> QED BY <1>1, <2>1, WakeElsewhere DEF WakeOK
<1>4. CASE \/ LaunchFails \/ SwitchModel \/ RecoverFailed \/ RetryCredential \/ LoopEnds
  <2>1. rt' \in {Gone, Asked(<<>>)}
    BY <1>4 DEF LaunchFails, SwitchModel, RecoverFailed, RetryCredential, LoopEnds, Replace
  <2> QED BY <2>1, GoneWakes, GoneFacts, WakeElsewhere
<1>5. CASE Abort
  <2>1. CASE rt' = Gone
    BY <2>1, GoneWakes, WakeElsewhere
  <2>2. CASE rt.tool # "none" /\ rt' = [rt EXCEPT !.pendingAbort = TRUE]
    <3>1. /\ rt'.gen = rt.gen /\ rt'.tool = rt.tool
          /\ rt'.compacting = rt.compacting /\ rt'.active = rt.active
      BY <1>1, <2>2 DEF Runtimes
    <3> QED BY <1>1, <2>2, <3>1, WakeElsewhere DEF WakeOK
  <2> QED BY <1>5, <2>1, <2>2 DEF Abort
<1>6. CASE IdleGap
  <2>1. CASE rt' \in {Gone, Asked(<<>>)}
    BY <2>1, GoneWakes, GoneFacts, WakeElsewhere
  <2>2. CASE rt' = [rt EXCEPT !.timer = FALSE]
    <3>1. /\ rt'.gen = rt.gen /\ rt'.tool = rt.tool /\ rt'.life = rt.life
          /\ rt'.compacting = rt.compacting /\ rt'.active = rt.active /\ rt'.queue = rt.queue
      BY <1>1, <2>2 DEF Runtimes
    <3>2. UNCHANGED <<lane, task, taskEvent>>
      BY <1>6 DEF IdleGap
    <3> QED BY <1>1, <3>1, <3>2 DEF WakeInv, WakeOK, NothingFree, CanRelease
  <2> QED BY <1>6, <2>1, <2>2 DEF IdleGap
<1>7. CASE TaskStarts
  BY <1>1, <1>7 DEF TaskStarts, WakeInv, WakeOK, NothingFree, CanRelease
<1>8. CASE TaskEnds
  BY <1>1, <1>8 DEF TaskEnds, WakeInv, WakeOK
<1>9. CASE TaskReleased
  <2>1. UNCHANGED <<lane, task>>
    BY <1>9 DEF TaskReleased
  <2>2. CASE rt.gen = "waiting" /\ Scan(rt)
    <3>1. rt.tool = "none" /\ (rt.compacting => "idleCompact" \in Turmoil)
      BY <1>1, <2>2 DEF WakeOK
    <3>2. WakeOK(rt') /\ (rt'.gen = "waiting" => NothingFree(rt'))
      BY <1>1, <2>2, <3>1, ScanWakes
    <3> QED BY <2>1, <3>2 DEF WakeInv, NothingFree, CanRelease
  <2>3. CASE /\ \E late : rt' = [rt EXCEPT !.wake = @ \/ late]
             /\ rt.gen = "waiting" => Deliverable(rt) = <<>>
    <3>1. /\ rt'.gen = rt.gen /\ rt'.tool = rt.tool /\ rt'.life = rt.life
          /\ rt'.compacting = rt.compacting /\ rt'.active = rt.active /\ rt'.queue = rt.queue
      BY <1>1, <2>3 DEF Runtimes
    <3>2. rt.gen = "waiting" => NothingFree(rt)
      BY <1>1, <2>3, DeliversSome DEF NothingFree
    <3> QED BY <1>1, <2>1, <3>1, <3>2 DEF WakeInv, WakeOK, NothingFree, CanRelease
  <2> QED BY <1>9, <2>2, <2>3 DEF TaskReleased
<1>10. CASE Pull
  <2>1. PICK q \in Seq(Atoms) :
           \/ Scan([rt EXCEPT !.queue = q])
           \/ Scan([rt EXCEPT !.queue = q, !.interrupted = FALSE,
                              !.turn = {}, !.superseded = FALSE])
    <3>1. stash \o rt.queue \in Seq(Atoms)
      BY <1>1, ConcatFacts DEF QueueInv, Fits, Runtimes
    <3>2. Retained(rt) \in Seq(Atoms) /\ Without(rt.queue, rt.turn) \in Seq(Atoms)
      BY <1>1, RetainedFacts, WithoutFacts DEF QueueInv, Fits, ApartOK, Runtimes
    <3> QED BY <1>10, <3>1, <3>2 DEF Pull
  <2>2. PICK r \in Runtimes : r.tool = rt.tool /\ r.compacting = rt.compacting /\ Scan(r)
    <3>1. CASE Scan([rt EXCEPT !.queue = q])
      <4> DEFINE r == [rt EXCEPT !.queue = q]
      <4>1. r \in Runtimes /\ r.tool = rt.tool /\ r.compacting = rt.compacting
        BY <1>1, <2>1 DEF Runtimes
      <4> QED BY <3>1, <4>1
    <3>2. CASE Scan([rt EXCEPT !.queue = q, !.interrupted = FALSE,
                               !.turn = {}, !.superseded = FALSE])
      <4> DEFINE r == [rt EXCEPT !.queue = q, !.interrupted = FALSE,
                                 !.turn = {}, !.superseded = FALSE]
      <4>1. r \in Runtimes /\ r.tool = rt.tool /\ r.compacting = rt.compacting
        BY <1>1, <2>1 DEF Runtimes
      <4> QED BY <3>2, <4>1
    <3> QED BY <2>1, <3>1, <3>2
  <2>3. rt.gen # "running" /\ UNCHANGED <<lane, task>>
    BY <1>10 DEF Pull
  <2>4. WakeOK(rt') /\ (rt'.gen = "waiting" => NothingFree(rt'))
    BY <1>1, <2>1, <2>2, <2>3, ScanWakes DEF WakeOK
  <2> QED BY <2>3, <2>4 DEF WakeInv, NothingFree, CanRelease
<1>11. CASE Prepared \/ PrepareFails
  <2>1. /\ rt'.gen \in {"running", "broken"} /\ rt'.tool = rt.tool
        /\ rt'.compacting = rt.compacting /\ rt.gen = "preparing"
    <3>1. CASE Prepared
      BY <1>1, <3>1 DEF Prepared, Runtimes
    <3>2. CASE PrepareFails
      BY <1>1, <3>2 DEF PrepareFails, Runtimes
    <3> QED BY <1>11, <3>1, <3>2
  <2> QED BY <1>1, <2>1, WakeElsewhere DEF WakeOK
<1>12. CASE CloseComplete \/ CloseInterrupted \/ CloseFailed
  <2>1. Quiet(rt) \in Runtimes /\ Quiet(rt).tool = "none" /\ ~Quiet(rt).compacting
        /\ Quiet(rt).gen = rt.gen
    BY <1>1 DEF Quiet, Runtimes, Tools
  <2>2. /\ rt'.gen \in {"running", "ended"} /\ rt'.tool = "none" /\ ~rt'.compacting
    <3>1. \/ rt' = [Quiet(rt) EXCEPT !.gen = "ended", !.pendingAbort = FALSE]
          \/ \E over, q : rt' = [Quiet(rt) EXCEPT !.gen = "ended", !.interrupted = over, !.queue = q]
          \/ rt.gen = "running" /\ rt' = [Quiet(rt) EXCEPT !.pendingAbort = FALSE]
      <4>1. CloseInterrupted => \E over, q : rt' = [Quiet(rt) EXCEPT !.gen = "ended",
                                                      !.interrupted = over, !.queue = q]
        BY <2>1 DEF CloseInterrupted
      <4> QED BY <1>12, <4>1 DEF CloseComplete, CloseFailed, Closing
    <3>2. ASSUME NEW over, NEW q, rt' = [Quiet(rt) EXCEPT !.gen = "ended",
                                           !.interrupted = over, !.queue = q]
          PROVE  rt'.gen = "ended" /\ rt'.tool = "none" /\ ~rt'.compacting
      BY <2>1, <3>2 DEF Runtimes
    <3> QED BY <2>1, <3>1, <3>2 DEF Runtimes
  <2> QED BY <2>2, WakeElsewhere DEF WakeOK
<1>13. CASE Reported
  <2>1. /\ rt'.gen = "ended" /\ rt'.tool = rt.tool
        /\ rt'.compacting = rt.compacting /\ ~rt.active /\ rt.gen = "running"
    BY <1>1, <1>13 DEF Reported, Runtimes
  <2> QED BY <1>1, <2>1, WakeElsewhere DEF WakeOK
<1>14. CASE \/ \E e \in {"tool", "output"} : Effect(e)
            \/ \E status \in {"complete", "interrupted", "failed"} : Terminal(status)
            \/ ToolAnswers
  <2>1. rt'.gen = "running" /\ rt'.active = rt.active
    BY <1>1, <1>14 DEF Effect, Terminal, ToolAnswers, InTurn, Runtimes
  <2>2. rt.active
    BY <1>14 DEF QueueInv, Fits, PlacesOK, Effect, Terminal, ToolAnswers, InTurn
  <2> QED BY <2>1, <2>2, WakeElsewhere DEF WakeOK
<1>15. CASE CompactBegins \/ CompactEnds
  <2>1. rt'.gen = rt.gen /\ rt'.active = rt.active /\ rt'.tool = rt.tool
    BY <1>1, <1>15 DEF CompactBegins, CompactEnds, Runtimes
  <2>2. CASE InTurn
    <3>1. rt.gen = "running" /\ rt.active
      BY <2>2 DEF QueueInv, Fits, PlacesOK, InTurn
    <3> QED BY <2>1, <3>1, WakeElsewhere DEF WakeOK
  <2>3. CASE ~InTurn /\ rt.gen = "waiting" /\ "idleCompact" \in Turmoil
    BY <1>1, <2>1, <2>3 DEF WakeInv, WakeOK
  <2>4. InTurn \/ (rt.gen = "waiting" /\ "idleCompact" \in Turmoil)
    BY <1>1, <1>15 DEF CompactBegins, CompactEnds, WakeOK
  <2> QED BY <2>2, <2>3, <2>4
<1>16. CASE ToolEnds
  <2> DEFINE r == [rt EXCEPT !.tool = "none"]
  <2>1. /\ r \in Runtimes /\ r.gen = "running" /\ r.active = rt.active
        /\ r.compacting = rt.compacting /\ r.tool = "none" /\ rt.gen = "running"
    BY <1>1, <1>16 DEF ToolEnds, InTurn, Runtimes, Tools
  <2>2. rt' = Gone \/ rt' = r \/ Interrupt(r)
    BY <1>16 DEF ToolEnds
  <2> HIDE DEF r
  <2>3. CASE rt' = Gone
    BY <2>3, GoneWakes, WakeElsewhere
  <2>4. CASE rt' = r
    BY <1>1, <2>1, <2>4, WakeElsewhere DEF WakeOK
  <2>5. CASE Interrupt(r)
    <3>1. rt' = r \/ \E q : rt' = [r EXCEPT !.queue = q, !.superseded = TRUE,
                                            !.interrupted = TRUE]
      BY <2>5 DEF Interrupt
    <3>2. /\ rt'.gen = r.gen /\ rt'.tool = r.tool
          /\ rt'.compacting = r.compacting /\ rt'.active = r.active
      BY <2>1, <3>1 DEF Runtimes
    <3> QED BY <1>1, <2>1, <3>2, WakeElsewhere DEF WakeOK
  <2> QED BY <2>2, <2>3, <2>4, <2>5
<1>17. CASE UNCHANGED vars
  BY <1>17 DEF vars, WakeInv, WakeOK, NothingFree, CanRelease
<1> QED BY <1>2, <1>3, <1>4, <1>5, <1>6, <1>7, <1>8, <1>9, <1>10, <1>11, <1>12, <1>13,
           <1>14, <1>15, <1>16, <1>17 DEF Next, HostStep, ProviderStep

\* A generator that waits on pushMessage has nothing to deliver, unless the end
\* of a task that will wake it is on its way - as long as no session compacts
\* between its turns, the end of which wakes nobody.
THEOREM NoWakeIsLost ==
    ASSUME "idleCompact" \notin Turmoil
    PROVE  Spec => []NoLostWake
<1>1. Init => WakeInv
  BY GoneWakes DEF Init, WakeInv
<1>2. QueueInv /\ WakeInv /\ [Next]_vars => WakeInv'
  BY WakeStep
<1>3. QueueInv /\ WakeInv => NoLostWake
  <2> SUFFICES ASSUME QueueInv, WakeInv, rt.gen = "waiting", ~taskEvent
               PROVE  Deliverable(rt) = <<>>
    BY DEF NoLostWake
  <2>1. rt \in Runtimes
    BY DEF QueueInv, Fits
  <2>2. ToSet(Deliverable(rt)) = {}
    BY <2>1, DeliverableFacts DEF WakeInv, NothingFree
  <2> QED BY <2>1, <2>2, DeliverableFacts, QueueFacts
<1> QED BY <1>1, <1>2, <1>3, QueueInvHolds, PTL DEF Spec

-----------------------------------------------------------------------------
(* No prompt is lost while nothing replaces a runtime whose generator has  *)
(* not begun, or whose last turn is over.                                  *)

\* The trouble under which a prompt may be lost: a runtime that is taken down
\* outside a turn, or whose launch fails.
Losing == {"credential", "exit", "launch", "abort", "earlyAbort", "switch", "slow"}

FoldedIn(c, a) == \E b \in Atoms \ {a} : a \in c[b]

\* Every arrived atom is settled, queued, stashed or folded into another.
AllSomewhere(r, sh, st, ar, c) ==
    \A a \in ToSet(ar) :
        a \in st \/ a \in ToSet(r.queue) \/ a \in ToSet(sh) \/ FoldedIn(c, a)

\* The converse of OwedOK: a turn that will not be replayed is settled.  Once
\* the generator took the stash, nothing is in it.
TurnKept(r, sh, st) ==
    /\ r.superseded \/ ~Replayable(r) => r.turn \subseteq st
    /\ r.life = "up" /\ r.gen # "fresh" => sh = <<>>
    /\ r.gen = "preparing" => r.turn \subseteq ToSet(r.queue) /\ r.effects = {}
    /\ r.gen \in {"preparing", "running", "ended"} => r.turn # {}
    /\ r.gen = "broken" => r.latch = "none"

Carrying(c) == \A a \in Atoms : a \in c[a]

KeptInv ==
    /\ AllSomewhere(rt, stash, settled, arrived, carries)
    /\ TurnKept(rt, stash, settled) /\ Carrying(carries)

\* What is not carried over is settled.
LEMMA CarriesAll ==
    ASSUME NEW r \in Runtimes, IsInjective(r.queue), NEW sh, NEW st, TurnKept(r, sh, st),
           r.gen \in {"running", "ended", "broken"}, r.gen = "broken" => ~r.superseded
    PROVE  ToSet(r.queue) \subseteq ToSet(Carryable(r)) \cup st
<1>1. ToSet(Successors(r)) = IF r.turn = {} THEN {} ELSE ToSet(r.queue) \ r.turn
  BY SuccessorsFacts
<1>2. ToSet(Retained(r)) = IF r.superseded THEN ToSet(r.queue) \ r.turn ELSE ToSet(r.queue)
  BY RetainedFacts
<1>3. Replayable(r) => ToSet(r.queue) \subseteq ToSet(Retained(r)) \cup st
  BY <1>2 DEF TurnKept
<1>4. r.gen = "broken" => Replayable(r) /\ r.latch # "complete"
  BY DEF TurnKept, Replayable
<1>5. r.gen # "broken" /\ ~Replayable(r) =>
         r.turn # {} /\ ToSet(r.queue) \subseteq ToSet(Successors(r)) \cup st
  BY <1>1 DEF TurnKept
<1>6. r.gen # "broken" /\ r.latch = "complete" => ~Replayable(r)
  BY DEF Replayable
<1> QED BY <1>3, <1>4, <1>5, <1>6 DEF Carryable

LEMMA SavesAll ==
    ASSUME QueueInv, KeptInv, rt.gen \in {"running", "ended", "broken"},
           NEW r \in {Gone, Asked(<<>>)}
    PROVE  /\ AllSomewhere(r, Saved(rt), settled, arrived, carries)
           /\ TurnKept(r, Saved(rt), settled)
<1>1. rt \in Runtimes /\ IsInjective(rt.queue) /\ rt.life = "up"
      /\ (rt.gen = "broken" => ~rt.superseded)
  BY DEF QueueInv, Fits, ApartOK, PlacesOK, FlagsOK
<1>2. stash = <<>> /\ TurnKept(rt, stash, settled)
  BY <1>1 DEF KeptInv, TurnKept
<1>3. ToSet(rt.queue) \subseteq ToSet(Carryable(rt)) \cup settled
  BY <1>1, <1>2, CarriesAll
<1>4. Saved(rt) = Carryable(rt)
  BY <1>2 DEF Saved
<1>5. AllSomewhere(rt, <<>>, settled, arrived, carries)
  BY <1>2 DEF KeptInv
<1>6. AllSomewhere(r, Saved(rt), settled, arrived, carries)
  BY <1>3, <1>4, <1>5, SingleFacts DEF AllSomewhere
<1>7. r.turn = {} /\ r.life # "up" /\ r.gen = "none"
  BY GoneFacts
<1> QED BY <1>6, <1>7 DEF TurnKept

\* The parts of a runtime that matter here are the same.
LEMMA SameKept ==
    ASSUME KeptInv, rt'.queue = rt.queue, rt'.turn = rt.turn, rt'.gen = rt.gen,
           rt'.life = rt.life, rt'.superseded = rt.superseded, rt'.latch = rt.latch,
           rt'.ahead = rt.ahead, rt'.effects = rt.effects,
           UNCHANGED <<stash, settled, arrived, carries>>
    PROVE  KeptInv'
BY DEF KeptInv, AllSomewhere, TurnKept, Carrying, FoldedIn, Replayable

\* An interruption folds the cohort, and settles the turn.
LEMMA InterruptKept ==
    ASSUME NEW r \in Runtimes, IsInjective(r.queue), NEW ar,
           carries \in [Atoms -> SUBSET Atoms], Carrying(carries),
           AllSomewhere(r, stash, settled, ar, carries),
           TurnKept(r, stash, settled), Interrupt(r)
    PROVE  /\ AllSomewhere(rt', stash, settled', ar, carries')
           /\ TurnKept(rt', stash, settled') /\ Carrying(carries')
<1> DEFINE fold == Cohort(r)
           lead == fold[Len(fold)]
           now == Within(r.queue, r.turn)
           rest == Without(r.queue, r.turn \cup ToSet(fold))
           q == now \o <<lead>> \o rest
<1>1. CASE fold = <<>>
  BY <1>1 DEF Interrupt
<1>2. CASE fold # <<>>
  <2>1. /\ rt' = [r EXCEPT !.queue = q, !.superseded = TRUE, !.interrupted = TRUE]
        /\ carries' = [carries EXCEPT ![lead] = UNION {carries[a] : a \in ToSet(fold)}]
        /\ settled' = settled \cup r.turn
    BY <1>2 DEF Interrupt
  <2>2. /\ fold \in Seq(Atoms) /\ lead \in ToSet(fold) /\ lead \in Atoms
        /\ ToSet(fold) \subseteq Atoms
    <3>1. fold \in Seq(Atoms)
      BY CohortFacts
    <3> HIDE DEF fold
    <3> QED BY <3>1, <1>2, QueueFacts
  <2>3. now \in Seq(Atoms) /\ ToSet(now) = ToSet(r.queue) \cap r.turn
    BY CurrentFacts
  <2>4. rest \in Seq(Atoms) /\ ToSet(rest) = ToSet(r.queue) \ (r.turn \cup ToSet(fold))
    BY WithoutFacts DEF Runtimes
  <2> HIDE DEF fold, lead, now, rest
  <2>5. <<lead>> \in Seq(Atoms) /\ ToSet(<<lead>>) = {lead}
    BY <2>2, SingleFacts
  <2>6. now \o <<lead>> \in Seq(Atoms) /\ ToSet(now \o <<lead>>) = ToSet(now) \cup {lead}
    BY <2>3, <2>5, ConcatFacts
  <2>7. q \in Seq(Atoms) /\ ToSet(q) = ToSet(now) \cup {lead} \cup ToSet(rest)
    <3> DEFINE front == now \o <<lead>>
    <3>1. front \in Seq(Atoms) /\ ToSet(front) = ToSet(now) \cup {lead}
      BY <2>6
    <3> HIDE DEF front
    <3>2. front \o rest \in Seq(Atoms) /\ ToSet(front \o rest) = ToSet(front) \cup ToSet(rest)
      BY <2>4, <3>1, ConcatFacts
    <3> QED BY <3>1, <3>2 DEF front
  <2> HIDE DEF q
  <2>8. /\ rt'.queue = q /\ rt'.superseded /\ rt'.life = r.life /\ rt'.gen = r.gen
        /\ rt'.turn = r.turn /\ rt'.latch = r.latch /\ rt'.effects = r.effects
    BY <2>1, <2>7 DEF Runtimes
  <2>9. \A a \in Atoms : carries[a] \subseteq carries'[a]
    BY <2>1, <2>2
  <2>10. \A a \in ToSet(fold) : a \in carries'[lead]
    BY <2>1, <2>2 DEF Carrying
  <2>11. Carrying(carries')
    BY <2>9 DEF Carrying
  <2>12. \A a \in Atoms : FoldedIn(carries, a) => FoldedIn(carries', a)
    BY <2>9 DEF FoldedIn
  <2>13. \A a \in ToSet(fold) : a = lead \/ FoldedIn(carries', a)
    BY <2>2, <2>10 DEF FoldedIn
  <2>14. AllSomewhere(rt', stash, settled', ar, carries')
    <3> SUFFICES ASSUME NEW a \in ToSet(ar)
                 PROVE  \/ a \in settled' \/ a \in ToSet(rt'.queue) \/ a \in ToSet(stash)
                        \/ FoldedIn(carries', a)
      BY DEF AllSomewhere
    <3>1. a \in settled \/ a \in ToSet(r.queue) \/ a \in ToSet(stash) \/ FoldedIn(carries, a)
      BY DEF AllSomewhere
    <3>2. CASE a \in ToSet(r.queue)
      BY <3>2, <2>1, <2>3, <2>4, <2>7, <2>8, <2>13
    <3>3. CASE FoldedIn(carries, a)
      BY <3>3, <2>9 DEF FoldedIn
    <3> QED BY <3>1, <3>2, <3>3, <2>1
  <2>15. r.gen = "preparing" => r.turn \subseteq ToSet(rt'.queue)
    BY <2>3, <2>7, <2>8 DEF TurnKept
  <2>16. TurnKept(rt', stash, settled')
    BY <2>1, <2>8, <2>15 DEF TurnKept
  <2> QED BY <2>11, <2>14, <2>16
<1> QED BY <1>1, <1>2

\* A scan keeps the queue, over an empty stash.
LEMMA ScanKept ==
    ASSUME NEW r \in Runtimes, NEW st, NEW ar, NEW c,
           AllSomewhere(r, <<>>, st, ar, c), Scan(r), r.turn = {}
    PROVE  AllSomewhere(rt', <<>>, st, ar, c) /\ TurnKept(rt', <<>>, st)
<1> DEFINE d == ToSet(Deliverable(r))
<1>1. CASE d = {}
  <2>1. rt' = [r EXCEPT !.gen = "waiting", !.wake = FALSE]
    BY <1>1 DEF Scan
  <2>2. rt'.queue = r.queue /\ rt'.gen = "waiting" /\ rt'.turn = {}
    BY <2>1 DEF Runtimes
  <2> QED BY <2>2 DEF AllSomewhere, TurnKept
<1>2. CASE d # {}
  <2>1. rt' = [r EXCEPT !.gen = "preparing", !.turn = d, !.active = TRUE,
                        !.latch = "none", !.effects = {}, !.superseded = FALSE,
                        !.timer = FALSE, !.wake = r.wake /\ r.gen # "waiting"]
    BY <1>2 DEF Scan
  <2>2. d \subseteq ToSet(r.queue)
    BY DeliverableFacts
  <2> HIDE DEF d
  <2>3. /\ rt'.queue = r.queue /\ rt'.gen = "preparing" /\ rt'.turn = d /\ ~rt'.superseded
        /\ rt'.latch = "none" /\ rt'.effects = {}
    BY <2>1 DEF Runtimes
  <2> QED BY <1>2, <2>2, <2>3 DEF AllSomewhere, TurnKept, Replayable
<1> QED BY <1>1, <1>2

\* Where a runtime is taken down, it saves what it carries.
LEMMA RuntimeEndsKept ==
    ASSUME Turmoil \cap Losing = {}, QueueInv, KeptInv,
           \/ /\ IdleGap /\ ~rt.active /\ rt.gen # "waiting" /\ Deliverable(rt) # <<>>
              /\ rt' \in {Gone, Asked(<<>>)} /\ stash' = Saved(rt)
           \/ RecoverFailed \/ LoopEnds
           \/ ToolEnds /\ rt' = Gone /\ stash' = Saved([rt EXCEPT !.tool = "none"])
              /\ UNCHANGED <<carries, settled, promised>>
    PROVE  /\ rt' \in {Gone, Asked(<<>>)} /\ stash' = Saved(rt)
           /\ rt.gen \in {"running", "ended", "broken"}
           /\ UNCHANGED <<settled, arrived, carries>>
<1>1. /\ rt \in Runtimes /\ Fits(rt, stash, settled, arrived)
  BY DEF QueueInv, Fits
<1>2. TurnKept(rt, stash, settled)
  BY DEF KeptInv
<1>3. CASE /\ IdleGap /\ ~rt.active /\ rt.gen # "waiting" /\ Deliverable(rt) # <<>>
           /\ rt' \in {Gone, Asked(<<>>)} /\ stash' = Saved(rt)
  <2>1. rt.gen # "fresh"
    BY <1>3 DEF IdleGap, Losing
  <2>2. rt.life = "up"
    <3>1. PICK a \in ToSet(Deliverable(rt)) : CanRelease(rt, a)
      BY <1>1, <1>3, DeliverableFacts, QueueFacts
    <3> QED BY <3>1 DEF CanRelease
  <2>3. rt.gen # "none" /\ rt.gen # "preparing" /\ rt.gen \in Places
    BY <1>1, <1>3, <2>2 DEF Fits, PlacesOK, Runtimes
  <2> QED BY <1>3, <2>1, <2>3 DEF IdleGap, history, Places
<1>4. CASE RecoverFailed
  <2>1. rt' \in {Gone, Asked(<<>>)} /\ stash' = Saved(rt) /\ rt.gen = "running"
        /\ UNCHANGED <<settled, arrived, carries>>
    BY <1>4 DEF RecoverFailed, Closing, Replace
  <2> QED BY <2>1
<1>5. CASE LoopEnds
  <2>1. rt.gen = "broken"
    BY <1>5 DEF LoopEnds, Losing
  <2>2. stash = <<>>
    BY <1>2, <1>5, <2>1 DEF LoopEnds, TurnKept
  <2>3. Replace(IF Saved(rt) = <<>> THEN stash ELSE Saved(rt), Saved(rt) # <<>>)
    <3>1. Replace(IF Rest = <<>> THEN stash ELSE Rest, Rest # <<>>)
      BY <1>5 DEF LoopEnds
    <3>2. Rest = Saved(rt)
      BY <2>1 DEF Rest, InTurn
    <3> QED BY <3>1, <3>2
  <2>4. Ambiguous = {} /\ settled' = settled \ Ambiguous
    BY <1>5, <2>1 DEF LoopEnds, Ambiguous, InTurn
  <2> QED BY <2>1, <2>2, <2>3, <2>4 DEF Replace
<1>6. CASE ToolEnds /\ rt' = Gone /\ stash' = Saved([rt EXCEPT !.tool = "none"])
           /\ UNCHANGED <<carries, settled, promised>>
  <2> DEFINE r == [rt EXCEPT !.tool = "none"]
  <2>1. /\ r.gen = rt.gen /\ r.turn = rt.turn /\ r.queue = rt.queue
        /\ r.superseded = rt.superseded /\ r.latch = rt.latch
        /\ r.ahead = rt.ahead /\ r.effects = rt.effects
    BY <1>1 DEF Runtimes
  <2> HIDE DEF r
  <2>2. Saved(r) = Saved(rt)
    BY <2>1 DEF Saved, Carryable, Retained, Successors, Replayable
  <2> QED BY <1>6, <2>2 DEF ToolEnds, InTurn, r
<1> QED BY <1>3, <1>4, <1>5, <1>6

LEMMA KeptInitial == Init => KeptInv
<1> SUFFICES ASSUME Init PROVE KeptInv
  OBVIOUS
<1>1. ToSet(arrived) = {} /\ \A a \in Atoms : a \in carries[a]
  BY SingleFacts DEF Init
<1>2. TurnKept(rt, stash, settled)
  BY GoneFacts DEF Init, TurnKept
<1> QED BY <1>1, <1>2 DEF KeptInv, AllSomewhere, Carrying

\* Whatever happens, but what takes a runtime down outside a turn.
LEMMA KeptStep ==
    ASSUME Turmoil \cap Losing = {}, QueueInv, KeptInv, [Next]_vars
    PROVE  KeptInv'
<1>1. /\ rt \in Runtimes /\ rt.queue \in Seq(Atoms) /\ stash \in Seq(Atoms)
      /\ IsInjective(rt.queue)
      /\ Fits(rt, stash, settled, arrived) /\ arrived \in Seq(Atoms)
      /\ carries \in [Atoms -> SUBSET Atoms]
  BY DEF QueueInv, OthersOK, Fits, ApartOK, Runtimes
<1>2. /\ AllSomewhere(rt, stash, settled, arrived, carries)
      /\ TurnKept(rt, stash, settled) /\ Carrying(carries)
  BY DEF KeptInv
<1>3. CASE \E a \in Atoms : Prompt(a)
  <2>1. PICK a \in Atoms : Prompt(a)
    BY <1>3
  <2>2. /\ a \notin ToSet(arrived) /\ arrived' = Append(arrived, a)
        /\ ToSet(arrived') = ToSet(arrived) \cup {a}
    BY <1>1, <2>1, AppendFacts DEF Prompt
  <2> DEFINE q == Append(rt.queue, a)
             pushed == [rt EXCEPT !.queue = q]
  <2>3. q \in Seq(Atoms) /\ ToSet(q) = ToSet(rt.queue) \cup {a}
    BY <1>1, AppendFacts
  <2>4. /\ pushed \in Runtimes /\ pushed.life = rt.life /\ pushed.gen = rt.gen
        /\ pushed.turn = rt.turn /\ pushed.queue = q /\ pushed.superseded = rt.superseded
        /\ pushed.latch = rt.latch /\ pushed.ahead = rt.ahead /\ pushed.effects = rt.effects
    BY <1>1, <2>3 DEF Runtimes
  <2> HIDE DEF q
  <2>5. AllSomewhere(pushed, stash, settled, arrived', carries)
    BY <1>2, <2>2, <2>3, <2>4 DEF AllSomewhere
  <2>6. TurnKept(pushed, stash, settled)
    BY <1>2, <2>3, <2>4 DEF TurnKept, Replayable
  <2>7. CASE /\ rt.life = "none" /\ rt' = Asked(<<a>>)
             /\ UNCHANGED <<stash, stamped, carries, settled, promised>>
    <3>1. rt.queue = <<>>
      BY <1>1, <2>7 DEF Fits, PlacesOK
    <3>2. /\ rt'.queue = <<a>> /\ rt'.gen = "none" /\ rt'.turn = {} /\ rt'.life = "asked"
          /\ ToSet(<<a>>) = {a}
      BY <2>7, GoneFacts, SingleFacts
    <3>3. AllSomewhere(rt', stash, settled, arrived', carries)
      BY <1>2, <2>2, <3>1, <3>2, SingleFacts DEF AllSomewhere
    <3>4. TurnKept(rt', stash, settled)
      BY <3>2 DEF TurnKept
    <3> QED BY <1>2, <2>7, <3>3, <3>4 DEF KeptInv
  <2>8. CASE /\ rt.life = "asked" /\ stash' = Append(stash, a)
             /\ UNCHANGED <<rt, stamped, carries, settled, promised>>
    <3>1. ToSet(stash') = ToSet(stash) \cup {a}
      BY <1>1, <2>8, AppendFacts
    <3>2. AllSomewhere(rt, stash', settled, arrived', carries)
      BY <1>2, <2>2, <3>1 DEF AllSomewhere
    <3>3. TurnKept(rt, stash', settled)
      BY <1>2, <2>8 DEF TurnKept
    <3> QED BY <1>2, <2>8, <3>2, <3>3 DEF KeptInv
  <2>9. CASE rt' = pushed /\ UNCHANGED <<stash, carries, settled>>
    BY <1>2, <2>5, <2>6, <2>9 DEF KeptInv
  <2>10. CASE rt.gen = "waiting" /\ Scan(pushed) /\ UNCHANGED <<stash, carries, settled>>
    <3>1. stash = <<>> /\ rt.turn = {}
      BY <1>1, <1>2, <2>10 DEF Fits, PlacesOK, TurnKept
    <3>2. AllSomewhere(rt', <<>>, settled, arrived', carries) /\ TurnKept(rt', <<>>, settled)
      BY <2>4, <2>5, <2>10, <3>1, ScanKept
    <3> QED BY <1>2, <2>10, <3>1, <3>2 DEF KeptInv
  <2>11. CASE Interrupt(pushed) /\ UNCHANGED <<stash, stamped>>
    <3>1. IsInjective(pushed.queue)
      BY <1>1, <2>2, <2>4, AppendFacts DEF q, Fits, KnownOK
    <3> HIDE DEF pushed
    <3>2. /\ AllSomewhere(rt', stash, settled', arrived', carries')
          /\ TurnKept(rt', stash, settled') /\ Carrying(carries')
      BY <1>1, <1>2, <2>4, <2>5, <2>6, <2>11, <3>1, InterruptKept
    <3> QED BY <2>11, <3>2 DEF KeptInv
  <2>12. CASE /\ \E idleGap : rt' = [pushed EXCEPT !.wake = @ \/ idleGap,
                                                   !.timer = @ \/ idleGap]
              /\ UNCHANGED <<stash, carries, settled>>
    <3>1. /\ rt'.life = rt.life /\ rt'.gen = rt.gen
          /\ rt'.turn = rt.turn /\ rt'.queue = q /\ rt'.superseded = rt.superseded
          /\ rt'.latch = rt.latch /\ rt'.ahead = rt.ahead /\ rt'.effects = rt.effects
      BY <2>4, <2>12 DEF Runtimes
    <3>2. AllSomewhere(rt', stash, settled, arrived', carries)
      BY <2>4, <2>5, <3>1 DEF AllSomewhere
    <3>3. TurnKept(rt', stash, settled)
      BY <2>4, <2>6, <3>1 DEF TurnKept, Replayable
    <3> QED BY <1>2, <2>12, <3>2, <3>3 DEF KeptInv
  <2> QED BY <2>1, <2>7, <2>8, <2>9, <2>10, <2>11, <2>12 DEF Prompt, q
<1>4. CASE Launch \/ Built
  <2>1. /\ rt'.life \in {"launching", "up"} /\ rt'.queue = rt.queue /\ rt'.turn = rt.turn
        /\ rt'.gen \in {"none", "fresh"} /\ rt.turn = {}
        /\ rt'.life = "up" => rt'.gen = "fresh"
    BY <1>1, <1>4 DEF Launch, Built, Fits, PlacesOK, Runtimes
  <2>2. UNCHANGED <<stash, settled, arrived, carries>>
    BY <1>4 DEF Launch, Built, history
  <2>3. AllSomewhere(rt', stash, settled, arrived, carries)
    BY <1>2, <2>1 DEF AllSomewhere
  <2>4. TurnKept(rt', stash, settled)
    BY <2>1 DEF TurnKept
  <2> QED BY <1>2, <2>2, <2>3, <2>4 DEF KeptInv
<1>5. ~LaunchFails /\ ~SwitchModel /\ ~RetryCredential /\ ~Abort
  BY DEF LaunchFails, SwitchModel, RetryCredential, Abort, Losing
<1>6. CASE \/ /\ IdleGap /\ ~rt.active /\ rt.gen # "waiting" /\ Deliverable(rt) # <<>>
              /\ rt' \in {Gone, Asked(<<>>)} /\ stash' = Saved(rt)
           \/ RecoverFailed \/ LoopEnds
           \/ ToolEnds /\ rt' = Gone /\ stash' = Saved([rt EXCEPT !.tool = "none"])
              /\ UNCHANGED <<carries, settled, promised>>
  <2>1. /\ rt' \in {Gone, Asked(<<>>)} /\ stash' = Saved(rt)
        /\ rt.gen \in {"running", "ended", "broken"}
        /\ UNCHANGED <<settled, arrived, carries>>
    BY <1>6, RuntimeEndsKept
  <2>2. /\ AllSomewhere(rt', stash', settled, arrived, carries)
        /\ TurnKept(rt', stash', settled)
    BY <2>1, SavesAll
  <2> QED BY <1>2, <2>1, <2>2 DEF KeptInv
<1>7. CASE IdleGap /\ rt' = [rt EXCEPT !.timer = FALSE] /\ UNCHANGED stash
  <2>1. /\ rt'.queue = rt.queue /\ rt'.turn = rt.turn /\ rt'.gen = rt.gen
        /\ rt'.life = rt.life /\ rt'.superseded = rt.superseded /\ rt'.latch = rt.latch
        /\ rt'.ahead = rt.ahead /\ rt'.effects = rt.effects
    BY <1>1, <1>7 DEF Runtimes
  <2>2. UNCHANGED <<stash, settled, arrived, carries>>
    BY <1>7 DEF IdleGap, history
  <2> QED BY <2>1, <2>2, SameKept
<1>8. CASE TaskStarts \/ TaskEnds \/ UNCHANGED vars
  <2>1. UNCHANGED <<rt, stash, settled, arrived, carries>>
    BY <1>8 DEF TaskStarts, TaskEnds, vars, history
  <2> QED BY <2>1, SameKept
<1>9. CASE TaskReleased
  <2>1. UNCHANGED <<stash, settled, arrived, carries>>
    BY <1>9 DEF TaskReleased, history
  <2>2. CASE rt.gen = "waiting" /\ Scan(rt)
    <3>1. stash = <<>> /\ rt.turn = {}
      BY <1>1, <1>2, <2>2 DEF Fits, PlacesOK, TurnKept
    <3>2. /\ AllSomewhere(rt', <<>>, settled, arrived, carries)
          /\ TurnKept(rt', <<>>, settled)
      BY <1>1, <1>2, <2>2, <3>1, ScanKept
    <3> QED BY <1>2, <2>1, <3>1, <3>2 DEF KeptInv
  <2>3. CASE \E late : rt' = [rt EXCEPT !.wake = @ \/ late]
    <3>1. /\ rt'.queue = rt.queue /\ rt'.turn = rt.turn /\ rt'.gen = rt.gen
          /\ rt'.life = rt.life /\ rt'.superseded = rt.superseded /\ rt'.latch = rt.latch
          /\ rt'.ahead = rt.ahead /\ rt'.effects = rt.effects
      BY <1>1, <2>3 DEF Runtimes
    <3> QED BY <2>1, <3>1, SameKept
  <2> QED BY <1>9, <2>2, <2>3 DEF TaskReleased
<1>10. CASE Pull
  <2>1. UNCHANGED <<arrived, carries>>
    BY <1>10 DEF Pull
  <2>2. CASE /\ rt.gen = "fresh" /\ Scan([rt EXCEPT !.queue = stash \o @])
             /\ stash' = <<>> /\ UNCHANGED settled
    <3> DEFINE q == stash \o rt.queue
               r == [rt EXCEPT !.queue = q]
    <3>1. q \in Seq(Atoms) /\ ToSet(q) = ToSet(stash) \cup ToSet(rt.queue)
      BY <1>1, ConcatFacts
    <3> HIDE DEF q
    <3>2. r \in Runtimes /\ r.queue = q /\ r.turn = rt.turn
      BY <1>1, <3>1 DEF Runtimes
    <3>3. Scan(r) /\ rt.turn = {}
      BY <1>1, <2>2 DEF q, Fits, PlacesOK
    <3> HIDE DEF r
    <3>4. AllSomewhere(r, <<>>, settled, arrived, carries)
      BY <1>2, <3>1, <3>2 DEF AllSomewhere
    <3>5. /\ AllSomewhere(rt', <<>>, settled, arrived, carries)
          /\ TurnKept(rt', <<>>, settled)
      BY <3>2, <3>3, <3>4, ScanKept
    <3> QED BY <1>2, <2>1, <2>2, <3>5 DEF KeptInv
  <2>3. CASE /\ rt.gen = "ended"
             /\ LET kept == IF rt.interrupted THEN Retained(rt)
                            ELSE Without(rt.queue, rt.turn)
                IN  /\ Scan([rt EXCEPT !.queue = kept, !.interrupted = FALSE,
                                       !.turn = {}, !.superseded = FALSE])
                    /\ settled' = settled \cup (rt.turn \ ToSet(kept))
             /\ UNCHANGED stash
    <3> DEFINE kept == IF rt.interrupted THEN Retained(rt) ELSE Without(rt.queue, rt.turn)
               r == [rt EXCEPT !.queue = kept, !.interrupted = FALSE,
                               !.turn = {}, !.superseded = FALSE]
    <3>1. stash = <<>>
      BY <1>1, <1>2, <2>3 DEF Fits, PlacesOK, TurnKept
    <3>2. kept \in Seq(Atoms) /\ ToSet(rt.queue) \subseteq ToSet(kept) \cup rt.turn
      <4>1. /\ Retained(rt) \in Seq(Atoms)
            /\ ToSet(Retained(rt)) = IF rt.superseded THEN ToSet(rt.queue) \ rt.turn
                                     ELSE ToSet(rt.queue)
        BY <1>1, RetainedFacts
      <4>2. /\ Without(rt.queue, rt.turn) \in Seq(Atoms)
            /\ ToSet(Without(rt.queue, rt.turn)) = ToSet(rt.queue) \ rt.turn
        BY <1>1, WithoutFacts
      <4> QED BY <4>1, <4>2
    <3>3. Scan(r) /\ settled' = settled \cup (rt.turn \ ToSet(kept))
      BY <2>3
    <3> HIDE DEF kept
    <3>4. r \in Runtimes /\ r.queue = kept /\ r.turn = {}
      BY <1>1, <3>2 DEF Runtimes
    <3> HIDE DEF r
    <3>5. AllSomewhere(r, <<>>, settled', arrived, carries)
      BY <1>2, <3>1, <3>2, <3>3, <3>4 DEF AllSomewhere
    <3>6. /\ AllSomewhere(rt', <<>>, settled', arrived, carries)
          /\ TurnKept(rt', <<>>, settled')
      BY <3>3, <3>4, <3>5, ScanKept
    <3> QED BY <1>2, <2>1, <2>3, <3>1, <3>6 DEF KeptInv
  <2> QED BY <1>10, <2>2, <2>3 DEF Pull
<1>11. CASE Prepared \/ PrepareFails
  <2>1. /\ UNCHANGED <<stash, arrived, carries>> /\ rt.gen = "preparing"
        /\ rt.latch = "none" /\ rt.effects = {} /\ rt.turn \subseteq ToSet(rt.queue)
        /\ stash = <<>> /\ rt.ahead \in BOOLEAN
    BY <1>1, <1>2, <1>11 DEF Prepared, PrepareFails, Fits, PlacesOK, TurnKept, Runtimes
  <2>2. CASE Prepared
    <3>1. /\ rt'.queue = rt.queue /\ rt'.turn = rt.turn /\ rt'.gen = "running"
          /\ rt'.superseded = rt.superseded /\ rt'.latch = rt.latch
          /\ rt'.ahead = rt.ahead /\ rt'.effects = rt.effects
      BY <1>1, <2>2 DEF Prepared, Runtimes
    <3>2. settled' = settled \cup IF rt.ahead THEN {} ELSE rt.turn
      BY <2>2 DEF Prepared
    <3>3. AllSomewhere(rt', stash, settled', arrived, carries)
      BY <1>2, <3>1, <3>2 DEF AllSomewhere
    <3>4. TurnKept(rt', stash, settled')
      BY <1>2, <2>1, <3>1, <3>2 DEF TurnKept, Replayable
    <3> QED BY <1>2, <2>1, <3>3, <3>4 DEF KeptInv
  <2>3. CASE PrepareFails
    <3>1. /\ rt'.queue = rt.queue /\ rt'.turn = {} /\ rt'.gen = "broken"
          /\ rt'.latch = rt.latch
      BY <1>1, <2>3 DEF PrepareFails, Runtimes
    <3>2. settled' = settled \ rt.turn
      BY <2>3 DEF PrepareFails
    <3>3. AllSomewhere(rt', stash, settled', arrived, carries)
      BY <1>2, <2>1, <3>1, <3>2 DEF AllSomewhere
    <3>4. TurnKept(rt', stash, settled')
      BY <2>1, <3>1 DEF TurnKept
    <3> QED BY <1>2, <2>1, <3>3, <3>4 DEF KeptInv
  <2> QED BY <1>11, <2>2, <2>3
<1>12. CASE \/ \E e \in {"tool", "output"} : Effect(e)
            \/ \E status \in {"complete", "interrupted", "failed"} : Terminal(status)
  <2>1. UNCHANGED <<stash, arrived, carries>> /\ rt.gen = "running" /\ rt.latch = "none"
    BY <1>12 DEF Effect, Terminal, InTurn
  <2>2. /\ rt'.queue = rt.queue /\ rt'.turn = rt.turn /\ rt'.gen = "running"
        /\ rt'.superseded = rt.superseded /\ rt'.ahead = rt.ahead
        /\ \/ settled' = settled \cup rt.turn
           \/ /\ settled' = settled /\ rt'.latch # "complete"
              /\ rt'.effects = rt.effects
    <3>1. CASE \E e \in {"tool", "output"} : Effect(e)
      <4>1. /\ settled' = settled \cup rt.turn
            /\ \E f, t : \/ rt' = [rt EXCEPT !.effects = f]
                        \/ rt' = [rt EXCEPT !.effects = f, !.tool = t]
        BY <3>1, Zenon DEF Effect
      <4>2. ASSUME NEW f, NEW t,
                   \/ rt' = [rt EXCEPT !.effects = f]
                   \/ rt' = [rt EXCEPT !.effects = f, !.tool = t]
            PROVE  /\ rt'.queue = rt.queue /\ rt'.turn = rt.turn /\ rt'.gen = rt.gen
                   /\ rt'.superseded = rt.superseded /\ rt'.ahead = rt.ahead
        BY <1>1, <4>2 DEF Runtimes
      <4> QED BY <2>1, <4>1, <4>2
    <3>2. CASE \E status \in {"complete", "interrupted", "failed"} : Terminal(status)
      <4>1. PICK status \in {"complete", "interrupted", "failed"} : Terminal(status)
        BY <3>2
      <4> QED BY <1>1, <2>1, <4>1 DEF Terminal, Runtimes
    <3> QED BY <1>12, <3>1, <3>2
  <2>3. AllSomewhere(rt', stash, settled', arrived, carries)
    BY <1>2, <2>2 DEF AllSomewhere
  <2>4. stash = <<>> /\ rt.turn # {}
    BY <1>1, <1>2, <2>1 DEF Fits, PlacesOK, TurnKept
  <2>5. TurnKept(rt', stash, settled')
    BY <1>2, <2>1, <2>2, <2>4 DEF TurnKept, Replayable
  <2> QED BY <1>2, <2>1, <2>3, <2>5 DEF KeptInv
<1>13. CASE ToolAnswers \/ CompactBegins \/ CompactEnds
  <2>1. /\ rt'.queue = rt.queue /\ rt'.turn = rt.turn /\ rt'.gen = rt.gen
        /\ rt'.life = rt.life /\ rt'.superseded = rt.superseded /\ rt'.latch = rt.latch
        /\ rt'.ahead = rt.ahead /\ rt'.effects = rt.effects
    BY <1>1, <1>13 DEF ToolAnswers, CompactBegins, CompactEnds, Runtimes
  <2>2. UNCHANGED <<stash, settled, arrived, carries>>
    BY <1>13 DEF ToolAnswers, CompactBegins, CompactEnds, history
  <2> QED BY <2>1, <2>2, SameKept
<1>14. CASE ToolEnds /\ UNCHANGED stash
            /\ \/ Interrupt([rt EXCEPT !.tool = "none"])
               \/ /\ rt' = [rt EXCEPT !.tool = "none"]
                  /\ UNCHANGED <<carries, settled, promised>>
  <2> DEFINE r == [rt EXCEPT !.tool = "none"]
  <2>1. /\ r \in Runtimes /\ r.queue = rt.queue /\ r.turn = rt.turn /\ r.gen = rt.gen
        /\ r.life = rt.life /\ r.superseded = rt.superseded /\ r.latch = rt.latch
        /\ r.ahead = rt.ahead /\ r.effects = rt.effects
    BY <1>1 DEF Runtimes, Tools
  <2>2. UNCHANGED arrived
    BY <1>14 DEF ToolEnds
  <2>3. Interrupt(r) \/ (rt' = r /\ UNCHANGED <<carries, settled, promised>>)
    BY <1>14
  <2> HIDE DEF r
  <2>4. AllSomewhere(r, stash, settled, arrived, carries) /\ TurnKept(r, stash, settled)
    BY <1>2, <2>1 DEF AllSomewhere, TurnKept, Replayable
  <2>5. CASE Interrupt(r)
    <3>1. /\ AllSomewhere(rt', stash, settled', arrived, carries')
          /\ TurnKept(rt', stash, settled') /\ Carrying(carries')
      BY <1>1, <1>2, <2>1, <2>4, <2>5, InterruptKept
    <3> QED BY <1>14, <2>2, <3>1 DEF KeptInv
  <2>6. CASE rt' = r /\ UNCHANGED <<carries, settled, promised>>
    BY <1>2, <1>14, <2>2, <2>4, <2>6 DEF KeptInv
  <2> QED BY <2>3, <2>5, <2>6
<1>15. CASE CloseComplete \/ CloseFailed \/ Reported
  <2>1. /\ rt'.queue = rt.queue /\ rt'.turn = rt.turn /\ rt.gen = "running"
        /\ rt'.gen \in {"running", "ended"} /\ rt'.superseded = rt.superseded
        /\ rt'.latch = rt.latch /\ rt.latch # "none"
        /\ rt'.ahead = rt.ahead /\ rt'.effects = rt.effects
    <3>1. CASE CloseComplete \/ CloseFailed
      <4>1. /\ Quiet(rt) \in Runtimes /\ Quiet(rt).gen = rt.gen /\ Quiet(rt).turn = rt.turn
            /\ Quiet(rt).queue = rt.queue /\ Quiet(rt).superseded = rt.superseded
            /\ Quiet(rt).latch = rt.latch /\ Quiet(rt).ahead = rt.ahead
            /\ Quiet(rt).effects = rt.effects
        BY <1>1 DEF Quiet, Runtimes, Tools
      <4>2. rt.gen = "running" /\ rt.latch # "none"
        BY <3>1 DEF CloseComplete, CloseFailed, Closing
      <4>3. rt' = [Quiet(rt) EXCEPT !.gen = "ended", !.pendingAbort = FALSE]
            \/ rt' = [Quiet(rt) EXCEPT !.pendingAbort = FALSE]
        BY <3>1 DEF CloseComplete, CloseFailed
      <4> QED BY <4>1, <4>2, <4>3 DEF Runtimes
    <3>2. CASE Reported
      BY <1>1, <3>2 DEF Reported, Fits, PlacesOK, Runtimes
    <3> QED BY <1>15, <3>1, <3>2
  <2>2. UNCHANGED <<stash, settled, arrived, carries>>
    BY <1>15 DEF CloseComplete, CloseFailed, Reported, history
  <2>3. AllSomewhere(rt', stash, settled, arrived, carries)
    BY <1>2, <2>1 DEF AllSomewhere
  <2>4. stash = <<>> /\ rt.turn # {}
    BY <1>1, <1>2, <2>1 DEF Fits, PlacesOK, TurnKept
  <2>5. TurnKept(rt', stash, settled)
    BY <1>2, <2>1, <2>4 DEF TurnKept, Replayable
  <2> QED BY <1>2, <2>2, <2>3, <2>5 DEF KeptInv
<1>16. CASE CloseInterrupted
  <2>1. /\ rt.gen = "running" /\ rt.latch = "interrupted"
        /\ UNCHANGED <<stash, settled, arrived, carries>>
    BY <1>16 DEF CloseInterrupted, Closing, history
  <2>2. \E q \in {Carryable(rt), rt.queue}, over \in BOOLEAN :
           rt' = [Quiet(rt) EXCEPT !.gen = "ended", !.interrupted = over, !.queue = q]
    <3>1. Quiet(rt).queue = rt.queue
      BY <1>1 DEF Quiet, Runtimes
    <3> DEFINE afterTools == /\ ~rt.superseded /\ ~rt.pendingAbort /\ "tool" \in rt.effects
                             /\ "output" \in rt.effects \/ rt.tool = "none"
               q == IF afterTools \/ ~Replayable(rt) THEN Carryable(rt) ELSE rt.queue
    <3>2. rt' = [Quiet(rt) EXCEPT !.gen = "ended", !.interrupted = ~afterTools, !.queue = q]
      BY <1>1, <1>16, <3>1 DEF CloseInterrupted, Quiet, Runtimes
    <3>3. q \in {Carryable(rt), rt.queue} /\ (~afterTools) \in BOOLEAN
      OBVIOUS
    <3> HIDE DEF afterTools, q
    <3> QED BY <3>2, <3>3
  <2>3. Carryable(rt) \in Seq(Atoms) /\ ToSet(rt.queue) \subseteq ToSet(Carryable(rt)) \cup settled
    BY <1>1, <1>2, <2>1, CarriedFacts, CarriesAll
  <2>4. /\ ToSet(rt.queue) \subseteq ToSet(rt'.queue) \cup settled
        /\ rt'.turn = rt.turn /\ rt'.gen = "ended" /\ rt'.superseded = rt.superseded
        /\ rt'.latch = rt.latch /\ rt'.ahead = rt.ahead /\ rt'.effects = rt.effects
    BY <1>1, <2>2, <2>3 DEF Quiet, Runtimes
  <2>5. AllSomewhere(rt', stash, settled, arrived, carries)
    BY <1>2, <2>4 DEF AllSomewhere
  <2>6. stash = <<>> /\ rt.turn # {}
    BY <1>1, <1>2, <2>1 DEF Fits, PlacesOK, TurnKept
  <2>7. TurnKept(rt', stash, settled)
    BY <1>2, <2>1, <2>4, <2>6 DEF TurnKept, Replayable
  <2> QED BY <1>2, <2>1, <2>5, <2>7 DEF KeptInv
<1>17. IdleGap => \/ /\ ~rt.active /\ rt.gen # "waiting" /\ Deliverable(rt) # <<>>
                     /\ rt' \in {Gone, Asked(<<>>)} /\ stash' = Saved(rt)
                  \/ rt' = [rt EXCEPT !.timer = FALSE] /\ UNCHANGED stash
  BY DEF IdleGap
<1>18. ToolEnds => \/ /\ rt' = Gone /\ stash' = Saved([rt EXCEPT !.tool = "none"])
                      /\ UNCHANGED <<carries, settled, promised>>
                   \/ /\ UNCHANGED stash
                      /\ \/ Interrupt([rt EXCEPT !.tool = "none"])
                         \/ /\ rt' = [rt EXCEPT !.tool = "none"]
                            /\ UNCHANGED <<carries, settled, promised>>
  BY DEF ToolEnds
<1> QED BY <1>3, <1>4, <1>5, <1>6, <1>7, <1>8, <1>9, <1>10, <1>11, <1>12, <1>13, <1>14,
           <1>15, <1>16, <1>17, <1>18 DEF Next, HostStep, ProviderStep

\* A prompt that was accepted is settled, queued, stashed or folded into a later
\* one, whatever was interrupted, failed, recovered, compacted or joined; the
\* kinds of trouble in Losing are those that may lose one.
THEOREM NoPromptIsLost ==
    ASSUME Turmoil \cap Losing = {}
    PROVE  Spec => []AtomsSurvive
<1>1. Init => KeptInv
  BY KeptInitial
<1>2. QueueInv /\ KeptInv /\ [Next]_vars => KeptInv'
  BY KeptStep
<1>3. KeptInv => AtomsSurvive
  BY DEF KeptInv, AllSomewhere, FoldedIn, AtomsSurvive, Folded
<1> QED BY <1>1, <1>2, <1>3, QueueInvHolds, PTL DEF Spec

-----------------------------------------------------------------------------
(* The prompt that interrupts a turn is in the next one, while nothing     *)
(* forgets the order of the queue on the way there.                        *)

\* The trouble that forgets: a preparation that fails drops the mark of the
\* superseded turn, and the others replace a stash the generator has yet to
\* take, or forget the queue of a runtime that ends.
Forgetting == {"prepare", "exit", "switch", "earlyAbort", "slow"}

\* p is the first of a queue; the first of a queue that is not in a turn.
Leads(q, p) == q # <<>> /\ q[1] = p
LeadsAfter(q, turn, p) == \E i \in 1..Len(q) :
    q[i] = p /\ p \notin turn /\ \A j \in 1..(i - 1) : q[j] \in turn

\* The promised atom may interrupt.  It is first in the stash until a generator
\* takes the stash, and then first behind a turn that is superseded.
NextUp(r, sh, p) ==
    /\ lane[p] \in {"immediate_interrupt", "after_tool"}
    /\ r.gen \in {"none", "fresh"} => Leads(sh, p)
    /\ r.gen \notin {"none", "fresh"} =>
         /\ r.gen \in {"preparing", "running", "ended"} /\ r.superseded /\ r.turn # {}
         /\ LeadsAfter(r.queue, r.turn, p)

PromiseInv == \A p \in promised : NextUp(rt, stash, p)

\* The first of those that are kept.
LEMMA FirstKept ==
    ASSUME NEW q \in Seq(Atoms), NEW S, NEW p \in S, NEW i \in 1..Len(q), q[i] = p,
           \A j \in 1..(i - 1) : q[j] \notin S
    PROVE  Leads(Within(q, S), p)
<1> DEFINE w == Within(q, S)
<1>1. PICK g : Picks(g, w, q, Len(q), S)
  BY WithinPicks
<1>2. w \in Seq(Atoms)
  BY WithinPicks
<1> HIDE DEF w
<1>3. Len(w) \in Nat /\ Len(q) \in Nat /\ (w # <<>> <=> Len(w) # 0)
  BY <1>2
<1>4. PICK k \in 1..Len(w) : g[k] = i
  BY <1>1 DEF Picks
<1>5. 1 \in 1..Len(w)
  BY <1>3, <1>4
<1>6. g[1] \in 1..Len(q) /\ q[g[1]] \in S
  BY <1>1, <1>5 DEF Picks
<1>7. ~(g[1] < i)
  BY <1>3, <1>6
<1>8. 1 < k => g[1] < g[k]
  BY <1>1, <1>5 DEF Picks
<1>9. k = 1
  BY <1>3, <1>4, <1>7, <1>8
<1>10. w[1] = p
  BY <1>1, <1>4, <1>5, <1>9 DEF Picks
<1> QED BY <1>3, <1>5, <1>10 DEF Leads, w

LEMMA LeadsWithout ==
    ASSUME NEW q \in Seq(Atoms), NEW turn, NEW p \in Atoms, LeadsAfter(q, turn, p)
    PROVE  /\ Leads(Without(q, turn), p)
           /\ LeadsAfter(Without(q, turn), turn, p)
<1>1. PICK i \in 1..Len(q) : /\ q[i] = p /\ p \notin turn
                             /\ \A j \in 1..(i - 1) : q[j] \in turn
  BY DEF LeadsAfter
<1>2. \A j \in 1..(i - 1) : q[j] \notin Atoms \ turn
  BY <1>1
<1>3. p \in Atoms \ turn
  BY <1>1
<1>4. Leads(Within(q, Atoms \ turn), p)
  BY <1>1, <1>2, <1>3, FirstKept
<1>5. Leads(Without(q, turn), p)
  BY <1>4 DEF Without
<1> DEFINE w == Without(q, turn)
<1>6. w \in Seq(Atoms)
  BY WithoutFacts
<1>7. w # <<>> /\ w[1] = p
  BY <1>5 DEF Leads
<1> HIDE DEF w
<1>8. 1 \in 1..Len(w) /\ \A j \in 1..(1 - 1) : w[j] \in turn
  BY <1>6, <1>7
<1>9. LeadsAfter(w, turn, p)
  BY <1>1, <1>7, <1>8 DEF LeadsAfter
<1> QED BY <1>5, <1>9 DEF w

\* More behind it.
LEMMA LeadsLonger ==
    ASSUME NEW q \in Seq(Atoms), NEW p, NEW s \in Seq(Atoms)
    PROVE  /\ Leads(q, p) => Leads(q \o s, p)
           /\ \A turn : LeadsAfter(q, turn, p) => LeadsAfter(q \o s, turn, p)
<1> DEFINE t == q \o s
<1>1. /\ Len(t) = Len(q) + Len(s) /\ Len(q) \in Nat /\ Len(s) \in Nat /\ t \in Seq(Atoms)
      /\ \A i \in 1..Len(q) : t[i] = q[i]
  OBVIOUS
<1> HIDE DEF t
<1>2. Leads(q, p) => Leads(t, p)
  <2>1. q # <<>> => Len(q) # 0
    OBVIOUS
  <2>2. t = <<>> => Len(t) = 0
    OBVIOUS
  <2> QED BY <1>1, <2>1, <2>2 DEF Leads
<1>3. ASSUME NEW turn, LeadsAfter(q, turn, p) PROVE LeadsAfter(t, turn, p)
  <2>1. PICK i \in 1..Len(q) : /\ q[i] = p /\ p \notin turn
                               /\ \A j \in 1..(i - 1) : q[j] \in turn
    BY <1>3 DEF LeadsAfter
  <2>2. i \in 1..Len(t) /\ t[i] = p /\ \A j \in 1..(i - 1) : j \in 1..Len(q) /\ t[j] = q[j]
    BY <1>1, <2>1
  <2> QED BY <2>1, <2>2 DEF LeadsAfter
<1> QED BY <1>2, <1>3 DEF t

\* Behind a turn.
LEMMA LeadsBehind ==
    ASSUME NEW now \in Seq(Atoms), NEW turn, ToSet(now) \subseteq turn,
           NEW p \in Atoms \ turn, NEW rest \in Seq(Atoms)
    PROVE  LeadsAfter(now \o <<p>> \o rest, turn, p)
<1> DEFINE t == now \o <<p>>
<1>1. /\ t \in Seq(Atoms) /\ Len(t) = Len(now) + 1 /\ Len(now) \in Nat
      /\ t[Len(now) + 1] = p /\ \A j \in 1..Len(now) : t[j] = now[j]
  OBVIOUS
<1>2. \A j \in 1..Len(now) : now[j] \in turn
  BY DEF ToSet
<1> HIDE DEF t
<1>3. Len(now) + 1 \in 1..Len(t) /\ (Len(now) + 1) - 1 = Len(now)
  BY <1>1
<1>4. LeadsAfter(t, turn, p)
  BY <1>1, <1>2, <1>3 DEF LeadsAfter
<1>5. LeadsAfter(t \o rest, turn, p)
  BY <1>1, <1>4, LeadsLonger
<1> QED BY <1>5 DEF t

\* What may interrupt and is first when nothing runs is delivered.
LEMMA LeaderIsDelivered ==
    ASSUME NEW r \in Runtimes, NEW p \in Atoms, Leads(r.queue, p), CanRelease(r, p)
    PROVE  p \in ToSet(Deliverable(r))
<1> DEFINE free == {a \in Atoms : CanRelease(r, a)}
           able == Within(r.queue, free)
           cut == {b \in Atoms \ {able[1]} : Apart(able[1], b)}
<1>1. r.queue \in Seq(Atoms) /\ 1 \in 1..Len(r.queue) /\ r.queue[1] = p
  BY DEF Leads, Runtimes
<1>2. able \in Seq(Atoms) /\ Leads(able, p)
  <2>1. p \in free
    OBVIOUS
  <2> HIDE DEF free
  <2>2. \A j \in 1..(1 - 1) : r.queue[j] \notin free
    OBVIOUS
  <2> QED BY <1>1, <2>1, <2>2, FirstKept, WithinFacts
<1>3. able[1] \notin cut
  OBVIOUS
<1>4. Deliverable(r) = Before(able, cut)
  BY DEF Deliverable
<1> HIDE DEF able, cut
<1>5. PICK n \in 0..Len(able) : /\ Before(able, cut) = SubSeq(able, 1, n)
                                /\ n < Len(able) => able[n + 1] \in cut
  BY <1>2, BeforePrefix
<1>6. Len(able) \in Nat /\ Len(able) # 0 /\ able[1] = p
  BY <1>2 DEF Leads
<1>7. n # 0
  BY <1>3, <1>5, <1>6
<1> DEFINE b == SubSeq(able, 1, n)
<1>8. b \in Seq(Atoms) /\ Len(b) = n /\ b[1] = able[1]
  BY <1>2, <1>5, <1>6, <1>7
<1> HIDE DEF b
<1>9. 1 \in DOMAIN b /\ b[1] = p
  BY <1>5, <1>6, <1>7, <1>8
<1>10. p \in ToSet(b)
  BY <1>9 DEF ToSet
<1> QED BY <1>4, <1>5, <1>10 DEF b

\* The loop of the generator takes the promised atom, if it leads.
LEMMA ScanTakes ==
    ASSUME NEW r \in Runtimes, Scan(r), r.life = "up", r.tool = "none", ~r.compacting,
           promised \subseteq Atoms,
           \A p \in promised : /\ lane[p] \in {"immediate_interrupt", "after_tool"}
                               /\ Leads(r.queue, p)
    PROVE  promised' = {} /\ promised \subseteq rt'.turn
<1> DEFINE d == ToSet(Deliverable(r))
<1>1. promised \subseteq d
  BY LeaderIsDelivered DEF CanRelease
<1>2. CASE d = {}
  BY <1>1, <1>2 DEF Scan
<1>3. CASE d # {}
  <2>1. /\ rt' = [r EXCEPT !.gen = "preparing", !.turn = d, !.active = TRUE,
                          !.latch = "none", !.effects = {}, !.superseded = FALSE,
                          !.timer = FALSE, !.wake = r.wake /\ r.gen # "waiting"]
        /\ promised' = {}
    BY <1>3 DEF Scan
  <2> HIDE DEF d
  <2>2. rt'.turn = d
    BY <2>1 DEF Runtimes
  <2> QED BY <1>1, <2>1, <2>2
<1> QED BY <1>2, <1>3

\* What is carried over begins with the promised atom.
LEMMA CarriedLeads ==
    ASSUME NEW r \in Runtimes, r.superseded, r.turn # {}, NEW p \in Atoms,
           LeadsAfter(r.queue, r.turn, p)
    PROVE  /\ Leads(Carryable(r), p) /\ Leads(CurrentTurn(r, FALSE), p)
           /\ Carryable(r) = Without(r.queue, r.turn)
<1>1. Leads(Without(r.queue, r.turn), p)
  BY LeadsWithout DEF Runtimes
<1>2. Successors(r) = Without(r.queue, r.turn) /\ Retained(r) = Without(r.queue, r.turn)
  BY DEF Successors, Retained
<1>3. Carryable(r) = Without(r.queue, r.turn)
  BY <1>2 DEF Carryable
<1>4. CurrentTurn(r, FALSE) = Without(r.queue, r.turn)
  BY <1>2 DEF CurrentTurn
<1> QED BY <1>1, <1>3, <1>4

\* The parts of a runtime that matter here are the same.
LEMMA SameNext ==
    ASSUME PromiseInv, UNCHANGED <<lane, stash, promised>>,
           rt'.queue = rt.queue, rt'.turn = rt.turn, rt'.superseded = rt.superseded,
           \/ rt'.gen = rt.gen
           \/ rt.gen = "none" /\ rt'.gen = "fresh"
           \/ rt.gen = "preparing" /\ rt'.gen = "running"
           \/ rt.gen = "running" /\ rt'.gen = "ended"
    PROVE  PromiseInv'
BY DEF PromiseInv, NextUp

\* A runtime is replaced, and what it carries is stashed.
LEMMA ReplacedNext ==
    ASSUME QueueInv, PromiseInv, rt.gen \notin {"none", "fresh"},
           rt' \in {Gone, Asked(<<>>)}, UNCHANGED <<lane, promised>>,
           NEW r \in Runtimes, r.queue = rt.queue, r.turn = rt.turn,
           r.superseded = rt.superseded,
           NEW q \in {Carryable(r), CurrentTurn(r, FALSE)},
           stash' = IF q = <<>> THEN stash ELSE q
    PROVE  PromiseInv'
<1> SUFFICES ASSUME NEW p \in promised PROVE NextUp(rt, stash, p)'
  BY DEF PromiseInv, NextUp
<1>1. /\ lane[p] \in {"immediate_interrupt", "after_tool"}
      /\ rt.superseded /\ rt.turn # {} /\ LeadsAfter(rt.queue, rt.turn, p) /\ p \in Atoms
  BY DEF PromiseInv, NextUp, QueueInv, OthersOK
<1>2. Leads(q, p)
  BY <1>1, CarriedLeads
<1>3. stash' = q
  BY <1>2 DEF Leads
<1>4. rt'.gen = "none"
  BY GoneFacts
<1> QED BY <1>1, <1>2, <1>3, <1>4 DEF NextUp

\* An interruption promises the next turn to its lead, or changes nothing.
LEMMA InterruptNext ==
    ASSUME NEW r \in Runtimes, Interrupt(r), UNCHANGED <<lane, stash>>,
           r.turn # {} => r.gen \in {"preparing", "running", "ended"},
           r.gen # "none", r.gen # "fresh",
           \A p \in promised : NextUp(r, stash, p)
    PROVE  PromiseInv'
<1> DEFINE fold == Cohort(r)
           lead == fold[Len(fold)]
           now == Within(r.queue, r.turn)
           rest == Without(r.queue, r.turn \cup ToSet(fold))
           q == now \o <<lead>> \o rest
<1>1. CASE fold = <<>>
  <2>1. rt' = r /\ UNCHANGED promised
    BY <1>1 DEF Interrupt
  <2> QED BY <2>1 DEF PromiseInv, NextUp
<1>2. CASE fold # <<>>
  <2>1. /\ rt' = [r EXCEPT !.queue = q, !.superseded = TRUE, !.interrupted = TRUE]
        /\ promised' = {lead}
    BY <1>2 DEF Interrupt
  <2>2. lead \in Atoms /\ lead \notin r.turn /\ MayInterrupt(r, lead) /\ r.turn # {}
    <3>1. /\ fold \in Seq(Atoms) /\ ToSet(fold) \subseteq ToSet(r.queue) \ r.turn
          /\ \A a \in ToSet(fold) : a \in Atoms /\ MayInterrupt(r, a)
          /\ r.turn # {}
      BY <1>2, CohortFacts
    <3> HIDE DEF fold
    <3>2. lead \in ToSet(fold)
      BY <3>1, <1>2, QueueFacts
    <3> QED BY <3>1, <3>2
  <2>3. now \in Seq(Atoms) /\ ToSet(now) \subseteq r.turn
    BY WithinFacts DEF Runtimes
  <2>4. rest \in Seq(Atoms)
    BY WithoutFacts DEF Runtimes
  <2> HIDE DEF fold, lead, now, rest
  <2>5. LeadsAfter(q, r.turn, lead)
    BY <2>2, <2>3, <2>4, LeadsBehind
  <2> HIDE DEF q
  <2>6. rt'.queue = q /\ rt'.superseded /\ rt'.turn = r.turn /\ rt'.gen = r.gen
    BY <2>1 DEF Runtimes
  <2>7. lane[lead] \in {"immediate_interrupt", "after_tool"}
    BY <2>2 DEF MayInterrupt
  <2> QED BY <2>1, <2>2, <2>5, <2>6, <2>7 DEF PromiseInv, NextUp
<1> QED BY <1>1, <1>2

\* A prompt that arrives.
LEMMA PromptNext ==
    ASSUME QueueInv, PromiseInv, NEW a \in Atoms, Prompt(a)
    PROVE  PromiseInv'
<1> DEFINE q == Append(rt.queue, a)
           pushed == [rt EXCEPT !.queue = q]
<1>1. /\ rt \in Runtimes /\ stash \in Seq(Atoms) /\ q \in Seq(Atoms)
      /\ (rt.life = "up") <=> (rt.gen # "none")
      /\ rt.turn # {} => rt.gen \in {"preparing", "running", "ended"}
      /\ promised \subseteq Atoms /\ UNCHANGED lane
  BY DEF QueueInv, OthersOK, Fits, PlacesOK, Runtimes, Prompt
<1>2. \A p : /\ Leads(stash, p) => Leads(Append(stash, a), p)
             /\ LeadsAfter(rt.queue, rt.turn, p) => LeadsAfter(q, rt.turn, p)
  <2>1. <<a>> \in Seq(Atoms) /\ rt.queue \in Seq(Atoms)
    BY <1>1 DEF Runtimes
  <2>2. Append(stash, a) = stash \o <<a>> /\ q = rt.queue \o <<a>>
    BY <1>1, <2>1, AppendIsConcat
  <2> HIDE DEF q
  <2> SUFFICES ASSUME NEW p
               PROVE  /\ Leads(stash, p) => Leads(Append(stash, a), p)
                      /\ LeadsAfter(rt.queue, rt.turn, p) => LeadsAfter(q, rt.turn, p)
    OBVIOUS
  <2>3. Leads(stash, p) => Leads(Append(stash, a), p)
    BY <1>1, <2>1, <2>2, LeadsLonger
  <2>4. LeadsAfter(rt.queue, rt.turn, p) => LeadsAfter(q, rt.turn, p)
    BY <2>1, <2>2, LeadsLonger
  <2> QED BY <2>3, <2>4
<1> HIDE DEF q
<1>3. /\ pushed \in Runtimes /\ pushed.queue = q /\ pushed.turn = rt.turn
      /\ pushed.gen = rt.gen /\ pushed.superseded = rt.superseded /\ pushed.life = rt.life
  BY <1>1 DEF Runtimes
<1>4. \A p \in promised : NextUp(pushed, stash, p)
  BY <1>2, <1>3 DEF PromiseInv, NextUp
<1>5. CASE rt.life = "none" /\ rt' = Asked(<<a>>) /\ UNCHANGED <<stash, promised>>
  <2>1. rt'.gen = "none" /\ rt.gen = "none"
    BY <1>1, <1>5, GoneFacts, SingleFacts
  <2> QED BY <1>1, <1>5, <2>1 DEF PromiseInv, NextUp
<1>6. CASE /\ rt.life = "asked" /\ stash' = Append(stash, a)
           /\ UNCHANGED <<rt, promised>>
  <2>1. rt.gen = "none"
    BY <1>1, <1>6
  <2> QED BY <1>1, <1>2, <1>6, <2>1 DEF PromiseInv, NextUp
<1>7. CASE rt' = pushed /\ UNCHANGED <<stash, promised>>
  BY <1>1, <1>4, <1>7 DEF PromiseInv, NextUp
<1>8. CASE rt.gen = "waiting" /\ Scan(pushed)
  <2>1. promised = {}
    BY <1>8 DEF PromiseInv, NextUp
  <2>2. promised' \in {{}, promised}
    BY <1>8 DEF Scan
  <2> QED BY <2>1, <2>2 DEF PromiseInv
<1>9. CASE MayInterrupt(pushed, a) /\ Interrupt(pushed) /\ UNCHANGED stash
  <2>1. pushed.gen # "none" /\ pushed.gen # "fresh"
    BY <1>1, <1>3, <1>9 DEF MayInterrupt, QueueInv, Fits, PlacesOK, Runtimes
  <2> HIDE DEF pushed
  <2> QED BY <1>1, <1>3, <1>4, <1>9, <2>1, InterruptNext
<1>10. CASE /\ \E idleGap : rt' = [pushed EXCEPT !.wake = @ \/ idleGap,
                                                 !.timer = @ \/ idleGap]
            /\ UNCHANGED <<stash, promised>>
  <2>1. /\ rt'.queue = pushed.queue /\ rt'.turn = pushed.turn
        /\ rt'.gen = pushed.gen /\ rt'.superseded = pushed.superseded
    BY <1>3, <1>10 DEF Runtimes
  <2> QED BY <1>1, <1>4, <1>10, <2>1 DEF PromiseInv, NextUp
<1> QED BY <1>5, <1>6, <1>7, <1>8, <1>9, <1>10 DEF Prompt, q

\* The generator is pulled: it begins with the stash, or after a turn.
LEMMA PullNext ==
    ASSUME QueueInv, WakeInv, PromiseInv, Pull
    PROVE  promised' = {} /\ promised \subseteq rt'.turn
<1>1. /\ rt \in Runtimes /\ rt.queue \in Seq(Atoms) /\ stash \in Seq(Atoms)
      /\ promised \subseteq Atoms /\ rt.life = "up"
  BY DEF QueueInv, OthersOK, Fits, PlacesOK, Runtimes, Pull
<1>2. rt.tool = "none" /\ ~rt.compacting
  BY DEF WakeInv, WakeOK, Pull
<1>3. CASE rt.gen = "fresh" /\ Scan([rt EXCEPT !.queue = stash \o @])
  <2> DEFINE q == stash \o rt.queue
             r == [rt EXCEPT !.queue = q]
  <2>1. q \in Seq(Atoms) /\ \A p : Leads(stash, p) => Leads(q, p)
    BY <1>1, LeadsLonger, ConcatFacts
  <2>2. Scan(r)
    BY <1>3
  <2> HIDE DEF q
  <2>3. /\ r \in Runtimes /\ r.queue = q /\ r.life = rt.life /\ r.tool = rt.tool
        /\ r.compacting = rt.compacting
    BY <1>1, <2>1 DEF Runtimes
  <2> HIDE DEF r
  <2>4. \A p \in promised : /\ lane[p] \in {"immediate_interrupt", "after_tool"}
                            /\ Leads(r.queue, p)
    BY <1>3, <2>1, <2>3 DEF PromiseInv, NextUp
  <2> QED BY <1>1, <1>2, <2>2, <2>3, <2>4, ScanTakes
<1>4. CASE /\ rt.gen = "ended"
           /\ LET kept == IF rt.interrupted THEN Retained(rt) ELSE Without(rt.queue, rt.turn)
              IN  Scan([rt EXCEPT !.queue = kept, !.interrupted = FALSE,
                                  !.turn = {}, !.superseded = FALSE])
  <2> DEFINE kept == IF rt.interrupted THEN Retained(rt) ELSE Without(rt.queue, rt.turn)
             r == [rt EXCEPT !.queue = kept, !.interrupted = FALSE,
                             !.turn = {}, !.superseded = FALSE]
  <2>1. kept \in Seq(Atoms)
    BY <1>1, WithoutFacts DEF Retained
  <2>2. Scan(r)
    BY <1>4
  <2>3. rt.superseded => kept = Without(rt.queue, rt.turn)
    BY DEF Retained
  <2> HIDE DEF kept
  <2>4. /\ r \in Runtimes /\ r.queue = kept /\ r.life = rt.life /\ r.tool = rt.tool
        /\ r.compacting = rt.compacting
    BY <1>1, <2>1 DEF Runtimes
  <2> HIDE DEF r
  <2>5. ASSUME NEW p \in promised
        PROVE  lane[p] \in {"immediate_interrupt", "after_tool"} /\ Leads(r.queue, p)
    <3>1. /\ lane[p] \in {"immediate_interrupt", "after_tool"} /\ p \in Atoms
          /\ rt.superseded /\ LeadsAfter(rt.queue, rt.turn, p)
      BY <1>1, <1>4 DEF PromiseInv, NextUp
    <3> QED BY <1>1, <2>3, <2>4, <3>1, LeadsWithout
  <2> QED BY <1>1, <1>2, <2>2, <2>4, <2>5, ScanTakes
<1> QED BY <1>3, <1>4 DEF Pull

\* The runtime is replaced: it carries the promised atom first.
LEMMA RuntimeEndsNext ==
    ASSUME Turmoil \cap Forgetting = {}, QueueInv, PromiseInv,
           Abort \/ IdleGap \/ RecoverFailed \/ RetryCredential \/ LoopEnds
    PROVE  PromiseInv'
<1>1. rt \in Runtimes /\ (rt.life = "up" <=> rt.gen # "none")
  BY DEF QueueInv, Fits, PlacesOK
<1>2. Saved(rt) = IF Carryable(rt) = <<>> THEN stash ELSE Carryable(rt)
  BY DEF Saved
<1>3. UNCHANGED <<lane, promised>>
  BY DEF Abort, IdleGap, RecoverFailed, RetryCredential, LoopEnds, Replace
<1>4. CASE Abort
  <2>1. rt.gen \notin {"none", "fresh"}
    BY <1>4 DEF Abort, Forgetting
  <2>2. CASE rt' = [rt EXCEPT !.pendingAbort = TRUE] /\ UNCHANGED stash
    <3>1. /\ rt'.queue = rt.queue /\ rt'.turn = rt.turn
          /\ rt'.superseded = rt.superseded /\ rt'.gen = rt.gen
      BY <1>1, <2>2 DEF Runtimes
    <3> QED BY <1>3, <2>2, <3>1, SameNext
  <2>3. CASE rt' = Gone /\ stash' = Saved(rt)
    BY <1>1, <1>2, <1>3, <2>1, <2>3, ReplacedNext
  <2> QED BY <1>4, <2>2, <2>3 DEF Abort
<1>5. CASE IdleGap
  <2>1. CASE /\ Deliverable(rt) # <<>> /\ rt' \in {Gone, Asked(<<>>)}
             /\ stash' = Saved(rt)
    <3>1. rt.life = "up"
      <4>1. Deliverable(rt) \in Seq(Atoms) /\ \A a \in ToSet(Deliverable(rt)) : CanRelease(rt, a)
        BY <1>1, DeliverableFacts
      <4>2. PICK a \in ToSet(Deliverable(rt)) : CanRelease(rt, a)
        BY <2>1, <4>1, QueueFacts
      <4> QED BY <4>2 DEF CanRelease
    <3>2. rt.gen # "none" /\ rt.gen # "fresh"
      BY <1>1, <1>5, <3>1 DEF IdleGap, Forgetting
    <3> QED BY <1>1, <1>2, <1>3, <2>1, <3>2, ReplacedNext
  <2>2. CASE rt' = [rt EXCEPT !.timer = FALSE] /\ UNCHANGED stash
    <3>1. /\ rt'.queue = rt.queue /\ rt'.turn = rt.turn
          /\ rt'.superseded = rt.superseded /\ rt'.gen = rt.gen
      BY <1>1, <2>2 DEF Runtimes
    <3> QED BY <1>3, <2>2, <3>1, SameNext
  <2> QED BY <1>5, <2>1, <2>2 DEF IdleGap
<1>6. CASE RecoverFailed
  <2>1. rt' \in {Gone, Asked(<<>>)} /\ stash' = Saved(rt) /\ rt.gen = "running"
    BY <1>6 DEF RecoverFailed, Closing, Replace
  <2> QED BY <1>1, <1>2, <1>3, <2>1, ReplacedNext
<1>7. CASE RetryCredential
  <2> DEFINE q == CurrentTurn(rt, FALSE)
  <2>1. /\ rt' \in {Gone, Asked(<<>>)} /\ stash' = q /\ q # <<>> /\ rt.gen = "running"
    BY <1>7 DEF RetryCredential, Closing, Replace
  <2>2. stash' = IF q = <<>> THEN stash ELSE q
    BY <2>1
  <2> QED BY <1>1, <1>3, <2>1, <2>2, ReplacedNext
<1>8. CASE LoopEnds
  <2>1. rt.gen = "broken"
    BY <1>8 DEF LoopEnds, Forgetting
  <2>2. promised = {}
    BY <2>1 DEF PromiseInv, NextUp
  <2> QED BY <1>3, <2>2 DEF PromiseInv
<1> QED BY <1>4, <1>5, <1>6, <1>7, <1>8

\* The turn ends, or its generator is released.
LEMMA CloseNext ==
    ASSUME QueueInv, PromiseInv,
           CloseComplete \/ CloseInterrupted \/ CloseFailed \/ Reported
    PROVE  PromiseInv'
<1>1. rt \in Runtimes /\ rt.queue \in Seq(Atoms) /\ promised \subseteq Atoms
      /\ rt.gen = "running"
  BY DEF QueueInv, OthersOK, Fits, Runtimes, CloseComplete, CloseInterrupted,
         CloseFailed, Reported, Closing
<1>2. UNCHANGED <<lane, stash, promised>>
  BY DEF CloseComplete, CloseInterrupted, CloseFailed, Reported
<1>3. /\ Quiet(rt) \in Runtimes /\ Quiet(rt).gen = rt.gen /\ Quiet(rt).turn = rt.turn
      /\ Quiet(rt).queue = rt.queue /\ Quiet(rt).superseded = rt.superseded
  BY <1>1 DEF Quiet, Runtimes, Tools
<1>4. CASE CloseComplete \/ CloseFailed \/ Reported
  <2>1. CASE CloseComplete
    <3>1. /\ rt'.queue = rt.queue /\ rt'.turn = rt.turn /\ rt'.gen = "ended"
          /\ rt'.superseded = rt.superseded
      BY <1>3, <2>1 DEF CloseComplete, Runtimes
    <3> QED BY <1>1, <1>2, <3>1, SameNext
  <2>2. CASE CloseFailed
    <3>1. /\ rt'.queue = rt.queue /\ rt'.turn = rt.turn /\ rt'.gen = rt.gen
          /\ rt'.superseded = rt.superseded
      BY <1>3, <2>2 DEF CloseFailed, Runtimes
    <3> QED BY <1>2, <3>1, SameNext
  <2>3. CASE Reported
    <3>1. /\ rt'.queue = rt.queue /\ rt'.turn = rt.turn /\ rt'.gen = "ended"
          /\ rt'.superseded = rt.superseded
      BY <1>1, <2>3 DEF Reported, Runtimes
    <3> QED BY <1>1, <1>2, <3>1, SameNext
  <2> QED BY <1>4, <2>1, <2>2, <2>3
<1>5. CASE CloseInterrupted
  <2>1. PICK q \in {Carryable(rt), rt.queue}, over \in BOOLEAN :
           rt' = [Quiet(rt) EXCEPT !.gen = "ended", !.interrupted = over, !.queue = q]
    <3> DEFINE afterTools == /\ ~rt.superseded /\ ~rt.pendingAbort /\ "tool" \in rt.effects
                             /\ "output" \in rt.effects \/ rt.tool = "none"
               q == IF afterTools \/ ~Replayable(rt) THEN Carryable(rt) ELSE rt.queue
    <3>1. rt' = [Quiet(rt) EXCEPT !.gen = "ended", !.interrupted = ~afterTools, !.queue = q]
      BY <1>1, <1>3, <1>5 DEF CloseInterrupted, Quiet, Runtimes
    <3>2. q \in {Carryable(rt), rt.queue} /\ (~afterTools) \in BOOLEAN
      OBVIOUS
    <3> HIDE DEF afterTools, q
    <3> QED BY <3>1, <3>2
  <2>2. /\ rt'.queue = q /\ rt'.turn = rt.turn /\ rt'.gen = "ended"
        /\ rt'.superseded = rt.superseded
    BY <1>3, <2>1 DEF Runtimes
  <2> SUFFICES ASSUME NEW p \in promised PROVE NextUp(rt, stash, p)'
    BY <1>2 DEF PromiseInv, NextUp
  <2>3. /\ lane[p] \in {"immediate_interrupt", "after_tool"} /\ p \in Atoms
        /\ rt.superseded /\ rt.turn # {} /\ LeadsAfter(rt.queue, rt.turn, p)
    BY <1>1 DEF PromiseInv, NextUp
  <2>4. LeadsAfter(q, rt.turn, p)
    <3>1. Carryable(rt) = Without(rt.queue, rt.turn)
      BY <1>1, <2>3, CarriedLeads
    <3>2. LeadsAfter(Without(rt.queue, rt.turn), rt.turn, p)
      BY <1>1, <2>3, LeadsWithout
    <3> QED BY <2>1, <2>3, <3>1, <3>2
  <2> QED BY <1>2, <2>2, <2>3, <2>4 DEF NextUp
<1> QED BY <1>4, <1>5

\* The events of the turn, its tools, and compactions.
LEMMA EventNext ==
    ASSUME QueueInv, PromiseInv,
           \/ \E e \in {"tool", "output"} : Effect(e)
           \/ \E status \in {"complete", "interrupted", "failed"} : Terminal(status)
           \/ ToolAnswers \/ ToolEnds \/ CompactBegins \/ CompactEnds
    PROVE  PromiseInv'
<1>1. /\ rt \in Runtimes /\ promised \subseteq Atoms /\ UNCHANGED lane
  BY DEF QueueInv, OthersOK, Fits, Effect, Terminal, ToolAnswers, ToolEnds,
         CompactBegins, CompactEnds
<1>2. CASE \/ \E e \in {"tool", "output"} : Effect(e)
           \/ \E status \in {"complete", "interrupted", "failed"} : Terminal(status)
           \/ ToolAnswers \/ CompactBegins \/ CompactEnds
  <2>1. UNCHANGED <<stash, promised>>
    BY <1>2 DEF Effect, Terminal, ToolAnswers, CompactBegins, CompactEnds
  <2>2. \E f, t, l, c : \/ rt' = [rt EXCEPT !.effects = f]
                        \/ rt' = [rt EXCEPT !.effects = f, !.tool = t]
                        \/ rt' = [rt EXCEPT !.tool = t]
                        \/ rt' = [rt EXCEPT !.latch = l]
                        \/ rt' = [rt EXCEPT !.compacting = c]
    BY <1>2, Zenon DEF Effect, Terminal, ToolAnswers, CompactBegins, CompactEnds
  <2>3. ASSUME NEW f, NEW t, NEW l, NEW c,
               \/ rt' = [rt EXCEPT !.effects = f]
               \/ rt' = [rt EXCEPT !.effects = f, !.tool = t]
               \/ rt' = [rt EXCEPT !.tool = t]
               \/ rt' = [rt EXCEPT !.latch = l]
               \/ rt' = [rt EXCEPT !.compacting = c]
        PROVE  /\ rt'.queue = rt.queue /\ rt'.turn = rt.turn /\ rt'.gen = rt.gen
               /\ rt'.superseded = rt.superseded
    BY <1>1, <2>3 DEF Runtimes
  <2>4. /\ rt'.queue = rt.queue /\ rt'.turn = rt.turn /\ rt'.gen = rt.gen
        /\ rt'.superseded = rt.superseded
    BY <2>2, <2>3
  <2> QED BY <1>1, <2>1, <2>4, SameNext
<1>3. CASE ToolEnds
  <2> DEFINE r == [rt EXCEPT !.tool = "none"]
  <2>1. /\ r \in Runtimes /\ r.queue = rt.queue /\ r.turn = rt.turn /\ r.gen = rt.gen
        /\ r.superseded = rt.superseded /\ rt.gen = "running"
    BY <1>1, <1>3 DEF ToolEnds, InTurn, Runtimes, Tools
  <2>2. \/ rt' = Gone /\ stash' = Saved(r) /\ UNCHANGED promised
        \/ rt' = r /\ UNCHANGED <<stash, promised>>
        \/ Interrupt(r) /\ UNCHANGED stash
    BY <1>3 DEF ToolEnds
  <2> HIDE DEF r
  <2>3. CASE rt' = Gone /\ stash' = Saved(r) /\ UNCHANGED promised
    <3>1. stash' = IF Carryable(r) = <<>> THEN stash ELSE Carryable(r)
      BY <2>3 DEF Saved
    <3> QED BY <1>1, <2>1, <2>3, <3>1, ReplacedNext
  <2>4. CASE rt' = r /\ UNCHANGED <<stash, promised>>
    BY <1>1, <2>1, <2>4, SameNext
  <2>5. CASE Interrupt(r) /\ UNCHANGED stash
    <3>1. \A p \in promised : NextUp(r, stash, p)
      BY <2>1 DEF PromiseInv, NextUp
    <3> QED BY <1>1, <2>1, <2>5, <3>1, InterruptNext
  <2> QED BY <2>2, <2>3, <2>4, <2>5
<1> QED BY <1>2, <1>3

\* Whatever happens, but what forgets the promise.
LEMMA PromiseStep ==
    ASSUME Turmoil \cap Forgetting = {}, QueueInv, WakeInv, PromiseInv, [Next]_vars
    PROVE  PromiseInv'
<1>1. /\ rt \in Runtimes /\ (rt.life = "up" <=> rt.gen # "none")
  BY DEF QueueInv, Fits, PlacesOK
<1>2. CASE \E a \in Atoms : Prompt(a)
  BY <1>2, PromptNext
<1>3. CASE Launch \/ Built
  <2>1. /\ rt'.queue = rt.queue /\ rt'.turn = rt.turn /\ rt'.superseded = rt.superseded
        /\ rt.gen = "none" /\ rt'.gen \in {"none", "fresh"}
    <3>1. CASE Launch
      BY <1>1, <3>1 DEF Launch, Runtimes
    <3>2. CASE Built
      BY <1>1, <3>2 DEF Built, Runtimes
    <3> QED BY <1>3, <3>1, <3>2
  <2>2. UNCHANGED <<lane, stash, promised>>
    BY <1>3 DEF Launch, Built
  <2> QED BY <2>1, <2>2, SameNext
<1>4. CASE LaunchFails
  <2>1. rt.gen = "none" /\ rt'.gen = "none" /\ UNCHANGED <<lane, stash, promised>>
    BY <1>1, <1>4, GoneFacts DEF LaunchFails
  <2> QED BY <2>1 DEF PromiseInv, NextUp
<1>5. CASE Pull
  <2>1. promised' = {}
    BY <1>5, PullNext
  <2> QED BY <2>1 DEF PromiseInv
<1>6. CASE Prepared
  <2>1. /\ rt'.queue = rt.queue /\ rt'.turn = rt.turn /\ rt'.superseded = rt.superseded
        /\ rt.gen = "preparing" /\ rt'.gen = "running"
    BY <1>1, <1>6 DEF Prepared, Runtimes
  <2>2. UNCHANGED <<lane, stash, promised>>
    BY <1>6 DEF Prepared
  <2> QED BY <2>1, <2>2, SameNext
<1>7. ~PrepareFails /\ ~SwitchModel
  BY DEF PrepareFails, SwitchModel, Forgetting
<1>8. CASE CloseComplete \/ CloseInterrupted \/ CloseFailed \/ Reported
  BY <1>8, CloseNext
<1>9. CASE \/ \E e \in {"tool", "output"} : Effect(e)
           \/ \E status \in {"complete", "interrupted", "failed"} : Terminal(status)
           \/ ToolAnswers \/ ToolEnds \/ CompactBegins \/ CompactEnds
  BY <1>9, EventNext
<1>10. CASE Abort \/ IdleGap \/ RecoverFailed \/ RetryCredential \/ LoopEnds
  BY <1>10, RuntimeEndsNext
<1>11. CASE TaskStarts \/ TaskEnds \/ UNCHANGED vars
  <2>1. UNCHANGED <<rt, lane, stash, promised>>
    BY <1>11 DEF TaskStarts, TaskEnds, vars
  <2> QED BY <2>1, SameNext
<1>12. CASE TaskReleased
  <2>1. UNCHANGED <<lane, stash>>
    BY <1>12 DEF TaskReleased
  <2>2. CASE rt.gen = "waiting" /\ Scan(rt)
    <3>1. promised = {} /\ promised' \in {{}, promised}
      BY <2>2 DEF PromiseInv, NextUp, Scan
    <3> QED BY <3>1 DEF PromiseInv
  <2>3. CASE (\E late : rt' = [rt EXCEPT !.wake = @ \/ late]) /\ UNCHANGED promised
    <3>1. /\ rt'.queue = rt.queue /\ rt'.turn = rt.turn
          /\ rt'.superseded = rt.superseded /\ rt'.gen = rt.gen
      BY <1>1, <2>3 DEF Runtimes
    <3> QED BY <2>1, <2>3, <3>1, SameNext
  <2> QED BY <1>12, <2>2, <2>3 DEF TaskReleased
<1> QED BY <1>2, <1>3, <1>4, <1>5, <1>6, <1>7, <1>8, <1>9, <1>10, <1>11, <1>12
        DEF Next, HostStep, ProviderStep

\* The prompt that interrupts a turn is part of the next one, through aborts,
\* failures, recoveries and replaced runtimes; what may part them is a failed
\* preparation, and what replaces a stash or forgets a queue.
THEOREM SuccessorsAreNext ==
    ASSUME Turmoil \cap Forgetting = {}
    PROVE  Spec => SuccessorNext
<1>1. Init => WakeInv /\ PromiseInv
  BY GoneWakes DEF Init, WakeInv, PromiseInv
<1>2. QueueInv /\ WakeInv /\ PromiseInv /\ [Next]_vars => WakeInv' /\ PromiseInv'
  BY WakeStep, PromiseStep
<1>3. QueueInv /\ WakeInv /\ PromiseInv /\ [Next]_vars
         => (Hands => promised \subseteq rt'.turn)
  <2> SUFFICES ASSUME QueueInv, WakeInv, PromiseInv, [Next]_vars, Hands
               PROVE  promised \subseteq rt'.turn
    OBVIOUS
  <2>1. CASE Pull
    BY <2>1, PullNext
  <2>2. CASE rt.gen = "waiting"
    BY <2>2 DEF PromiseInv, NextUp
  <2> QED BY <2>1, <2>2, HandsWhere
<1> QED BY <1>1, <1>2, <1>3, QueueInvHolds, PTL DEF Spec, SuccessorNext

-----------------------------------------------------------------------------
(* Lanes are served in order, while no prompt is lost and no start is      *)
(* joined: a joined start puts a later prompt before the one it was for.   *)

Ahead(q, a, b) == \E i, j \in 1..Len(q) : i < j /\ q[i] = a /\ q[j] = b

\* Atoms that were never in a turn are in the order of their arrival.
InOrder(q, sd, ar) == \A a, b \in Atoms \ sd :
    lane[a] = lane[b] /\ Ahead(ar, a, b) => ~Ahead(q, b, a)

\* Who came before an atom that was in a turn was in one, or was folded.
Served(sd, ar, c) == \A a, b \in Atoms :
    lane[a] = lane[b] /\ Ahead(ar, a, b) /\ b \in sd => a \in sd \/ FoldedIn(c, a)

LaneInv ==
    /\ rt.turn \subseteq stamped /\ settled \subseteq stamped
    /\ stamped \subseteq ToSet(arrived) /\ IsInjective(arrived)
    /\ InOrder(stash \o rt.queue, stamped, arrived)
    /\ Served(stamped, arrived, carries)

\* The order of two atoms, where they are and what is put together.
LEMMA AheadFacts ==
    ASSUME NEW q \in Seq(Atoms), NEW a, NEW b
    PROVE  /\ Ahead(q, a, b) => a \in ToSet(q) /\ b \in ToSet(q)
           /\ a \in ToSet(q) /\ b \in ToSet(q) /\ a # b => Ahead(q, a, b) \/ Ahead(q, b, a)
           /\ IsInjective(q) /\ Ahead(q, a, b) => a # b
<1>1. DOMAIN q = 1..Len(q) /\ Len(q) \in Nat
  OBVIOUS
<1>2. Ahead(q, a, b) => a \in ToSet(q) /\ b \in ToSet(q)
  BY <1>1 DEF Ahead, ToSet
<1>3. ASSUME a \in ToSet(q), b \in ToSet(q), a # b
      PROVE  Ahead(q, a, b) \/ Ahead(q, b, a)
  <2>1. PICK i \in 1..Len(q) : q[i] = a
    BY <1>1, <1>3 DEF ToSet
  <2>2. PICK j \in 1..Len(q) : q[j] = b
    BY <1>1, <1>3 DEF ToSet
  <2>3. i < j \/ j < i
    BY <1>1, <1>3, <2>1, <2>2
  <2> QED BY <2>1, <2>2, <2>3 DEF Ahead
<1>4. ASSUME IsInjective(q), Ahead(q, a, b) PROVE a # b
  <2>1. PICK i \in 1..Len(q), j \in 1..Len(q) : i < j /\ q[i] = a /\ q[j] = b
    BY <1>4 DEF Ahead
  <2> QED BY <1>1, <1>4, <2>1 DEF IsInjective
<1> QED BY <1>2, <1>3, <1>4

\* Who is ahead in queues put together.
LEMMA AheadConcat ==
    ASSUME NEW p \in Seq(Atoms), NEW q \in Seq(Atoms), NEW a, NEW b, Ahead(p \o q, a, b)
    PROVE  Ahead(p, a, b) \/ Ahead(q, a, b) \/ (a \in ToSet(p) /\ b \in ToSet(q))
<1> DEFINE t == p \o q
<1>1. /\ Len(t) = Len(p) + Len(q) /\ Len(p) \in Nat /\ Len(q) \in Nat
      /\ \A i \in 1..Len(p) : t[i] = p[i]
      /\ \A i \in 1..Len(q) : t[Len(p) + i] = q[i]
      /\ DOMAIN p = 1..Len(p) /\ DOMAIN q = 1..Len(q)
  OBVIOUS
<1>2. PICK i \in 1..Len(t), j \in 1..Len(t) : i < j /\ t[i] = a /\ t[j] = b
  BY DEF Ahead
<1> HIDE DEF t
<1>3. CASE j <= Len(p)
  <2>1. i \in 1..Len(p) /\ j \in 1..Len(p) /\ p[i] = a /\ p[j] = b
    BY <1>1, <1>2, <1>3
  <2> QED BY <1>2, <2>1 DEF Ahead
<1>4. CASE i <= Len(p) /\ ~(j <= Len(p))
  <2>1. i \in 1..Len(p) /\ p[i] = a
    BY <1>1, <1>2, <1>4
  <2>2. j - Len(p) \in 1..Len(q) /\ j = Len(p) + (j - Len(p))
    BY <1>1, <1>2, <1>4
  <2>3. q[j - Len(p)] = b
    BY <1>1, <1>2, <2>2
  <2> QED BY <1>1, <2>1, <2>2, <2>3 DEF ToSet
<1>5. CASE ~(i <= Len(p))
  <2>1. /\ i - Len(p) \in 1..Len(q) /\ i = Len(p) + (i - Len(p))
        /\ j - Len(p) \in 1..Len(q) /\ j = Len(p) + (j - Len(p))
        /\ i - Len(p) < j - Len(p)
    BY <1>1, <1>2, <1>5
  <2>2. q[i - Len(p)] = a /\ q[j - Len(p)] = b
    BY <1>1, <1>2, <2>1
  <2> QED BY <2>1, <2>2 DEF Ahead
<1> QED BY <1>1, <1>2, <1>3, <1>4, <1>5

LEMMA AheadAppend ==
    ASSUME NEW q \in Seq(Atoms), NEW x \in Atoms, NEW a, NEW b, Ahead(Append(q, x), a, b)
    PROVE  Ahead(q, a, b) \/ (a \in ToSet(q) /\ b = x)
<1>1. Append(q, x) = q \o <<x>> /\ <<x>> \in Seq(Atoms) /\ ToSet(<<x>>) = {x}
  BY AppendIsConcat, SingleFacts
<1>2. ~Ahead(<<x>>, a, b)
  <2>1. Len(<<x>>) = 1
    OBVIOUS
  <2> QED BY <2>1 DEF Ahead
<1> DEFINE one == <<x>>
<1>3. one \in Seq(Atoms) /\ ToSet(one) = {x} /\ Ahead(q \o one, a, b) /\ ~Ahead(one, a, b)
  BY <1>1, <1>2
<1> HIDE DEF one
<1>4. Ahead(q, a, b) \/ Ahead(one, a, b) \/ (a \in ToSet(q) /\ b \in ToSet(one))
  BY <1>3, AheadConcat
<1> QED BY <1>3, <1>4

\* What filters a queue keeps its order.
LEMMA AheadWithin ==
    ASSUME NEW q \in Seq(Atoms), NEW S, NEW a, NEW b
    PROVE  /\ Ahead(Within(q, S), a, b) => Ahead(q, a, b)
           /\ Ahead(q, a, b) /\ a \in S /\ b \in S => Ahead(Within(q, S), a, b)
<1> DEFINE w == Within(q, S)
<1>1. w \in Seq(Atoms) /\ \E g : Picks(g, w, q, Len(q), S)
  BY WithinPicks
<1>2. PICK g : Picks(g, w, q, Len(q), S)
  BY <1>1
<1> HIDE DEF w
<1>3. ASSUME Ahead(w, a, b) PROVE Ahead(q, a, b)
  <2>1. PICK i \in 1..Len(w), j \in 1..Len(w) : i < j /\ w[i] = a /\ w[j] = b
    BY <1>3 DEF Ahead
  <2>2. /\ g[i] \in 1..Len(q) /\ g[j] \in 1..Len(q) /\ g[i] < g[j]
        /\ q[g[i]] = a /\ q[g[j]] = b
    BY <1>2, <2>1 DEF Picks
  <2> QED BY <2>2 DEF Ahead
<1>4. ASSUME Ahead(q, a, b), a \in S, b \in S PROVE Ahead(w, a, b)
  <2>1. PICK k \in 1..Len(q), l \in 1..Len(q) : k < l /\ q[k] = a /\ q[l] = b
    BY <1>4 DEF Ahead
  <2>2. PICK i \in 1..Len(w) : g[i] = k
    BY <1>2, <1>4, <2>1 DEF Picks
  <2>3. PICK j \in 1..Len(w) : g[j] = l
    BY <1>2, <1>4, <2>1 DEF Picks
  <2>4. w[i] = a /\ w[j] = b
    BY <1>2, <2>1, <2>2, <2>3 DEF Picks
  <2>5. i < j
    <3>1. ~(j < i)
      BY <1>2, <2>1, <2>2, <2>3 DEF Picks
    <3>2. i # j
      BY <2>1, <2>2, <2>3
    <3> QED BY <1>1, <3>1, <3>2
  <2> QED BY <2>4, <2>5 DEF Ahead
<1> QED BY <1>3, <1>4 DEF w

\* A prefix that has an atom has whoever is ahead of it.
LEMMA BeforeTakes ==
    ASSUME NEW q \in Seq(Atoms), IsInjective(q), NEW S, NEW a, NEW b,
           Ahead(q, a, b), b \in ToSet(Before(q, S))
    PROVE  a \in ToSet(Before(q, S))
<1>1. PICK n \in 0..Len(q) : Before(q, S) = SubSeq(q, 1, n)
  BY BeforePrefix
<1> DEFINE p == Before(q, S)
<1>2. p \in Seq(Atoms) /\ Len(p) = n /\ \A i \in 1..n : p[i] = q[i]
  BY <1>1
<1> HIDE DEF p
<1>3. DOMAIN p = 1..n /\ DOMAIN q = 1..Len(q) /\ Len(q) \in Nat
  BY <1>2
<1>4. PICK i \in 1..Len(q), j \in 1..Len(q) : i < j /\ q[i] = a /\ q[j] = b
  BY DEF Ahead
<1>5. PICK k \in 1..n : p[k] = b
  BY <1>3 DEF p, ToSet
<1>6. k = j
  BY <1>2, <1>3, <1>4, <1>5 DEF IsInjective
<1>7. i \in 1..n /\ p[i] = a
  BY <1>2, <1>3, <1>4, <1>6
<1> QED BY <1>3, <1>7 DEF p, ToSet

LEMMA AheadPrefix ==
    ASSUME NEW q \in Seq(Atoms), NEW S, NEW a, NEW b, Ahead(Before(q, S), a, b)
    PROVE  Ahead(q, a, b)
<1>1. PICK n \in 0..Len(q) : Before(q, S) = SubSeq(q, 1, n)
  BY BeforePrefix
<1> DEFINE p == Before(q, S)
<1>2. p \in Seq(Atoms) /\ Len(p) = n /\ \A i \in 1..n : p[i] = q[i] /\ i \in 1..Len(q)
  BY <1>1
<1> HIDE DEF p
<1>3. PICK i \in 1..n, j \in 1..n : i < j /\ p[i] = a /\ p[j] = b
  BY <1>2 DEF p, Ahead
<1> QED BY <1>2, <1>3 DEF Ahead

\* Two atoms are in one order only.
LEMMA AheadOnce ==
    ASSUME NEW q \in Seq(Atoms), IsInjective(q), NEW a, NEW b, Ahead(q, a, b)
    PROVE  ~Ahead(q, b, a)
<1>1. PICK i \in 1..Len(q), j \in 1..Len(q) : i < j /\ q[i] = a /\ q[j] = b
  BY DEF Ahead
<1> SUFFICES ASSUME NEW k \in 1..Len(q), NEW l \in 1..Len(q), k < l, q[k] = b, q[l] = a
             PROVE  FALSE
  BY DEF Ahead
<1>2. k = j /\ l = i
  BY <1>1 DEF IsInjective
<1> QED BY <1>1, <1>2

\* A thinner queue has no new order.
Thins(q, s) == \A a, b \in Atoms : Ahead(q, a, b) => Ahead(s, a, b)

\* What filters or is carried over is thinner.
LEMMA WithinThins ==
    ASSUME NEW q \in Seq(Atoms), NEW S
    PROVE  Thins(Within(q, S), q) /\ Thins(Without(q, S), q) /\ Thins(<<>>, q)
<1>1. Thins(Within(q, S), q) /\ Thins(Within(q, Atoms \ S), q)
  BY AheadWithin DEF Thins
<1>2. Thins(<<>>, q)
  <2>1. Len(<<>>) = 0
    OBVIOUS
  <2> QED BY <2>1 DEF Thins, Ahead
<1> QED BY <1>1, <1>2 DEF Without

LEMMA CarriedThins ==
    ASSUME NEW r \in Runtimes
    PROVE  Thins(Carryable(r), r.queue) /\ Thins(Retained(r), r.queue)
<1>1. r.queue \in Seq(Atoms)
  BY DEF Runtimes
<1>2. Thins(Successors(r), r.queue)
  BY <1>1, WithinThins DEF Successors
<1>3. Thins(Retained(r), r.queue)
  BY <1>1, WithinThins DEF Retained, Thins
<1> QED BY <1>2, <1>3 DEF Carryable

LEMMA EmptyConcat ==
    ASSUME NEW q \in Seq(Atoms)
    PROVE  <<>> \o q = q /\ q \o <<>> = q
OBVIOUS

\* A turn takes an atom only with those of its lane that are ahead of it.
LEMMA DeliversInOrder ==
    ASSUME NEW r \in Runtimes, IsInjective(r.queue), NEW a \in Atoms, NEW b \in Atoms,
           lane[a] = lane[b], Ahead(r.queue, a, b), b \in ToSet(Deliverable(r))
    PROVE  a \in ToSet(Deliverable(r))
<1> DEFINE free == {c \in Atoms : CanRelease(r, c)}
           able == Within(r.queue, free)
           cut == {c \in Atoms \ {able[1]} : Apart(able[1], c)}
<1>1. r.queue \in Seq(Atoms) /\ Deliverable(r) = Before(able, cut)
  BY DEF Runtimes, Deliverable
<1>2. CanRelease(r, b)
  BY DeliverableFacts
<1>3. a \in free /\ b \in free
  BY <1>2 DEF CanRelease
<1>4. able \in Seq(Atoms) /\ IsInjective(able) /\ Ahead(able, a, b)
  <2> HIDE DEF free
  <2> QED BY <1>1, <1>3, WithinFacts, AheadWithin
<1> HIDE DEF able, cut
<1> QED BY <1>1, <1>4, BeforeTakes

\* So does a cohort.
LEMMA FoldsInOrder ==
    ASSUME NEW r \in Runtimes, IsInjective(r.queue), NEW a \in Atoms, NEW b \in Atoms,
           lane[a] = lane[b], Ahead(r.queue, a, b), a \notin r.turn,
           b \in ToSet(Cohort(r))
    PROVE  a \in ToSet(Cohort(r))
<1> DEFINE rest == Without(r.queue, r.turn)
           other == {c \in Atoms : \E d \in r.turn : OtherSurface(d, c)}
           near == Before(rest, other)
           free == {c \in Atoms : MayInterrupt(r, c)}
           able == Able(r)
           cut == {c \in Atoms \ {able[1]} : ~Foldable(able[1], c)}
<1>1. r.queue \in Seq(Atoms) /\ Cohort(r) = Before(able, cut)
  BY DEF Runtimes, Cohort
<1>2. MayInterrupt(r, b) /\ b \notin r.turn /\ r.turn # {}
  <2>1. r.turn = {} => ToSet(Cohort(r)) = {}
    BY CohortFacts, SingleFacts
  <2> QED BY <2>1, CohortFacts
<1>3. a \in free /\ b \in free
  BY <1>2 DEF MayInterrupt
<1>4. able = Within(near, free)
  BY <1>2 DEF Able
<1>5. rest \in Seq(Atoms) /\ IsInjective(rest) /\ Ahead(rest, a, b)
  <2>1. Ahead(Within(r.queue, Atoms \ r.turn), a, b)
    BY <1>1, <1>2, AheadWithin
  <2> QED BY <1>1, <2>1, WithoutFacts DEF Without
<1>6. near \in Seq(Atoms) /\ IsInjective(near)
  <2> HIDE DEF rest, other
  <2> QED BY <1>5, BeforeFacts
<1>7. able \in Seq(Atoms) /\ IsInjective(able) /\ ToSet(able) = ToSet(near) \cap free
  <2> HIDE DEF near, free, able
  <2> QED BY <1>4, <1>6, WithinFacts
<1>8. b \in ToSet(near)
  <2> HIDE DEF able, cut, near, free
  <2>1. b \in ToSet(able)
    BY <1>1, <1>7, BeforeFacts
  <2> QED BY <1>7, <2>1
<1>9. Ahead(near, a, b)
  <2> HIDE DEF rest, other, free, able, cut
  <2>1. a \in ToSet(near)
    BY <1>5, <1>8, BeforeTakes
  <2>2. a # b
    BY <1>5, AheadFacts
  <2>3. ~Ahead(near, b, a)
    <3> SUFFICES ASSUME Ahead(near, b, a) PROVE FALSE
      OBVIOUS
    <3>1. Ahead(rest, b, a)
      BY <1>5, AheadPrefix
    <3> QED BY <1>5, <3>1, AheadOnce
  <2> QED BY <1>6, <1>8, <2>1, <2>2, <2>3, AheadFacts
<1>10. Ahead(able, a, b)
  <2> HIDE DEF near, free, able
  <2> QED BY <1>3, <1>4, <1>6, <1>9, AheadWithin
<1> HIDE DEF able, cut
<1> QED BY <1>1, <1>7, <1>10, BeforeTakes

\* An arrival behind two queues is behind the second.
LEMMA AppendBehind ==
    ASSUME NEW p \in Seq(Atoms), NEW q \in Seq(Atoms), NEW a \in Atoms
    PROVE  Append(p \o q, a) = p \o Append(q, a)
<1> DEFINE l == Append(p \o q, a)
           m == p \o Append(q, a)
<1>1. Append(q, a) \in Seq(Atoms) /\ p \o q \in Seq(Atoms)
  OBVIOUS
<1>2. l \in Seq(Atoms) /\ m \in Seq(Atoms) /\ Len(l) = Len(m)
  BY <1>1
<1>3. \A i \in 1..Len(l) : l[i] = m[i]
  BY <1>1
<1> HIDE DEF l, m
<1> QED BY <1>2, <1>3, SeqEqual DEF l, m

\* The parts of the invariant after a step.
LEMMA LaneParts ==
    ASSUME UNCHANGED lane, rt'.turn \subseteq stamped', settled' \subseteq stamped',
           stamped' \subseteq ToSet(arrived'), IsInjective(arrived'),
           InOrder(stash' \o rt'.queue, stamped', arrived'),
           Served(stamped', arrived', carries')
    PROVE  LaneInv'
BY DEF LaneInv, InOrder, Served, FoldedIn, Ahead, ToSet, IsInjective

\* A step that puts nothing into a turn and adds no order.
LEMMA CalmLanes ==
    ASSUME LaneInv, Thins(stash' \o rt'.queue, stash \o rt.queue),
           rt'.turn \subseteq stamped, settled' \subseteq settled \cup rt.turn,
           UNCHANGED <<lane, stamped, arrived, carries>>
    PROVE  LaneInv'
<1>1. InOrder(stash' \o rt'.queue, stamped, arrived)
  BY DEF LaneInv, InOrder, Thins
<1> QED BY <1>1, LaneParts DEF LaneInv

\* A prompt arrives at the end of the line.
LEMMA ArriveLanes ==
    ASSUME NEW line \in Seq(Atoms), NEW ar \in Seq(Atoms), NEW a \in Atoms,
           a \notin ToSet(ar), ToSet(line) \subseteq ToSet(ar), stamped \subseteq ToSet(ar),
           IsInjective(ar), InOrder(line, stamped, ar), Served(stamped, ar, carries)
    PROVE  /\ InOrder(Append(line, a), stamped, Append(ar, a))
           /\ Served(stamped, Append(ar, a), carries)
           /\ IsInjective(Append(ar, a)) /\ ToSet(Append(ar, a)) = ToSet(ar) \cup {a}
<1>1. ASSUME NEW b, NEW c, Ahead(Append(ar, a), b, c)
      PROVE  Ahead(ar, b, c) \/ (b \in ToSet(ar) /\ c = a)
  BY <1>1, AheadAppend
<1>2. ASSUME NEW b, NEW c, Ahead(Append(line, a), b, c)
      PROVE  Ahead(line, b, c) \/ (b \in ToSet(line) /\ c = a)
  BY <1>2, AheadAppend
<1>3. ASSUME NEW b \in Atoms \ stamped, NEW c \in Atoms \ stamped, lane[b] = lane[c],
             Ahead(Append(ar, a), b, c)
      PROVE  ~Ahead(Append(line, a), c, b)
  <2> SUFFICES ASSUME Ahead(Append(line, a), c, b) PROVE FALSE
    OBVIOUS
  <2>1. b \in ToSet(ar)
    BY <1>1, <1>3, AheadFacts
  <2>2. Ahead(line, c, b) /\ c \in ToSet(line)
    BY <1>2, <2>1, AheadFacts
  <2>3. Ahead(ar, b, c)
    BY <1>1, <1>3, <2>2
  <2> QED BY <1>3, <2>2, <2>3 DEF InOrder
<1>4. Served(stamped, Append(ar, a), carries)
  BY <1>1 DEF Served
<1> QED BY <1>3, <1>4, AppendFacts DEF InOrder

\* The cohort moves ahead of those that may not interrupt, none of which is of
\* its lane and before it.
LEMMA InterruptLanes ==
    ASSUME NEW r \in Runtimes, IsInjective(r.queue), NEW ar, r.turn \subseteq stamped,
           InOrder(r.queue, stamped, ar), Served(stamped, ar, carries), Interrupt(r),
           ar \in Seq(Atoms), IsInjective(ar), carries \in [Atoms -> SUBSET Atoms],
           Carrying(carries)
    PROVE  /\ InOrder(rt'.queue, stamped, ar) /\ Served(stamped, ar, carries')
           /\ rt'.turn = r.turn /\ settled' \subseteq settled \cup r.turn
<1> DEFINE fold == Cohort(r)
           lead == fold[Len(fold)]
           now == Within(r.queue, r.turn)
           rest == Without(r.queue, r.turn \cup ToSet(fold))
           q == now \o <<lead>> \o rest
<1>1. CASE fold = <<>>
  BY <1>1 DEF Interrupt
<1>2. CASE fold # <<>>
  <2>1. /\ rt' = [r EXCEPT !.queue = q, !.superseded = TRUE, !.interrupted = TRUE]
        /\ carries' = [carries EXCEPT ![lead] = UNION {carries[a] : a \in ToSet(fold)}]
        /\ settled' = settled \cup r.turn
    BY <1>2 DEF Interrupt
  <2>2. /\ fold \in Seq(Atoms) /\ lead \in ToSet(fold) /\ lead \in Atoms
        /\ ToSet(fold) \subseteq ToSet(r.queue) \ r.turn
    <3>1. fold \in Seq(Atoms) /\ ToSet(fold) \subseteq ToSet(r.queue) \ r.turn
      BY CohortFacts
    <3> HIDE DEF fold
    <3> QED BY <3>1, <1>2, QueueFacts
  <2>3. now \in Seq(Atoms) /\ ToSet(now) = ToSet(r.queue) \cap r.turn
    BY CurrentFacts
  <2>4. /\ rest \in Seq(Atoms) /\ ToSet(rest) = ToSet(r.queue) \ (r.turn \cup ToSet(fold))
        /\ Thins(rest, r.queue)
    BY WithoutFacts, WithinThins DEF Runtimes
  <2>5. \A a \in Atoms : lane[a] = lane[lead] /\ Ahead(r.queue, a, lead) /\ a \notin r.turn
                           => a \in ToSet(fold)
    BY <2>2, FoldsInOrder
  <2> DEFINE one == <<lead>>
             front == now \o one
  <2>6. one \in Seq(Atoms) /\ ToSet(one) = {lead} /\ \A a, b : ~Ahead(one, a, b)
    <3>1. Len(one) = 1
      OBVIOUS
    <3>2. \A a, b : ~Ahead(one, a, b)
      BY <3>1 DEF Ahead
    <3> HIDE DEF lead
    <3> QED BY <2>2, <3>2, SingleFacts
  <2>7. q = front \o rest
    OBVIOUS
  <2> HIDE DEF fold, lead, now, rest, one, q
  <2>8. front \in Seq(Atoms) /\ ToSet(front) = ToSet(now) \cup {lead}
    BY <2>3, <2>6, ConcatFacts
  <2>9. q \in Seq(Atoms)
    <3> HIDE DEF front
    <3> QED BY <2>4, <2>7, <2>8, ConcatFacts
  <2>10. rt'.queue = q /\ rt'.turn = r.turn
    BY <2>1, <2>9 DEF Runtimes
  <2>11. ASSUME NEW a \in Atoms \ stamped, NEW b \in Atoms \ stamped, lane[a] = lane[b],
                Ahead(ar, a, b), Ahead(q, b, a)
         PROVE  FALSE
    <3>1. a \notin ToSet(now) /\ b \notin ToSet(now)
      BY <2>3
    <3>2. ~Ahead(front, b, a)
      <4> SUFFICES ASSUME Ahead(front, b, a) PROVE FALSE
        OBVIOUS
      <4>1. \/ Ahead(now, b, a) \/ Ahead(one, b, a) \/ (b \in ToSet(now) /\ a \in ToSet(one))
        BY <2>3, <2>6, AheadConcat
      <4> QED BY <2>3, <2>6, <3>1, <4>1, AheadFacts
    <3>3. Ahead(rest, b, a) \/ (b \in ToSet(front) /\ a \in ToSet(rest))
      <4>1. Ahead(front \o rest, b, a)
        BY <2>7, <2>11
      <4> HIDE DEF front
      <4> QED BY <2>4, <2>8, <3>2, <4>1, AheadConcat
    <3>4. ~Ahead(r.queue, b, a)
      BY <2>11 DEF InOrder
    <3>5. b = lead /\ a \in ToSet(rest)
      BY <2>4, <2>8, <2>11, <3>1, <3>3, <3>4 DEF Thins
    <3>6. a # b
      BY <2>11, AheadFacts
    <3>7. Ahead(r.queue, a, b)
      <4>1. r.queue \in Seq(Atoms) /\ a \in ToSet(r.queue) /\ b \in ToSet(r.queue)
        BY <2>2, <2>4, <3>5 DEF Runtimes
      <4> QED BY <3>4, <3>6, <4>1, AheadFacts
    <3> QED BY <2>4, <2>5, <2>11, <3>5, <3>7
  <2>12. \A a \in Atoms : carries[a] \subseteq carries'[a]
    BY <2>1, <2>2
  <2>13. \A a \in Atoms : FoldedIn(carries, a) => FoldedIn(carries', a)
    BY <2>12 DEF FoldedIn
  <2> QED BY <2>1, <2>10, <2>11, <2>13 DEF InOrder, Served
<1> QED BY <1>1, <1>2

\* The generator hands over the first of each lane.
LEMMA ScanLanes ==
    ASSUME NEW r \in Runtimes, IsInjective(r.queue), r.turn = {}, Scan(r),
           NEW ar \in Seq(Atoms), IsInjective(ar), NEW st, st \subseteq stamped,
           AllSomewhere(r, <<>>, st, ar, carries), ToSet(r.queue) \subseteq ToSet(ar),
           stamped \subseteq ToSet(ar), InOrder(r.queue, stamped, ar),
           Served(stamped, ar, carries)
    PROVE  /\ stamped \subseteq stamped' /\ stamped' \subseteq ToSet(ar)
           /\ rt'.turn \subseteq stamped' /\ rt'.queue = r.queue
           /\ InOrder(rt'.queue, stamped', ar) /\ Served(stamped', ar, carries)
<1> DEFINE d == ToSet(Deliverable(r))
<1>1. d \subseteq ToSet(r.queue)
  BY DeliverableFacts
<1>2. /\ stamped' = stamped \cup d /\ rt'.queue = r.queue
      /\ rt'.turn \subseteq d
  <2>1. CASE d = {}
    <3>1. rt' = [r EXCEPT !.gen = "waiting", !.wake = FALSE] /\ UNCHANGED stamped
      BY <2>1 DEF Scan
    <3> HIDE DEF d
    <3> QED BY <2>1, <3>1 DEF Runtimes
  <2>2. CASE d # {}
    <3>1. /\ rt' = [r EXCEPT !.gen = "preparing", !.turn = d, !.active = TRUE,
                             !.latch = "none", !.effects = {}, !.superseded = FALSE,
                             !.timer = FALSE, !.wake = r.wake /\ r.gen # "waiting"]
          /\ stamped' = stamped \cup d
      BY <2>2 DEF Scan
    <3> HIDE DEF d
    <3> QED BY <3>1 DEF Runtimes
  <2> QED BY <2>1, <2>2
<1>3. ASSUME NEW a \in Atoms, NEW b \in Atoms, lane[a] = lane[b], Ahead(ar, a, b), b \in d
      PROVE  a \in stamped \cup d \/ FoldedIn(carries, a)
  <2> SUFFICES ASSUME a \notin stamped, ~FoldedIn(carries, a) PROVE a \in d
    OBVIOUS
  <2>1. CASE b \in stamped
    BY <1>3, <2>1 DEF Served
  <2>2. CASE b \notin stamped
    <3>1. a \in ToSet(ar) /\ a # b
      BY <1>3, AheadFacts
    <3>2. a \in ToSet(r.queue)
      BY <3>1, SingleFacts DEF AllSomewhere
    <3>3. ~Ahead(r.queue, b, a)
      BY <1>3, <2>2 DEF InOrder
    <3>4. Ahead(r.queue, a, b)
      <4>1. r.queue \in Seq(Atoms) /\ b \in ToSet(r.queue)
        BY <1>1, <1>3 DEF Runtimes
      <4> QED BY <3>1, <3>2, <3>3, <4>1, AheadFacts
    <3> QED BY <1>3, <3>4, DeliversInOrder
  <2> QED BY <2>1, <2>2
<1> HIDE DEF d
<1>4. Served(stamped \cup d, ar, carries)
  BY <1>3 DEF Served
<1>5. InOrder(r.queue, stamped \cup d, ar)
  BY DEF InOrder
<1> QED BY <1>1, <1>2, <1>4, <1>5

\* A prompt arrives at a name in any state but one with a start to join.
LEMMA PromptLanes ==
    ASSUME "join" \notin Turmoil, QueueInv, KeptInv, LaneInv, NEW a \in Atoms, Prompt(a)
    PROVE  LaneInv'
<1> DEFINE q == Append(rt.queue, a)
           pushed == [rt EXCEPT !.queue = q]
<1>1. /\ rt \in Runtimes /\ rt.queue \in Seq(Atoms) /\ stash \in Seq(Atoms)
      /\ Fits(rt, stash, settled, arrived) /\ arrived \in Seq(Atoms)
      /\ IsInjective(rt.queue) /\ ToSet(stash) \subseteq ToSet(arrived)
      /\ ToSet(rt.queue) \subseteq ToSet(arrived)
      /\ carries \in [Atoms -> SUBSET Atoms]
  BY DEF QueueInv, OthersOK, Fits, ApartOK, KnownOK, Runtimes
<1>2. /\ AllSomewhere(rt, stash, settled, arrived, carries)
      /\ TurnKept(rt, stash, settled) /\ Carrying(carries)
  BY DEF KeptInv
<1>3. /\ rt.turn \subseteq stamped /\ settled \subseteq stamped
      /\ stamped \subseteq ToSet(arrived) /\ IsInjective(arrived)
      /\ InOrder(stash \o rt.queue, stamped, arrived) /\ Served(stamped, arrived, carries)
  BY DEF LaneInv
<1>4. /\ a \notin ToSet(arrived) /\ arrived' = Append(arrived, a) /\ UNCHANGED lane
  BY DEF Prompt
<1>5. /\ arrived' \in Seq(Atoms) /\ ToSet(arrived') = ToSet(arrived) \cup {a}
      /\ q \in Seq(Atoms) /\ ToSet(q) = ToSet(rt.queue) \cup {a} /\ IsInjective(q)
      /\ a \notin ToSet(rt.queue)
  BY <1>1, <1>4, AppendFacts
<1>6. /\ pushed \in Runtimes /\ pushed.life = rt.life /\ pushed.gen = rt.gen
      /\ pushed.turn = rt.turn /\ pushed.queue = q
  BY <1>1, <1>5 DEF Runtimes
<1>7. /\ InOrder(Append(stash \o rt.queue, a), stamped, arrived')
      /\ Served(stamped, arrived', carries) /\ IsInjective(arrived')
      /\ stamped \subseteq ToSet(arrived')
  <2>1. stash \o rt.queue \in Seq(Atoms) /\ ToSet(stash \o rt.queue) \subseteq ToSet(arrived)
    BY <1>1, ConcatFacts
  <2> QED BY <1>1, <1>3, <1>4, <1>5, <2>1, ArriveLanes
<1>8. Append(stash \o rt.queue, a) = stash \o q
  BY <1>1, AppendBehind
<1>9. stash = <<>> => stash \o q = q
  BY <1>5, EmptyConcat
<1>10. rt.gen \notin {"none", "fresh"} => stash = <<>>
  BY <1>1, <1>2 DEF TurnKept, Fits, PlacesOK
<1>11. CASE /\ rt.life = "none" /\ rt' = Asked(<<a>>)
            /\ UNCHANGED <<stash, stamped, carries, settled, promised>>
  <2>1. rt.queue = <<>>
    BY <1>1, <1>11 DEF Fits, PlacesOK
  <2>2. q = <<a>> /\ rt'.queue = <<a>> /\ rt'.turn = {}
    <3>1. Append(<<>>, a) = <<a>>
      OBVIOUS
    <3>2. rt'.queue = <<a>> /\ rt'.turn = {}
      BY <1>11, GoneFacts, SingleFacts
    <3> QED BY <2>1, <3>1, <3>2
  <2>3. rt'.queue = q
    BY <2>2
  <2> HIDE DEF q
  <2> QED BY <1>3, <1>4, <1>7, <1>8, <1>11, <2>2, <2>3, LaneParts
<1> HIDE DEF q
<1>12. CASE /\ \E late \in BOOLEAN : rt' = [pushed EXCEPT !.wake = @ \/ late, !.timer = @ \/ late]
            /\ UNCHANGED <<stash, stamped, carries, settled>>
  <2>1. rt'.queue = q /\ rt'.turn = rt.turn
    BY <1>6, <1>12 DEF Runtimes
  <2> QED BY <1>3, <1>4, <1>7, <1>8, <1>12, <2>1, LaneParts
<1>13. CASE rt' = pushed /\ UNCHANGED <<stash, stamped, carries, settled>>
  BY <1>3, <1>4, <1>6, <1>7, <1>8, <1>13, LaneParts
<1>14. CASE rt.gen = "waiting" /\ Scan(pushed) /\ UNCHANGED <<stash, carries, settled>>
  <2>1. stash = <<>> /\ rt.turn = {}
    BY <1>1, <1>10, <1>14 DEF Fits, PlacesOK
  <2>2. AllSomewhere(pushed, <<>>, settled, arrived', carries)
    BY <1>2, <1>5, <1>6, <2>1 DEF AllSomewhere
  <2> HIDE DEF pushed
  <2>3. InOrder(pushed.queue, stamped, arrived') /\ ToSet(pushed.queue) \subseteq ToSet(arrived')
    BY <1>1, <1>5, <1>6, <1>7, <1>8, <1>9, <2>1
  <2>4. /\ stamped \subseteq stamped' /\ stamped' \subseteq ToSet(arrived')
        /\ rt'.turn \subseteq stamped' /\ rt'.queue = q
        /\ InOrder(q, stamped', arrived') /\ Served(stamped', arrived', carries)
    <3>1. IsInjective(pushed.queue) /\ pushed.turn = {}
      BY <1>5, <1>6, <2>1
    <3>2. /\ stamped \subseteq stamped' /\ stamped' \subseteq ToSet(arrived')
          /\ rt'.turn \subseteq stamped' /\ rt'.queue = pushed.queue
          /\ InOrder(rt'.queue, stamped', arrived') /\ Served(stamped', arrived', carries)
      BY <1>3, <1>5, <1>6, <1>7, <1>14, <2>2, <2>3, <3>1, ScanLanes
    <3> QED BY <1>6, <3>2
  <2>5. stash' \o rt'.queue = q
    BY <1>9, <1>14, <2>1, <2>4
  <2> QED BY <1>3, <1>4, <1>7, <1>14, <2>4, <2>5, LaneParts
<1>15. CASE Interrupt(pushed) /\ rt.gen \notin {"none", "fresh"} /\ UNCHANGED <<stash, stamped>>
  <2> HIDE DEF pushed
  <2>1. stash = <<>>
    BY <1>10, <1>15
  <2>2. InOrder(pushed.queue, stamped, arrived')
    BY <1>6, <1>7, <1>8, <1>9, <2>1
  <2>3. /\ InOrder(rt'.queue, stamped, arrived') /\ Served(stamped, arrived', carries')
        /\ rt'.turn = rt.turn /\ settled' \subseteq settled \cup rt.turn
    <3>1. IsInjective(pushed.queue) /\ pushed.turn \subseteq stamped
      BY <1>3, <1>5, <1>6
    <3> QED BY <1>1, <1>2, <1>5, <1>6, <1>7, <1>15, <2>2, <3>1, InterruptLanes
  <2>4. stash' \o rt'.queue = rt'.queue
    <3>1. rt'.queue \in Seq(Atoms)
      BY PromptFits DEF QueueInv, Fits, Runtimes
    <3> QED BY <1>15, <2>1, <3>1, EmptyConcat
  <2> QED BY <1>3, <1>4, <1>7, <1>15, <2>3, <2>4, LaneParts
<1>16. MayInterrupt(pushed, a) => rt.gen \notin {"none", "fresh"}
  BY <1>1, <1>6 DEF MayInterrupt, Fits, PlacesOK
<1>17. (~rt.compacting /\ ~rt.active) \in BOOLEAN
  OBVIOUS
<1>18. Prompt(a) => \/ /\ rt.life = "none" /\ rt' = Asked(<<a>>)
                       /\ UNCHANGED <<stash, stamped, carries, settled, promised>>
                    \/ rt' = pushed /\ UNCHANGED <<stash, stamped, carries, settled>>
                    \/ rt.gen = "waiting" /\ Scan(pushed) /\ UNCHANGED <<stash, carries, settled>>
                    \/ MayInterrupt(pushed, a) /\ Interrupt(pushed) /\ UNCHANGED <<stash, stamped>>
                    \/ /\ \E late \in BOOLEAN :
                             rt' = [pushed EXCEPT !.wake = @ \/ late, !.timer = @ \/ late]
                       /\ UNCHANGED <<stash, stamped, carries, settled>>
  BY <1>17 DEF Prompt, pushed, q
<1> QED BY <1>11, <1>12, <1>13, <1>14, <1>15, <1>16, <1>18

\* The stash goes before the queue, or the last turn leaves it, before the scan.
LEMMA PullLanes ==
    ASSUME QueueInv, KeptInv, LaneInv, Pull
    PROVE  LaneInv'
<1>1. /\ rt \in Runtimes /\ rt.queue \in Seq(Atoms) /\ stash \in Seq(Atoms)
      /\ Fits(rt, stash, settled, arrived) /\ arrived \in Seq(Atoms)
      /\ IsInjective(rt.queue) /\ ToSet(stash) \subseteq ToSet(arrived)
      /\ ToSet(rt.queue) \subseteq ToSet(arrived)
  BY DEF QueueInv, Fits, ApartOK, KnownOK, Runtimes
<1>2. /\ AllSomewhere(rt, stash, settled, arrived, carries)
      /\ TurnKept(rt, stash, settled)
  BY DEF KeptInv
<1>3. /\ rt.turn \subseteq stamped /\ settled \subseteq stamped
      /\ stamped \subseteq ToSet(arrived) /\ IsInjective(arrived)
      /\ InOrder(stash \o rt.queue, stamped, arrived) /\ Served(stamped, arrived, carries)
  BY DEF LaneInv
<1>4. UNCHANGED <<lane, arrived, carries>>
  BY DEF Pull
<1>5. ASSUME NEW r \in Runtimes, IsInjective(r.queue), r.turn = {}, Scan(r),
             NEW st, st \subseteq stamped, AllSomewhere(r, <<>>, st, arrived, carries),
             ToSet(r.queue) \subseteq ToSet(arrived), InOrder(r.queue, stamped, arrived),
             settled' = st, stash' = <<>>
      PROVE  LaneInv'
  <2>1. /\ stamped \subseteq stamped' /\ stamped' \subseteq ToSet(arrived)
        /\ rt'.turn \subseteq stamped' /\ rt'.queue = r.queue
        /\ InOrder(r.queue, stamped', arrived) /\ Served(stamped', arrived, carries)
    <3>1. /\ stamped \subseteq stamped' /\ stamped' \subseteq ToSet(arrived)
          /\ rt'.turn \subseteq stamped' /\ rt'.queue = r.queue
          /\ InOrder(rt'.queue, stamped', arrived) /\ Served(stamped', arrived, carries)
      BY <1>1, <1>3, <1>5, ScanLanes
    <3> QED BY <3>1
  <2>2. stash' \o rt'.queue = r.queue
    <3>1. r.queue \in Seq(Atoms)
      BY DEF Runtimes
    <3> QED BY <1>5, <2>1, <3>1, EmptyConcat
  <2> QED BY <1>3, <1>4, <1>5, <2>1, <2>2, LaneParts
<1>6. CASE /\ rt.gen = "fresh" /\ Scan([rt EXCEPT !.queue = stash \o @])
           /\ stash' = <<>> /\ UNCHANGED settled
  <2> DEFINE q == stash \o rt.queue
             r == [rt EXCEPT !.queue = q]
  <2>1. /\ q \in Seq(Atoms) /\ ToSet(q) = ToSet(stash) \cup ToSet(rt.queue)
        /\ IsInjective(q)
    BY <1>1, ConcatFacts DEF Fits, ApartOK
  <2>2. InOrder(q, stamped, arrived)
    BY <1>3
  <2> HIDE DEF q
  <2>3. r \in Runtimes /\ r.queue = q /\ r.turn = rt.turn
    BY <1>1, <2>1 DEF Runtimes
  <2>4. Scan(r) /\ rt.turn = {}
    BY <1>1, <1>6 DEF q, Fits, PlacesOK
  <2> HIDE DEF r
  <2>5. AllSomewhere(r, <<>>, settled, arrived, carries)
    BY <1>2, <2>1, <2>3 DEF AllSomewhere
  <2> QED BY <1>1, <1>3, <1>5, <1>6, <2>1, <2>2, <2>3, <2>4, <2>5
<1>7. CASE /\ rt.gen = "ended"
           /\ LET kept == IF rt.interrupted THEN Retained(rt) ELSE Without(rt.queue, rt.turn)
              IN  /\ Scan([rt EXCEPT !.queue = kept, !.interrupted = FALSE,
                                     !.turn = {}, !.superseded = FALSE])
                  /\ settled' = settled \cup (rt.turn \ ToSet(kept))
           /\ UNCHANGED stash
  <2> DEFINE kept == IF rt.interrupted THEN Retained(rt) ELSE Without(rt.queue, rt.turn)
             r == [rt EXCEPT !.queue = kept, !.interrupted = FALSE,
                             !.turn = {}, !.superseded = FALSE]
  <2>1. stash = <<>>
    BY <1>1, <1>2, <1>7 DEF Fits, PlacesOK, TurnKept
  <2>2. /\ kept \in Seq(Atoms) /\ IsInjective(kept) /\ Thins(kept, rt.queue)
        /\ ToSet(rt.queue) \subseteq ToSet(kept) \cup rt.turn
        /\ ToSet(kept) \subseteq ToSet(rt.queue)
    <3>1. /\ Retained(rt) \in Seq(Atoms) /\ IsInjective(Retained(rt))
          /\ ToSet(Retained(rt)) = IF rt.superseded THEN ToSet(rt.queue) \ rt.turn
                                   ELSE ToSet(rt.queue)
          /\ Thins(Retained(rt), rt.queue)
      BY <1>1, RetainedFacts, CarriedThins
    <3>2. /\ Without(rt.queue, rt.turn) \in Seq(Atoms)
          /\ IsInjective(Without(rt.queue, rt.turn))
          /\ ToSet(Without(rt.queue, rt.turn)) = ToSet(rt.queue) \ rt.turn
          /\ Thins(Without(rt.queue, rt.turn), rt.queue)
      BY <1>1, WithoutFacts, WithinThins
    <3> QED BY <3>1, <3>2
  <2>3. Scan(r) /\ settled' = settled \cup (rt.turn \ ToSet(kept)) /\ stash' = <<>>
    BY <1>7, <2>1
  <2> HIDE DEF kept
  <2>4. r \in Runtimes /\ r.queue = kept /\ r.turn = {}
    BY <1>1, <2>2 DEF Runtimes
  <2> HIDE DEF r
  <2>5. AllSomewhere(r, <<>>, settled', arrived, carries)
    BY <1>2, <2>1, <2>2, <2>3, <2>4 DEF AllSomewhere
  <2>6. InOrder(kept, stamped, arrived)
    <3>1. InOrder(rt.queue, stamped, arrived)
      BY <1>1, <1>3, <2>1, EmptyConcat
    <3> QED BY <2>2, <3>1 DEF InOrder, Thins
  <2> QED BY <1>1, <1>3, <1>5, <2>2, <2>3, <2>4, <2>5, <2>6
<1> QED BY <1>6, <1>7 DEF Pull

\* Whatever happens, but what may lose a prompt or put it into the stash of a
\* start in progress.
LEMMA LaneStep ==
    ASSUME Turmoil \cap (Losing \cup {"join"}) = {}, QueueInv, KeptInv, LaneInv, [Next]_vars
    PROVE  LaneInv'
<1>1. /\ rt \in Runtimes /\ rt.queue \in Seq(Atoms) /\ stash \in Seq(Atoms)
      /\ IsInjective(rt.queue)
      /\ Fits(rt, stash, settled, arrived) /\ arrived \in Seq(Atoms)
      /\ carries \in [Atoms -> SUBSET Atoms]
  BY DEF QueueInv, OthersOK, Fits, ApartOK, Runtimes
<1>2. TurnKept(rt, stash, settled) /\ Carrying(carries)
  BY DEF KeptInv
<1>3. Turmoil \cap Losing = {} /\ "join" \notin Turmoil
  OBVIOUS
<1>4. ASSUME rt'.queue = rt.queue, UNCHANGED <<lane, stash, stamped, arrived, carries>>,
             rt'.turn \subseteq rt.turn, settled' \subseteq settled \cup rt.turn
      PROVE  LaneInv'
  <2>1. Thins(stash' \o rt'.queue, stash \o rt.queue)
    BY <1>4 DEF Thins
  <2>2. rt'.turn \subseteq stamped
    BY <1>4 DEF LaneInv
  <2> QED BY <1>4, <2>1, <2>2, CalmLanes
<1>5. CASE \E a \in Atoms : Prompt(a)
  BY <1>3, <1>5, PromptLanes
<1>6. CASE Launch \/ Built
  <2>1. rt'.queue = rt.queue /\ rt'.turn = rt.turn
    BY <1>1, <1>6 DEF Launch, Built, Runtimes
  <2> QED BY <1>4, <1>6, <2>1 DEF Launch, Built, history
<1>7. ~LaunchFails /\ ~SwitchModel /\ ~RetryCredential /\ ~Abort
  BY DEF LaunchFails, SwitchModel, RetryCredential, Abort, Losing
<1>8. CASE \/ /\ IdleGap /\ ~rt.active /\ rt.gen # "waiting" /\ Deliverable(rt) # <<>>
              /\ rt' \in {Gone, Asked(<<>>)} /\ stash' = Saved(rt)
           \/ RecoverFailed \/ LoopEnds
           \/ ToolEnds /\ rt' = Gone /\ stash' = Saved([rt EXCEPT !.tool = "none"])
              /\ UNCHANGED <<carries, settled, promised>>
  <2>1. /\ rt' \in {Gone, Asked(<<>>)} /\ stash' = Saved(rt)
        /\ rt.gen \in {"running", "ended", "broken"}
        /\ UNCHANGED <<settled, arrived, carries>>
    BY <1>3, <1>8, RuntimeEndsKept
  <2>2. UNCHANGED <<lane, stamped>>
    BY <1>8 DEF IdleGap, RecoverFailed, LoopEnds, ToolEnds, Replace
  <2>3. stash = <<>>
    BY <1>1, <1>2, <2>1 DEF TurnKept, Fits, PlacesOK
  <2>4. rt'.queue = <<>> /\ rt'.turn = {} /\ stash' = Carryable(rt)
    BY <2>1, <2>3, GoneFacts DEF Saved
  <2>5. Carryable(rt) \in Seq(Atoms) /\ Thins(Carryable(rt), rt.queue)
    BY <1>1, CarriedFacts, CarriedThins
  <2>6. stash' \o rt'.queue = Carryable(rt) /\ stash \o rt.queue = rt.queue
    BY <1>1, <2>3, <2>4, <2>5, EmptyConcat
  <2> QED BY <2>1, <2>2, <2>4, <2>5, <2>6, CalmLanes
<1>9. CASE IdleGap /\ rt' = [rt EXCEPT !.timer = FALSE] /\ UNCHANGED stash
  <2>1. rt'.queue = rt.queue /\ rt'.turn = rt.turn
    BY <1>1, <1>9 DEF Runtimes
  <2> QED BY <1>4, <1>9, <2>1 DEF IdleGap, history
<1>10. CASE TaskStarts \/ TaskEnds \/ UNCHANGED vars
  BY <1>4, <1>10 DEF TaskStarts, TaskEnds, vars, history
<1>11. CASE TaskReleased
  <2>1. UNCHANGED <<lane, stash, settled, arrived, carries>>
    BY <1>11 DEF TaskReleased, history
  <2>2. CASE rt.gen = "waiting" /\ Scan(rt)
    <3>1. stash = <<>> /\ rt.turn = {} /\ stash \o rt.queue = rt.queue
      BY <1>1, <1>2, <2>2, EmptyConcat DEF Fits, PlacesOK, TurnKept
    <3>2. /\ ToSet(rt.queue) \subseteq ToSet(arrived)
          /\ AllSomewhere(rt, <<>>, settled, arrived, carries)
      BY <1>1, <3>1 DEF Fits, KnownOK, KeptInv
    <3>3. /\ stamped \subseteq stamped' /\ stamped' \subseteq ToSet(arrived)
          /\ rt'.turn \subseteq stamped' /\ rt'.queue = rt.queue
          /\ InOrder(rt'.queue, stamped', arrived) /\ Served(stamped', arrived, carries)
      BY <1>1, <2>2, <3>1, <3>2, ScanLanes DEF LaneInv
    <3>4. stash' \o rt'.queue = rt'.queue
      BY <2>1, <3>1, <3>3
    <3> QED BY <2>1, <3>3, <3>4, LaneParts DEF LaneInv
  <2>3. CASE (\E late : rt' = [rt EXCEPT !.wake = @ \/ late]) /\ UNCHANGED stamped
    <3>1. rt'.queue = rt.queue /\ rt'.turn = rt.turn
      BY <1>1, <2>3 DEF Runtimes
    <3> QED BY <1>4, <2>1, <2>3, <3>1
  <2> QED BY <1>11, <2>2, <2>3 DEF TaskReleased
<1>12. CASE Pull
  BY <1>12, PullLanes
<1>13. CASE Prepared \/ PrepareFails
  <2>1. rt'.queue = rt.queue /\ rt'.turn \subseteq rt.turn
    BY <1>1, <1>13 DEF Prepared, PrepareFails, Runtimes
  <2>2. settled' \subseteq settled \cup rt.turn
    BY <1>13 DEF Prepared, PrepareFails
  <2> QED BY <1>4, <1>13, <2>1, <2>2 DEF Prepared, PrepareFails
<1>14. CASE \/ \E e \in {"tool", "output"} : Effect(e)
            \/ \E status \in {"complete", "interrupted", "failed"} : Terminal(status)
            \/ ToolAnswers \/ CompactBegins \/ CompactEnds
  <2>1. /\ UNCHANGED <<lane, stash, stamped, arrived, carries>>
        /\ settled' \subseteq settled \cup rt.turn
    BY <1>14 DEF Effect, Terminal, ToolAnswers, CompactBegins, CompactEnds, history
  <2>2. \E f, t, l, c : \/ rt' = [rt EXCEPT !.effects = f]
                        \/ rt' = [rt EXCEPT !.effects = f, !.tool = t]
                        \/ rt' = [rt EXCEPT !.tool = t]
                        \/ rt' = [rt EXCEPT !.latch = l]
                        \/ rt' = [rt EXCEPT !.compacting = c]
    BY <1>14, Zenon DEF Effect, Terminal, ToolAnswers, CompactBegins, CompactEnds
  <2>3. ASSUME NEW f, NEW t, NEW l, NEW c,
               \/ rt' = [rt EXCEPT !.effects = f]
               \/ rt' = [rt EXCEPT !.effects = f, !.tool = t]
               \/ rt' = [rt EXCEPT !.tool = t]
               \/ rt' = [rt EXCEPT !.latch = l]
               \/ rt' = [rt EXCEPT !.compacting = c]
        PROVE  rt'.queue = rt.queue /\ rt'.turn = rt.turn
    BY <1>1, <2>3 DEF Runtimes
  <2>4. rt'.queue = rt.queue /\ rt'.turn = rt.turn
    BY <2>2, <2>3
  <2> QED BY <1>4, <2>1, <2>4
<1>15. CASE ToolEnds /\ UNCHANGED stash
            /\ \/ Interrupt([rt EXCEPT !.tool = "none"])
               \/ /\ rt' = [rt EXCEPT !.tool = "none"]
                  /\ UNCHANGED <<carries, settled, promised>>
  <2> DEFINE r == [rt EXCEPT !.tool = "none"]
  <2>1. r \in Runtimes /\ r.queue = rt.queue /\ r.turn = rt.turn
    BY <1>1 DEF Runtimes, Tools
  <2>2. UNCHANGED <<lane, stamped, arrived>>
    BY <1>15 DEF ToolEnds
  <2>3. Interrupt(r) \/ (rt' = r /\ UNCHANGED <<carries, settled, promised>>)
    BY <1>15
  <2> HIDE DEF r
  <2>4. CASE Interrupt(r)
    <3>1. stash = <<>> /\ stash \o rt.queue = rt.queue
      BY <1>1, <1>2, <1>15, EmptyConcat DEF ToolEnds, InTurn, Fits, PlacesOK, TurnKept
    <3>2. InOrder(r.queue, stamped, arrived) /\ r.turn \subseteq stamped
      BY <2>1, <3>1 DEF LaneInv
    <3>3. /\ InOrder(rt'.queue, stamped, arrived) /\ Served(stamped, arrived, carries')
          /\ rt'.turn = rt.turn /\ settled' \subseteq settled \cup rt.turn
      BY <1>1, <1>2, <2>1, <2>4, <3>2, InterruptLanes DEF LaneInv
    <3>4. stash' \o rt'.queue = rt'.queue
      <4>1. rt'.queue \in Seq(Atoms)
        BY ToolFits, <1>15 DEF QueueInv, Fits, Runtimes
      <4> QED BY <1>15, <3>1, <4>1, EmptyConcat
    <3> QED BY <1>15, <2>2, <3>3, <3>4, LaneParts DEF LaneInv
  <2>5. CASE rt' = r /\ UNCHANGED <<carries, settled, promised>>
    BY <1>4, <1>15, <2>1, <2>2, <2>5
  <2> QED BY <2>3, <2>4, <2>5
<1>16. CASE CloseComplete \/ CloseFailed \/ Reported
  <2>1. rt'.queue = rt.queue /\ rt'.turn = rt.turn
    <3>1. CASE CloseComplete \/ CloseFailed
      <4>1. /\ Quiet(rt) \in Runtimes /\ Quiet(rt).turn = rt.turn /\ Quiet(rt).queue = rt.queue
        BY <1>1 DEF Quiet, Runtimes, Tools
      <4>2. rt' = [Quiet(rt) EXCEPT !.gen = "ended", !.pendingAbort = FALSE]
            \/ rt' = [Quiet(rt) EXCEPT !.pendingAbort = FALSE]
        BY <3>1 DEF CloseComplete, CloseFailed
      <4> QED BY <4>1, <4>2 DEF Runtimes
    <3>2. CASE Reported
      BY <1>1, <3>2 DEF Reported, Runtimes
    <3> QED BY <1>16, <3>1, <3>2
  <2> QED BY <1>4, <1>16, <2>1 DEF CloseComplete, CloseFailed, Reported, history
<1>17. CASE CloseInterrupted
  <2>1. rt.gen = "running" /\ UNCHANGED <<lane, stash, stamped, settled, arrived, carries>>
    BY <1>17 DEF CloseInterrupted, Closing, history
  <2>2. stash = <<>>
    BY <1>1, <1>2, <2>1 DEF Fits, PlacesOK, TurnKept
  <2>3. Carryable(rt) \in Seq(Atoms) /\ Thins(Carryable(rt), rt.queue)
    BY <1>1, CarriedFacts, CarriedThins
  <2>4. rt'.queue \in {Carryable(rt), rt.queue} /\ rt'.turn = rt.turn
    <3> DEFINE afterTools == /\ ~rt.superseded /\ ~rt.pendingAbort /\ "tool" \in rt.effects
                             /\ "output" \in rt.effects \/ rt.tool = "none"
               q == IF afterTools \/ ~Replayable(rt) THEN Carryable(rt) ELSE rt.queue
    <3>1. rt' = [Quiet(rt) EXCEPT !.gen = "ended", !.interrupted = ~afterTools, !.queue = q]
      BY <1>1, <1>17 DEF CloseInterrupted, Quiet, Runtimes
    <3>2. q \in {Carryable(rt), rt.queue} /\ q \in Seq(Atoms) /\ (~afterTools) \in BOOLEAN
      BY <1>1, <2>3
    <3> HIDE DEF afterTools, q
    <3> QED BY <1>1, <3>1, <3>2 DEF Quiet, Runtimes
  <2>5. Thins(rt'.queue, rt.queue) /\ stash' \o rt'.queue = rt'.queue
        /\ stash \o rt.queue = rt.queue
    BY <1>1, <2>1, <2>2, <2>3, <2>4, EmptyConcat DEF Thins
  <2> QED BY <2>1, <2>4, <2>5, CalmLanes DEF LaneInv
<1>18. IdleGap => \/ /\ ~rt.active /\ rt.gen # "waiting" /\ Deliverable(rt) # <<>>
                     /\ rt' \in {Gone, Asked(<<>>)} /\ stash' = Saved(rt)
                  \/ rt' = [rt EXCEPT !.timer = FALSE] /\ UNCHANGED stash
  BY DEF IdleGap
<1>19. ToolEnds => \/ /\ rt' = Gone /\ stash' = Saved([rt EXCEPT !.tool = "none"])
                      /\ UNCHANGED <<carries, settled, promised>>
                   \/ /\ UNCHANGED stash
                      /\ \/ Interrupt([rt EXCEPT !.tool = "none"])
                         \/ /\ rt' = [rt EXCEPT !.tool = "none"]
                            /\ UNCHANGED <<carries, settled, promised>>
  BY DEF ToolEnds
<1> QED BY <1>5, <1>6, <1>7, <1>8, <1>9, <1>10, <1>11, <1>12, <1>13, <1>14,
           <1>15, <1>16, <1>17, <1>18, <1>19 DEF Next, HostStep, ProviderStep

\* No prompt is put into a turn before an earlier one of its lane, and those
\* that wait stand in the order of their arrival, through interruptions,
\* failures, recoveries and replaced runtimes.  What may put them out of order
\* is what may lose a prompt, and a prompt that joins a start in progress.
THEOREM LanesStayInOrder ==
    ASSUME Turmoil \cap (Losing \cup {"join"}) = {}
    PROVE  Spec => []LanesInOrder
<1>0. Turmoil \cap Losing = {}
  OBVIOUS
<1>1. Init => KeptInv /\ LaneInv
  <2> SUFFICES ASSUME Init PROVE KeptInv /\ LaneInv
    OBVIOUS
  <2>1. KeptInv
    BY KeptInitial
  <2>2. rt.turn = {} /\ settled = {} /\ stamped = {} /\ arrived = <<>>
    BY GoneFacts DEF Init
  <2>3. \A a, b : ~Ahead(arrived, a, b)
    BY <2>2 DEF Ahead
  <2> QED BY <2>1, <2>2, <2>3, SingleFacts DEF LaneInv, InOrder, Served
<1>2. QueueInv /\ KeptInv /\ LaneInv /\ [Next]_vars => KeptInv' /\ LaneInv'
  BY <1>0, KeptStep, LaneStep
<1>3. QueueInv /\ LaneInv => LanesInOrder
  <2> SUFFICES ASSUME QueueInv, LaneInv, NEW a \in Atoms, NEW b \in Atoms,
                      lane[a] = lane[b], Earlier(a, b)
               PROVE  /\ b \in stamped => a \in stamped \cup told \/ Folded(a)
                      /\ rt.life = "up" /\ {a, b} \cap stamped = {} =>
                           \A i, j \in 1..Len(stash \o rt.queue) :
                              (stash \o rt.queue)[i] = a /\ (stash \o rt.queue)[j] = b => i < j
    BY DEF LanesInOrder
  <2> DEFINE line == stash \o rt.queue
  <2>1. Ahead(arrived, a, b)
    BY DEF Earlier, Ahead
  <2>2. b \in stamped => a \in stamped \/ Folded(a)
    BY <2>1 DEF LaneInv, Served, Folded, FoldedIn
  <2>3. a # b
    BY <2>1, AheadFacts DEF QueueInv, Fits, LaneInv
  <2>4. line \in Seq(Atoms) /\ Len(line) \in Nat
    BY ConcatFacts DEF QueueInv, Fits, Runtimes
  <2> HIDE DEF line
  <2>5. ASSUME a \notin stamped, b \notin stamped,
               NEW i \in 1..Len(line), NEW j \in 1..Len(line), line[i] = a, line[j] = b
        PROVE  i < j
    <3>1. ~Ahead(line, b, a)
      BY <2>1, <2>5 DEF LaneInv, InOrder, line
    <3>2. ~(j < i) /\ i # j
      BY <2>3, <2>5, <3>1 DEF Ahead
    <3> QED BY <2>4, <3>2
  <2> QED BY <2>2, <2>5 DEF line
<1> QED BY <1>1, <1>2, <1>3, QueueInvHolds, PTL DEF Spec

=============================================================================
