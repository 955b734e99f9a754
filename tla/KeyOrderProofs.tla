--------------------------- MODULE KeyOrderProofs ---------------------------
(***************************************************************************)
(* What the operations on an order keep: it stays total, and its members   *)
(* are the ones the LruList's own map of nodes would hold.                 *)
(***************************************************************************)
EXTENDS KeyOrder, FiniteSetTheorems, TLAPS

\* Every member is at or before itself (LruList lists each key once).
LEMMA OrderReflexive ==
    ASSUME NEW order, IsTotalOrder(order), NEW k \in Members(order)
    PROVE  <<k, k>> \in order
BY DEF IsTotalOrder

\* Both ends of a pair are members.
LEMMA OrderPairs ==
    ASSUME NEW order, IsTotalOrder(order), NEW p \in order
    PROVE  p = <<p[1], p[2]>> /\ p[1] \in Members(order) /\ p[2] \in Members(order)
BY DEF IsTotalOrder, Members

\* LruList.remove takes exactly the removed keys out.
LEMMA UnlinkMembers ==
    ASSUME NEW order, IsTotalOrder(order), NEW S
    PROVE  Members(Unlink(order, S)) = Members(order) \ S
<1>1. ASSUME NEW k \in Members(order) \ S
      PROVE  k \in Members(Unlink(order, S))
    <2>1. <<k, k>> \in order
        BY OrderReflexive
    <2>2. <<k, k>>[1] = k /\ <<k, k>>[2] = k
        OBVIOUS
    <2>3. <<k, k>> \in Unlink(order, S)
        BY <2>1, <2>2 DEF Unlink
    <2>. QED
        BY <2>2, <2>3 DEF Members
<1>2. Members(Unlink(order, S)) \subseteq Members(order) \ S
    BY DEF Members, Unlink
<1>. QED
    BY <1>1, <1>2

\* LruList.remove leaves the order of the others as it was.
LEMMA UnlinkPairs ==
    ASSUME NEW order, NEW S, NEW j, NEW k
    PROVE  <<j, k>> \in Unlink(order, S) <=> <<j, k>> \in order /\ j \notin S /\ k \notin S
BY DEF Unlink

\* LruList.remove keeps the list a total order.
LEMMA UnlinkOrder ==
    ASSUME NEW order, IsTotalOrder(order), NEW S
    PROVE  IsTotalOrder(Unlink(order, S))
<1>1. Members(Unlink(order, S)) = Members(order) \ S
    BY UnlinkMembers
<1>2. ASSUME NEW p \in Unlink(order, S)
      PROVE  p = <<p[1], p[2]>> /\ p[2] \in Members(Unlink(order, S))
    BY <1>1, OrderPairs DEF Unlink
<1>. QED
    BY <1>1, <1>2, UnlinkPairs DEF IsTotalOrder

\* LruList.add puts the key at the head and leaves the order of the others as it was.
LEMMA AddLastPairs ==
    ASSUME NEW order, NEW a, NEW j, NEW k
    PROVE  <<j, k>> \in AddLast(order, a) <=>
               \/ <<j, k>> \in order /\ j # a /\ k # a
               \/ k = a /\ j \in Members(order) \cup {a}
BY UnlinkPairs DEF AddLast

LEMMA AddLastMembers ==
    ASSUME NEW order, IsTotalOrder(order), NEW a
    PROVE  Members(AddLast(order, a)) = Members(order) \cup {a}
<1>1. ASSUME NEW k \in Members(order) \cup {a}
      PROVE  k \in Members(AddLast(order, a))
    <2>1. <<k, a>> \in AddLast(order, a)
        BY AddLastPairs
    <2>2. <<k, a>>[1] = k
        OBVIOUS
    <2>. QED
        BY <2>1, <2>2 DEF Members
<1>2. ASSUME NEW k \in Members(AddLast(order, a))
      PROVE  k \in Members(order) \cup {a}
    <2>1. PICK p \in AddLast(order, a) : k = p[1]
        BY DEF Members
    <2>2. CASE p \in Unlink(order, {a})
        BY <2>1, <2>2 DEF Unlink, Members
    <2>3. CASE p \in {<<j, a>> : j \in Members(order) \cup {a}}
        BY <2>1, <2>3
    <2>. QED
        BY <2>2, <2>3 DEF AddLast
<1>. QED
    BY <1>1, <1>2

\* LruList.add keeps the list a total order, whether the key is new or listed.
LEMMA AddLastOrder ==
    ASSUME NEW order, IsTotalOrder(order), NEW a
    PROVE  IsTotalOrder(AddLast(order, a))
<1> DEFINE new == AddLast(order, a)
<1>1. Members(new) = Members(order) \cup {a}
    BY AddLastMembers
<1>2. ASSUME NEW p \in new
      PROVE  p = <<p[1], p[2]>> /\ p[2] \in Members(new)
    <2>1. CASE p \in Unlink(order, {a})
        BY <1>1, <2>1, OrderPairs DEF Unlink
    <2>2. CASE p \in {<<j, a>> : j \in Members(order) \cup {a}}
        BY <1>1, <2>2
    <2>. QED
        BY <2>1, <2>2 DEF AddLast
<1>3. \A j, k : <<j, k>> \in new <=> \/ <<j, k>> \in order /\ j # a /\ k # a
                                     \/ k = a /\ j \in Members(order) \cup {a}
    BY AddLastPairs
<1>. HIDE DEF new
<1>4. \A j, k \in Members(new) : <<j, k>> \in new \/ <<k, j>> \in new
    BY <1>1, <1>3 DEF IsTotalOrder
<1>5. \A j, k \in Members(new) : <<j, k>> \in new /\ <<k, j>> \in new => j = k
    BY <1>1, <1>3 DEF IsTotalOrder
<1>6. \A i, j, k \in Members(new) :
          <<i, j>> \in new /\ <<j, k>> \in new => <<i, k>> \in new
    BY <1>1, <1>3 DEF IsTotalOrder
<1>7. IsTotalOrder(new)
    BY <1>2, <1>4, <1>5, <1>6 DEF IsTotalOrder
<1>. QED
    BY <1>7 DEF new

\* LruList.touch changes neither the members nor the totality of the order.
LEMMA TouchOrder ==
    ASSUME NEW order, IsTotalOrder(order), NEW k
    PROVE  IsTotalOrder(Touch(order, k)) /\ Members(Touch(order, k)) = Members(order)
<1>1. CASE k \in Members(order)
    BY <1>1, AddLastOrder, AddLastMembers DEF Touch
<1>2. CASE k \notin Members(order)
    BY <1>2 DEF Touch
<1>. QED
    BY <1>1, <1>2

\* A touched key is the last one: no other member is after it.
LEMMA TouchedIsLast ==
    ASSUME NEW order, IsTotalOrder(order), NEW k \in Members(order), NEW j,
           <<k, j>> \in Touch(order, k)
    PROVE  j = k
BY AddLastPairs DEF Touch

\* The orders stay within any set that holds their keys.
LEMMA OrderWithin ==
    ASSUME NEW order, NEW S, order \subseteq S \X S, NEW K, NEW k \in S
    PROVE  /\ Members(order) \subseteq S
           /\ Unlink(order, K) \subseteq S \X S
           /\ AddLast(order, k) \subseteq S \X S
           /\ Touch(order, k) \subseteq S \X S
<1>1. Members(order) \subseteq S
    BY DEF Members
<1>2. Unlink(order, K) \subseteq S \X S
    BY DEF Unlink
<1>3. AddLast(order, k) \subseteq S \X S
    BY <1>1 DEF AddLast, Unlink
<1>. QED
    BY <1>1, <1>2, <1>3 DEF Touch

\* A strict total order numbers the elements of a finite set from 0, each by how many are before
\* it, and leaves no number out.
LEMMA RankFacts ==
    ASSUME NEW S, IsFiniteSet(S), NEW R,
           \A a \in S : <<a, a>> \notin R,
           \A a, b \in S : a # b => <<a, b>> \in R \/ <<b, a>> \in R,
           \A a, b, c \in S : <<a, b>> \in R /\ <<b, c>> \in R => <<a, c>> \in R,
           NEW rank, rank = [a \in S |-> Cardinality({b \in S : <<b, a>> \in R})]
    PROVE  /\ Cardinality(S) \in Nat
           /\ rank \in Bijection(S, 0..(Cardinality(S) - 1))
           /\ \A a, b \in S : <<a, b>> \in R <=> rank[a] < rank[b]
           /\ \A i \in 0..(Cardinality(S) - 1) : \E a \in S : rank[a] = i
<1>. DEFINE n == Cardinality(S)
            before(a) == {b \in S : <<b, a>> \in R}
<1>1. n \in Nat
    BY FS_CardinalityType
<1>2. \A a \in S : IsFiniteSet(before(a)) /\ Cardinality(before(a)) \in Nat
    BY FS_Subset, FS_CardinalityType
<1>3. \A a \in S : rank[a] = Cardinality(before(a))
    OBVIOUS
<1>4. ASSUME NEW a \in S, NEW T, T \subseteq S, before(a) \subseteq T, a \in T
      PROVE  rank[a] + 1 <= Cardinality(T) /\ Cardinality(T) <= n
    <2>1. a \notin before(a)
        OBVIOUS
    <2>2. Cardinality(before(a) \cup {a}) = Cardinality(before(a)) + 1
        BY <1>2, <2>1, FS_AddElement
    <2>3. IsFiniteSet(T) /\ Cardinality(T) <= n
        BY <1>4, FS_Subset
    <2>4. before(a) \cup {a} \subseteq T
        BY <1>4
    <2>5. Cardinality(before(a) \cup {a}) <= Cardinality(T)
        BY <2>3, <2>4, FS_Subset
    <2>. QED
        BY <1>3, <2>2, <2>3, <2>5
<1>5. \A a \in S : rank[a] \in 0..(n - 1)
    <2>. SUFFICES ASSUME NEW a \in S PROVE rank[a] \in 0..(n - 1)
        OBVIOUS
    <2>1. rank[a] + 1 <= n /\ rank[a] \in Nat
        BY <1>2, <1>3, <1>4
    <2>. QED
        BY <1>1, <2>1
<1>6. ASSUME NEW a \in S, NEW b \in S, <<a, b>> \in R
      PROVE  rank[a] < rank[b]
    <2>1. before(a) \subseteq before(b) /\ a \in before(b) /\ before(b) \subseteq S
        BY <1>6
    <2>. HIDE DEF before
    <2>2. rank[a] + 1 <= Cardinality(before(b))
        BY <1>4, <2>1
    <2>. QED
        BY <1>2, <1>3, <2>2
<1>7. \A a, b \in S : <<a, b>> \in R <=> rank[a] < rank[b]
    <2>. SUFFICES ASSUME NEW a \in S, NEW b \in S, rank[a] < rank[b]
                  PROVE  <<a, b>> \in R
        BY <1>6
    <2>0. rank[a] \in Nat /\ rank[b] \in Nat
        BY <1>2, <1>3
    <2>. HIDE DEF before
    <2>1. a # b /\ ~(rank[b] < rank[a])
        BY <2>0
    <2>. QED
        BY <1>6, <2>1
<1>8. rank \in Injection(S, 0..(n - 1))
    <2>1. \A a, b \in S : rank[a] = rank[b] => a = b
        <3>. SUFFICES ASSUME NEW a \in S, NEW b \in S, rank[a] = rank[b], a # b
                      PROVE  FALSE
            OBVIOUS
        <3>1. rank[a] < rank[b] \/ rank[b] < rank[a]
            BY <1>6
        <3>. QED
            BY <1>1, <1>5, <3>1
    <2>2. rank \in [S -> 0..(n - 1)]
        BY <1>5
    <2>. HIDE DEF n
    <2>. QED
        BY <2>1, <2>2 DEF Injection, IsInjective
<1>9. rank \in Surjection(S, 0..(n - 1))
    <2>1. IsFiniteSet(0..(n - 1)) /\ Cardinality(0..(n - 1)) = n
        BY <1>1, FS_Interval
    <2>. QED
        BY <1>8, <2>1, FS_Injection
<1>. QED
    BY <1>1, <1>7, <1>8, <1>9 DEF Surjection, Bijection

\* A finite set of numbers has a greatest one.
LEMMA GreatestFacts ==
    ASSUME NEW S, IsFiniteSet(S), S \subseteq Nat, S # {}
    PROVE  \E g \in S : \A x \in S : x <= g
<1>. DEFINE R == {p \in S \X S : p[1] < p[2]}
            rank == [a \in S |-> Cardinality({b \in S : <<b, a>> \in R})]
<1>0. \A a, b \in S : <<a, b>> \in R <=> a < b
    OBVIOUS
<1>. HIDE DEF R
<1>1. /\ \A a \in S : <<a, a>> \notin R
      /\ \A a, b \in S : a # b => <<a, b>> \in R \/ <<b, a>> \in R
      /\ \A a, b, c \in S : <<a, b>> \in R /\ <<b, c>> \in R => <<a, c>> \in R
    BY <1>0
<1>2. /\ Cardinality(S) \in Nat
      /\ rank \in Bijection(S, 0..(Cardinality(S) - 1))
      /\ \A a, b \in S : <<a, b>> \in R <=> rank[a] < rank[b]
      /\ \A i \in 0..(Cardinality(S) - 1) : \E a \in S : rank[a] = i
    BY <1>1, RankFacts
<1>. HIDE DEF rank
<1>3. rank \in [S -> 0..(Cardinality(S) - 1)]
    BY <1>2 DEF Bijection, Injection
<1>4. Cardinality(S) # 0
    BY FS_EmptySet
<1>5. Cardinality(S) - 1 \in 0..(Cardinality(S) - 1)
    BY <1>2, <1>4
<1>6. PICK g \in S : rank[g] = Cardinality(S) - 1
    BY <1>2, <1>5
<1>7. ASSUME NEW x \in S PROVE x <= g
    <2>1. ~(rank[g] < rank[x])
        BY <1>2, <1>3, <1>6
    <2>2. ~(g < x)
        BY <1>0, <1>2, <2>1
    <2>. QED
        BY <2>2
<1>. QED
    BY <1>7

\* Of some of the keys of an order, one comes last (the key #evictOne takes last).
LEMMA LastOfSome ==
    ASSUME NEW order, IsTotalOrder(order), NEW S, IsFiniteSet(S), S \subseteq Members(order), S # {}
    PROVE  \E g \in S : \A x \in S : <<x, g>> \in order
<1>. DEFINE R == {p \in S \X S : p[1] # p[2] /\ <<p[1], p[2]>> \in order}
            rank == [a \in S |-> Cardinality({b \in S : <<b, a>> \in R})]
<1>0. \A a, b \in S : <<a, b>> \in R <=> a # b /\ <<a, b>> \in order
    OBVIOUS
<1>. HIDE DEF R
<1>1. /\ \A a \in S : <<a, a>> \notin R
      /\ \A a, b \in S : a # b => <<a, b>> \in R \/ <<b, a>> \in R
      /\ \A a, b, c \in S : <<a, b>> \in R /\ <<b, c>> \in R => <<a, c>> \in R
    <2>1. \A a, b \in S : a # b => <<a, b>> \in order \/ <<b, a>> \in order
        BY DEF IsTotalOrder
    <2>2. \A a, b \in S : <<a, b>> \in order /\ <<b, a>> \in order => a = b
        BY DEF IsTotalOrder
    <2>3. \A a, b, c \in S : <<a, b>> \in order /\ <<b, c>> \in order => <<a, c>> \in order
        BY DEF IsTotalOrder
    <2>. QED
        BY <1>0, <2>1, <2>2, <2>3
<1>2. /\ Cardinality(S) \in Nat
      /\ rank \in Bijection(S, 0..(Cardinality(S) - 1))
      /\ \A a, b \in S : <<a, b>> \in R <=> rank[a] < rank[b]
      /\ \A i \in 0..(Cardinality(S) - 1) : \E a \in S : rank[a] = i
    BY <1>1, RankFacts
<1>. HIDE DEF rank
<1>3. rank \in [S -> 0..(Cardinality(S) - 1)]
    BY <1>2 DEF Bijection, Injection
<1>4. Cardinality(S) # 0
    BY FS_EmptySet
<1>5. Cardinality(S) - 1 \in 0..(Cardinality(S) - 1)
    BY <1>2, <1>4
<1>6. PICK g \in S : rank[g] = Cardinality(S) - 1
    BY <1>2, <1>5
<1>7. ASSUME NEW x \in S PROVE <<x, g>> \in order
    <2>1. ~(rank[g] < rank[x])
        BY <1>2, <1>3, <1>6
    <2>2. <<g, x>> \notin R
        BY <1>2, <2>1
    <2>3. CASE x = g
        BY <2>3, OrderReflexive
    <2>4. CASE x # g
        <3>1. <<x, g>> \in R
            BY <1>1, <2>2, <2>4
        <3>. QED
            BY <1>0, <3>1
    <2>. QED
        BY <2>3, <2>4
<1>. QED
    BY <1>7

\* Orders with the same pairs are the same order.
LEMMA SamePairs ==
    ASSUME NEW a, NEW b, IsTotalOrder(a), IsTotalOrder(b),
           \A i, j : <<i, j>> \in a <=> <<i, j>> \in b
    PROVE  a = b
<1>1. \A p \in a : p = <<p[1], p[2]>>
    BY OrderPairs
<1>2. \A p \in b : p = <<p[1], p[2]>>
    BY OrderPairs
<1>3. a \subseteq b
    BY <1>1
<1>4. b \subseteq a
    BY <1>2
<1>. QED
    BY <1>3, <1>4

\* Removing keys in two goes is removing them in one.
LEMMA UnlinkTwice ==
    ASSUME NEW order, NEW A, NEW B
    PROVE  Unlink(Unlink(order, A), B) = Unlink(order, A \cup B)
BY DEF Unlink

\* Only the keys that are listed matter to a removal.
LEMMA UnlinkListed ==
    ASSUME NEW order, IsTotalOrder(order), NEW A, NEW B,
           A \cap Members(order) = B \cap Members(order)
    PROVE  Unlink(order, A) = Unlink(order, B)
BY OrderPairs DEF Unlink

\* A key goes to the head whether others leave before or after.
LEMMA UnlinkAddLast ==
    ASSUME NEW order, IsTotalOrder(order), NEW S, NEW k, k \notin S
    PROVE  Unlink(AddLast(order, k), S) = AddLast(Unlink(order, S), k)
<1>. DEFINE a == Unlink(AddLast(order, k), S)
            b == AddLast(Unlink(order, S), k)
<1>1. Members(Unlink(order, S)) = Members(order) \ S
    BY UnlinkMembers
<1>2. IsTotalOrder(a) /\ IsTotalOrder(b)
    BY UnlinkOrder, AddLastOrder
<1>3. ASSUME NEW i, NEW j
      PROVE  <<i, j>> \in a <=> <<i, j>> \in b
    <2>1. <<i, j>> \in a <=>
              /\ i \notin S /\ j \notin S
              /\ \/ <<i, j>> \in order /\ i # k /\ j # k
                 \/ j = k /\ i \in Members(order) \cup {k}
        BY UnlinkPairs, AddLastPairs
    <2>2. <<i, j>> \in b <=>
              \/ <<i, j>> \in order /\ i \notin S /\ j \notin S /\ i # k /\ j # k
              \/ j = k /\ i \in (Members(order) \ S) \cup {k}
        BY <1>1, UnlinkPairs, AddLastPairs
    <2>. QED
        BY <2>1, <2>2
<1>. HIDE DEF a, b
<1>4. a = b
    BY <1>2, <1>3, SamePairs
<1>. QED
    BY <1>4 DEF a, b

LEMMA UnlinkTouch ==
    ASSUME NEW order, IsTotalOrder(order), NEW S, NEW k, k \notin S
    PROVE  Unlink(Touch(order, k), S) = Touch(Unlink(order, S), k)
<1>1. Members(Unlink(order, S)) = Members(order) \ S
    BY UnlinkMembers
<1>. QED
    BY <1>1, UnlinkAddLast DEF Touch

\* Where a key was before it goes to the head does not matter.
LEMMA AddLastSame ==
    ASSUME NEW a, NEW b, IsTotalOrder(a), IsTotalOrder(b), NEW k,
           \A i, j : i # k /\ j # k => (<<i, j>> \in a <=> <<i, j>> \in b)
    PROVE  AddLast(a, k) = AddLast(b, k)
<1>1. \A i : i # k => (i \in Members(a) <=> i \in Members(b))
    <2>1. \A i : i \in Members(a) <=> <<i, i>> \in a
        BY OrderReflexive, OrderPairs
    <2>2. \A i : i \in Members(b) <=> <<i, i>> \in b
        BY OrderReflexive, OrderPairs
    <2>. QED
        BY <2>1, <2>2
<1>2. IsTotalOrder(AddLast(a, k)) /\ IsTotalOrder(AddLast(b, k))
    BY AddLastOrder
<1>3. ASSUME NEW i, NEW j
      PROVE  <<i, j>> \in AddLast(a, k) <=> <<i, j>> \in AddLast(b, k)
    <2>1. <<i, j>> \in AddLast(a, k) <=> \/ <<i, j>> \in a /\ i # k /\ j # k
                                         \/ j = k /\ i \in Members(a) \cup {k}
        BY AddLastPairs
    <2>2. <<i, j>> \in AddLast(b, k) <=> \/ <<i, j>> \in b /\ i # k /\ j # k
                                         \/ j = k /\ i \in Members(b) \cup {k}
        BY AddLastPairs
    <2>. QED
        BY <1>1, <2>1, <2>2
<1>. QED
    BY <1>2, <1>3, SamePairs
=============================================================================
