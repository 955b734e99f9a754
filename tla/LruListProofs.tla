--------------------------- MODULE LruListProofs ---------------------------
(***************************************************************************)
(* The linked list is the order that CacheStore has in its place, for any  *)
(* set of keys.                                                            *)
(***************************************************************************)
EXTENDS LruList, KeyOrderProofs

-----------------------------------------------------------------------------
(* Neighbours in an order                                                  *)

\* A key has one neighbour on each side at most, and both are members.
LEMMA OneNeighbour ==
    ASSUME NEW o, IsTotalOrder(o), NEW i, NEW j, NEW k
    PROVE  /\ RightBefore(i, k, o) /\ RightBefore(j, k, o) => i = j
           /\ RightBefore(k, i, o) /\ RightBefore(k, j, o) => i = j
           /\ RightBefore(j, k, o) => j \in Members(o) /\ k \in Members(o) /\ j # k
<1>1. RightBefore(j, k, o) => j \in Members(o) /\ k \in Members(o) /\ j # k
    BY OrderPairs DEF RightBefore
<1>2. RightBefore(i, k, o) => i \in Members(o) /\ k \in Members(o) /\ i # k
    BY OrderPairs DEF RightBefore
<1>3. RightBefore(k, i, o) => i \in Members(o) /\ k \in Members(o) /\ i # k
    BY OrderPairs DEF RightBefore
<1>4. RightBefore(k, j, o) => j \in Members(o) /\ k \in Members(o) /\ j # k
    BY OrderPairs DEF RightBefore
<1>. QED
    BY <1>1, <1>2, <1>3, <1>4 DEF RightBefore, IsTotalOrder

\* There is one first and one last key at most, and neither has a neighbour beyond it.
LEMMA Ends ==
    ASSUME NEW o, IsTotalOrder(o), NEW j, NEW k
    PROVE  /\ IsFirst(j, o) /\ IsFirst(k, o) => j = k
           /\ IsLast(j, o) /\ IsLast(k, o) => j = k
           /\ IsFirst(k, o) => ~RightBefore(j, k, o)
           /\ IsLast(k, o) => ~RightBefore(k, j, o)
BY OneNeighbour DEF IsFirst, IsLast, RightBefore, IsTotalOrder

\* What unlinking k does to neighbours and ends.
LEMMA UnlinkNeighbours ==
    ASSUME NEW o, IsTotalOrder(o), NEW k \in Members(o),
           NEW i \in Members(o) \ {k}, NEW j \in Members(o) \ {k}
    PROVE  LET u == Unlink(o, {k})
           IN  /\ RightBefore(j, i, u) <=>
                    RightBefore(j, i, o) \/ (RightBefore(j, k, o) /\ RightBefore(k, i, o))
               /\ IsFirst(j, u) <=> IsFirst(j, o) \/ (IsFirst(k, o) /\ RightBefore(k, j, o))
               /\ IsLast(j, u) <=> IsLast(j, o) \/ (IsLast(k, o) /\ RightBefore(j, k, o))
<1>. DEFINE u == Unlink(o, {k})
<1>1. Members(u) = Members(o) \ {k}
    BY UnlinkMembers
<1>2. \A a, b : <<a, b>> \in u <=> <<a, b>> \in o /\ a # k /\ b # k
    BY UnlinkPairs
<1>. HIDE DEF u
<1>3. RightBefore(j, i, u) <=>
        RightBefore(j, i, o) \/ (RightBefore(j, k, o) /\ RightBefore(k, i, o))
    BY <1>1, <1>2 DEF RightBefore, IsTotalOrder
<1>4. IsFirst(j, u) <=> IsFirst(j, o) \/ (IsFirst(k, o) /\ RightBefore(k, j, o))
    BY <1>1, <1>2 DEF IsFirst, RightBefore, IsTotalOrder
<1>5. IsLast(j, u) <=> IsLast(j, o) \/ (IsLast(k, o) /\ RightBefore(j, k, o))
    BY <1>1, <1>2 DEF IsLast, RightBefore, IsTotalOrder
<1>. QED
    BY <1>3, <1>4, <1>5 DEF u

\* What adding a new key k at the end does to neighbours and ends.
LEMMA AddNeighbours ==
    ASSUME NEW o, IsTotalOrder(o), NEW k, k \notin Members(o),
           NEW i \in Members(o) \cup {k}, NEW j \in Members(o) \cup {k}
    PROVE  LET a == AddLast(o, k)
           IN  /\ RightBefore(j, i, a) <=> RightBefore(j, i, o) \/ (i = k /\ IsLast(j, o))
               /\ IsFirst(j, a) <=> IsFirst(j, o) \/ (j = k /\ Members(o) = {})
               /\ IsLast(j, a) <=> j = k
<1>. DEFINE a == AddLast(o, k)
<1>1. Members(a) = Members(o) \cup {k}
    BY AddLastMembers
<1>2. \A b, c : <<b, c>> \in a <=>
        (<<b, c>> \in o /\ b # k /\ c # k) \/ (c = k /\ b \in Members(o) \cup {k})
    BY AddLastPairs
<1>3. \A b, c : <<b, c>> \in o => b \in Members(o) /\ c \in Members(o)
    BY OrderPairs
<1>. HIDE DEF a
<1>4. RightBefore(j, i, a) <=> RightBefore(j, i, o) \/ (i = k /\ IsLast(j, o))
    BY <1>1, <1>2, <1>3 DEF RightBefore, IsLast, IsTotalOrder
<1>5. IsFirst(j, a) <=> IsFirst(j, o) \/ (j = k /\ Members(o) = {})
    BY <1>1, <1>2, <1>3 DEF IsFirst, IsTotalOrder
<1>6. IsLast(j, a) <=> j = k
    BY <1>1, <1>2, <1>3 DEF IsLast, IsTotalOrder
<1>. QED
    BY <1>4, <1>5, <1>6 DEF a

-----------------------------------------------------------------------------
(* The operations, field by field                                          *)

ListType(l) ==
    /\ DOMAIN l = {"nodes", "head", "tail"}
    /\ DOMAIN l.nodes \subseteq Keys
    /\ l.nodes \in [DOMAIN l.nodes -> Node]
    /\ l.head \in Links /\ l.tail \in Links

\* s is l with x after p: one pointer differs, of a node or the head.
HasNext(s, l, p, x) ==
    /\ ListType(s) /\ DOMAIN s.nodes = DOMAIN l.nodes
    /\ s.head = (IF p = Null THEN x ELSE l.head) /\ s.tail = l.tail
    /\ \A j \in DOMAIN l.nodes : /\ s.nodes[j].prev = l.nodes[j].prev
                                 /\ s.nodes[j].next = IF j = p THEN x ELSE l.nodes[j].next

\* s is l with x before n: one pointer differs, of a node or the tail.
HasPrev(s, l, n, x) ==
    /\ ListType(s) /\ DOMAIN s.nodes = DOMAIN l.nodes
    /\ s.head = l.head /\ s.tail = (IF n = Null THEN x ELSE l.tail)
    /\ \A j \in DOMAIN l.nodes : /\ s.nodes[j].prev = (IF j = n THEN x ELSE l.nodes[j].prev)
                                 /\ s.nodes[j].next = l.nodes[j].next

\* In u the neighbours of k point past it.
PointsPast(u, l, k) ==
    LET p == l.nodes[k].prev
        n == l.nodes[k].next
    IN  /\ u.head = (IF p = Null THEN n ELSE l.head)
        /\ u.tail = (IF n = Null THEN p ELSE l.tail)
        /\ \A j \in DOMAIN l.nodes \ {k} :
             /\ u.nodes[j].prev = (IF j = n THEN p ELSE l.nodes[j].prev)
             /\ u.nodes[j].next = (IF j = p THEN n ELSE l.nodes[j].next)

\* f is l with the node of k before its head.
HasFront(f, l, k) ==
    /\ ListType(f) /\ DOMAIN f.nodes = DOMAIN l.nodes
    /\ f.head = k /\ f.tail = (IF l.tail = Null THEN k ELSE l.tail)
    /\ f.nodes[k].prev = Null /\ f.nodes[k].next = l.head
    /\ \A j \in DOMAIN l.nodes \ {k} :
         /\ f.nodes[j].prev = (IF j = l.head THEN k ELSE l.nodes[j].prev)
         /\ f.nodes[j].next = l.nodes[j].next

\* Whatever SetNext is called with by #unlink, it changes that pointer alone.
LEMMA SetNextFields ==
    ASSUME NEW l, ListType(l), NEW p \in DOMAIN l.nodes \cup {Null}, NEW x \in Links
    PROVE  HasNext(SetNext(l, p, x), l, p, x)
<1>1. CASE p = Null
    BY <1>1, NullAssumption DEF SetNext, ListType, HasNext
<1>2. CASE p # Null
    BY <1>2, NullAssumption DEF SetNext, ListType, Node, HasNext
<1>. QED
    BY <1>1, <1>2

\* Whatever SetPrev is called with by #unlink, it changes that pointer alone.
LEMMA SetPrevFields ==
    ASSUME NEW l, ListType(l), NEW n \in DOMAIN l.nodes \cup {Null}, NEW x \in Links
    PROVE  HasPrev(SetPrev(l, n, x), l, n, x)
<1>1. CASE n = Null
    BY <1>1, NullAssumption DEF SetPrev, ListType, HasPrev
<1>2. CASE n # Null
    BY <1>2, NullAssumption DEF SetPrev, ListType, Node, HasPrev
<1>. QED
    BY <1>1, <1>2

\* #unlink lets the neighbours of k, which are nodes of the list, point past it.
LEMMA UnlinkFields ==
    ASSUME NEW l, ListType(l), NEW k \in DOMAIN l.nodes,
           l.nodes[k].prev \in DOMAIN l.nodes \cup {Null},
           l.nodes[k].next \in DOMAIN l.nodes \cup {Null}
    PROVE  LET u == UnlinkNode(l, k)
           IN  ListType(u) /\ DOMAIN u.nodes = DOMAIN l.nodes /\ u.nodes[k] = Unlinked
                 /\ PointsPast(u, l, k)
<1>. DEFINE p == l.nodes[k].prev
            n == l.nodes[k].next
            s == SetNext(l, p, n)
            t == SetPrev(s, n, p)
            u == [t EXCEPT !.nodes[k] = Unlinked]
<1>1. p \in Links /\ n \in Links
    BY DEF ListType, Links
<1>2. HasNext(s, l, p, n)
    BY <1>1, SetNextFields
<1>3. ListType(s) /\ DOMAIN s.nodes = DOMAIN l.nodes
    BY <1>2 DEF HasNext
<1>4. HasPrev(t, s, n, p)
    BY <1>1, <1>3, SetPrevFields
<1>5. UnlinkNode(l, k) = u
    BY DEF UnlinkNode
<1>. HIDE DEF s, t, p, n
<1>6. ListType(t) /\ DOMAIN t.nodes = DOMAIN s.nodes
    BY <1>4 DEF HasPrev
<1>7. /\ u.head = t.head /\ u.tail = t.tail /\ DOMAIN u.nodes = DOMAIN t.nodes
      /\ u.nodes[k] = Unlinked /\ \A j \in DOMAIN t.nodes \ {k} : u.nodes[j] = t.nodes[j]
      /\ DOMAIN u = DOMAIN t /\ u.nodes = [t.nodes EXCEPT ![k] = Unlinked]
    BY <1>3, <1>6 DEF ListType
<1>. HIDE DEF u
<1>8. ListType(u)
    <2>1. Unlinked \in Node
        BY DEF Unlinked, Node, Links
    <2>2. t.nodes \in [DOMAIN t.nodes -> Node]
        BY <1>6 DEF ListType
    <2>3. u.nodes \in [DOMAIN u.nodes -> Node]
        BY <1>7, <2>1, <2>2
    <2>. QED
        BY <1>6, <1>7, <2>3 DEF ListType
<1>9. PointsPast(u, l, k)
    BY <1>2, <1>4, <1>7 DEF HasNext, HasPrev, PointsPast, p, n
<1>. QED
    BY <1>3, <1>5, <1>6, <1>7, <1>8, <1>9

\* remove drops the node of k as well.
LEMMA RemovedFields ==
    ASSUME NEW l, ListType(l), NEW k \in DOMAIN l.nodes,
           l.nodes[k].prev \in DOMAIN l.nodes \cup {Null},
           l.nodes[k].next \in DOMAIN l.nodes \cup {Null}
    PROVE  LET r == Removed(l, k)
           IN  ListType(r) /\ DOMAIN r.nodes = DOMAIN l.nodes \ {k} /\ PointsPast(r, l, k)
<1>. DEFINE u == UnlinkNode(l, k)
            r == WithoutNode(u, k)
<1>1. ListType(u) /\ DOMAIN u.nodes = DOMAIN l.nodes /\ PointsPast(u, l, k)
    BY UnlinkFields
<1>2. Removed(l, k) = r
    BY DEF Removed
<1>. HIDE DEF u
<1>3. /\ r.head = u.head /\ r.tail = u.tail /\ DOMAIN r = DOMAIN u
      /\ r.nodes = [j \in DOMAIN u.nodes \ {k} |-> u.nodes[j]]
    BY <1>1 DEF WithoutNode, ListType
<1>. HIDE DEF r
<1>4. ListType(r)
    BY <1>1, <1>3 DEF ListType
<1>5. DOMAIN r.nodes = DOMAIN l.nodes \ {k} /\ PointsPast(r, l, k)
    BY <1>1, <1>3 DEF PointsPast
<1>. QED
    BY <1>2, <1>4, <1>5

\* PushFront puts the new or unlinked node of k before the head.
LEMMA PushFrontFields ==
    ASSUME NEW l, ListType(l), NEW k \in DOMAIN l.nodes
    PROVE  HasFront(PushFront(l, k), l, k)
BY DEF PushFront, ListType, Node, Links, HasFront
-----------------------------------------------------------------------------
(* The list stays linked in the order                                      *)

\* The pointers of a linked list name its members.
LEMMA LinkedPointers ==
    ASSUME NEW l, NEW o, ListType(l), Linked(l, o), NEW k \in Members(o)
    PROVE  /\ l.nodes[k].prev \in Members(o) \cup {Null}
           /\ l.nodes[k].next \in Members(o) \cup {Null}
           /\ l.nodes[k].prev # k /\ l.nodes[k].next # k
           /\ k \in Keys
<1>1. k \in Keys /\ l.nodes[k].prev \in Links /\ l.nodes[k].next \in Links
    BY DEF ListType, Linked, Node
<1>2. IsTotalOrder(o)
    BY DEF Linked
<1>3. \A j \in Keys : /\ l.nodes[k].next = j <=> RightBefore(j, k, o)
                      /\ l.nodes[k].prev = j <=> RightBefore(k, j, o)
    BY DEF Linked
<1>. QED
    BY <1>1, <1>2, <1>3, OneNeighbour DEF Links

\* remove leaves a list linked in the order without the key.
LEMMA RemovedLinked ==
    ASSUME NEW l, NEW o, ListType(l), Linked(l, o), NEW k \in Members(o)
    PROVE  Linked(Removed(l, k), Unlink(o, {k}))
<1>. DEFINE p == l.nodes[k].prev
            n == l.nodes[k].next
            r == Removed(l, k)
            u == Unlink(o, {k})
            M == Members(o)
<1>1. IsTotalOrder(o) /\ DOMAIN l.nodes = M
    BY DEF Linked
<1>2. p \in M \cup {Null} /\ n \in M \cup {Null} /\ p # k /\ n # k
    BY LinkedPointers
<1>3. ListType(r) /\ DOMAIN r.nodes = M \ {k} /\ PointsPast(r, l, k)
    BY <1>1, <1>2, RemovedFields
<1>4. IsTotalOrder(u) /\ Members(u) = M \ {k}
    BY <1>1, UnlinkOrder, UnlinkMembers
<1>5. M \subseteq Keys /\ Null \notin M
    BY LinkedPointers, NullAssumption
<1>6. /\ p = Null <=> IsLast(k, o)
      /\ n = Null <=> IsFirst(k, o)
      /\ \A j \in M : /\ n = j <=> RightBefore(j, k, o)
                      /\ p = j <=> RightBefore(k, j, o)
    BY <1>5 DEF Linked
<1>7. /\ r.head = (IF p = Null THEN n ELSE l.head)
      /\ r.tail = (IF n = Null THEN p ELSE l.tail)
      /\ \A j \in M \ {k} :
           /\ r.nodes[j].prev = (IF j = n THEN p ELSE l.nodes[j].prev)
           /\ r.nodes[j].next = (IF j = p THEN n ELSE l.nodes[j].next)
    BY <1>1, <1>3 DEF PointsPast
<1>8. \A j \in M : /\ l.head = j <=> IsLast(j, o)
                   /\ l.tail = j <=> IsFirst(j, o)
                   /\ l.nodes[j].prev = Null <=> IsLast(j, o)
                   /\ l.nodes[j].next = Null <=> IsFirst(j, o)
    BY DEF Linked
<1>8a. \A j \in M, i \in Keys : /\ l.nodes[j].next = i <=> RightBefore(i, j, o)
                                /\ l.nodes[j].prev = i <=> RightBefore(j, i, o)
    BY DEF Linked
<1>9. \A j \in M \ {k} :
        /\ IsFirst(j, u) <=> IsFirst(j, o) \/ (IsFirst(k, o) /\ RightBefore(k, j, o))
        /\ IsLast(j, u) <=> IsLast(j, o) \/ (IsLast(k, o) /\ RightBefore(j, k, o))
    BY <1>1, UnlinkNeighbours
<1>10. \A j, i \in M \ {k} :
         RightBefore(j, i, u) <=>
           RightBefore(j, i, o) \/ (RightBefore(j, k, o) /\ RightBefore(k, i, o))
    BY <1>1, UnlinkNeighbours
<1>11. \A i, j : RightBefore(i, j, o) => i \in M /\ j \in M /\ i # j
    BY <1>1, OneNeighbour
<1>12. \A i, j : RightBefore(i, j, u) => i \in M \ {k} /\ j \in M \ {k}
    BY <1>4, OneNeighbour
<1>13. \A i, j, h : /\ RightBefore(i, h, o) /\ RightBefore(j, h, o) => i = j
                    /\ RightBefore(h, i, o) /\ RightBefore(h, j, o) => i = j
    BY <1>1, OneNeighbour
<1>14. \A i, j : /\ IsFirst(i, o) /\ IsFirst(j, o) => i = j
                 /\ IsLast(i, o) /\ IsLast(j, o) => i = j
                 /\ IsFirst(j, o) => ~RightBefore(i, j, o)
                 /\ IsLast(j, o) => ~RightBefore(j, i, o)
    BY <1>1, Ends
<1>15. ASSUME IsFirst(k, o), IsLast(k, o), NEW j \in M
       PROVE  j = k
    BY <1>1, <1>15 DEF IsFirst, IsLast, IsTotalOrder
<1>16. /\ l.head \in M \cup {Null} /\ l.tail \in M \cup {Null}
       /\ l.head # Null /\ l.tail # Null
    BY DEF Linked
<1>. HIDE DEF p, n, r, u, M
<1>17. ASSUME NEW j \in M \ {k}
       PROVE  /\ r.head = j <=> IsLast(j, u)
              /\ r.tail = j <=> IsFirst(j, u)
              /\ r.nodes[j].prev = Null <=> IsLast(j, u)
              /\ r.nodes[j].next = Null <=> IsFirst(j, u)
    <2>. k \in M
        BY DEF M
    <2>4a. /\ n = j <=> RightBefore(j, k, o)
           /\ p = j <=> RightBefore(k, j, o)
        BY <1>6
    <2>5. /\ l.head = j <=> IsLast(j, o)
          /\ l.tail = j <=> IsFirst(j, o)
          /\ l.nodes[j].prev = Null <=> IsLast(j, o)
          /\ l.nodes[j].next = Null <=> IsFirst(j, o)
        BY <1>8
    <2>6. j # k /\ ~(IsLast(j, o) /\ IsLast(k, o)) /\ ~(IsFirst(j, o) /\ IsFirst(k, o))
        BY <1>14
    <2>7. ~(IsLast(j, o) /\ RightBefore(j, k, o)) /\ ~(IsFirst(j, o) /\ RightBefore(k, j, o))
        BY <1>14
    <2>8. /\ IsFirst(j, u) <=> IsFirst(j, o) \/ (IsFirst(k, o) /\ RightBefore(k, j, o))
          /\ IsLast(j, u) <=> IsLast(j, o) \/ (IsLast(k, o) /\ RightBefore(j, k, o))
        BY <1>9
    <2>9. /\ r.nodes[j].prev = (IF j = n THEN p ELSE l.nodes[j].prev)
          /\ r.nodes[j].next = (IF j = p THEN n ELSE l.nodes[j].next)
        BY <1>7
    <2>1. r.head = j <=> IsLast(j, u)
        BY <1>6, <1>7, <2>4a, <2>5, <2>6, <2>8
    <2>2. r.tail = j <=> IsFirst(j, u)
        BY <1>6, <1>7, <2>4a, <2>5, <2>6, <2>8
    <2>3. r.nodes[j].prev = Null <=> IsLast(j, u)
        BY <1>6, <2>4a, <2>5, <2>7, <2>8, <2>9
    <2>4. r.nodes[j].next = Null <=> IsFirst(j, u)
        BY <1>6, <2>4a, <2>5, <2>7, <2>8, <2>9
    <2>. QED
        BY <2>1, <2>2, <2>3, <2>4
<1>18. ASSUME NEW j \in M \ {k}, NEW i \in Keys
       PROVE  /\ r.nodes[j].next = i <=> RightBefore(i, j, u)
              /\ r.nodes[j].prev = i <=> RightBefore(j, i, u)
    <2>. k \in M
        BY DEF M
    <2>1. /\ n = j <=> RightBefore(j, k, o)
          /\ p = j <=> RightBefore(k, j, o)
          /\ l.nodes[j].next = i <=> RightBefore(i, j, o)
          /\ l.nodes[j].prev = i <=> RightBefore(j, i, o)
        BY <1>6, <1>8a
    <2>2. /\ r.nodes[j].prev = (IF j = n THEN p ELSE l.nodes[j].prev)
          /\ r.nodes[j].next = (IF j = p THEN n ELSE l.nodes[j].next)
        BY <1>7
    <2>3. CASE i \in M \ {k}
        <3>1. n = i <=> RightBefore(i, k, o)
            BY <1>6, <2>3
        <3>2. p = i <=> RightBefore(k, i, o)
            BY <1>6, <2>3
        <3>3. /\ RightBefore(j, i, u) <=>
                    RightBefore(j, i, o) \/ (RightBefore(j, k, o) /\ RightBefore(k, i, o))
              /\ RightBefore(i, j, u) <=>
                    RightBefore(i, j, o) \/ (RightBefore(i, k, o) /\ RightBefore(k, j, o))
            BY <1>10, <2>3
        <3>4. ~(RightBefore(j, i, o) /\ RightBefore(j, k, o))
            BY <1>13, <2>3
        <3>5. ~(RightBefore(i, j, o) /\ RightBefore(k, j, o))
            BY <1>13, <2>3
        <3>. QED
            BY <2>1, <2>2, <3>1, <3>2, <3>3, <3>4, <3>5
    <2>4. CASE i \notin M \ {k}
        <3>1. ~RightBefore(i, j, u) /\ ~RightBefore(j, i, u)
            BY <1>12, <2>4
        <3>2. n # i /\ p # i
            BY <1>2, <1>5, <2>4, NullAssumption
        <3>3. i # k => ~RightBefore(i, j, o) /\ ~RightBefore(j, i, o)
            BY <1>11, <2>4
        <3>. QED
            BY <2>1, <2>2, <3>1, <3>2, <3>3
    <2>. QED
        BY <2>3, <2>4
<1>19. r.head \in (M \ {k}) \cup {Null} /\ r.tail \in (M \ {k}) \cup {Null}
    <2>. k \in M
        BY DEF M
    <2>1. l.head = k <=> p = Null
        BY <1>6, <1>8
    <2>2. l.tail = k <=> n = Null
        BY <1>6, <1>8
    <2>. QED
        BY <1>2, <1>7, <1>16, <2>1, <2>2
<1>20. M \ {k} # {} => r.head # Null /\ r.tail # Null
    BY <1>6, <1>7, <1>15, <1>16
<1>21. Linked(r, u)
    BY <1>3, <1>4, <1>17, <1>18, <1>19, <1>20 DEF Linked
<1>. QED
    BY <1>21 DEF r, u

\* add and touch put the node of k, in none of the others' pointers, before the head.
LEMMA PushLinked ==
    ASSUME NEW l, NEW o, Linked(l, o), ListType(l), NEW k \in Keys \ Members(o),
           NEW w, ListType(w), DOMAIN w.nodes = Members(o) \cup {k},
           w.head = l.head, w.tail = l.tail,
           \A j \in Members(o) : w.nodes[j].prev = l.nodes[j].prev /\ w.nodes[j].next = l.nodes[j].next
    PROVE  Linked(PushFront(w, k), AddLast(o, k))
<1>. DEFINE f == PushFront(w, k)
            a == AddLast(o, k)
            M == Members(o)
<1>1. IsTotalOrder(o)
    BY DEF Linked
<1>2. IsTotalOrder(a) /\ Members(a) = M \cup {k}
    BY <1>1, AddLastOrder, AddLastMembers
<1>3. HasFront(f, w, k)
    BY PushFrontFields
<1>4. M \subseteq Keys /\ Null \notin M /\ k # Null /\ k \notin M
    BY LinkedPointers, NullAssumption
<1>5. /\ DOMAIN f.nodes = M \cup {k}
      /\ f.head = k /\ f.tail = (IF l.tail = Null THEN k ELSE l.tail)
      /\ f.nodes[k].prev = Null /\ f.nodes[k].next = l.head
      /\ \A j \in M : /\ f.nodes[j].prev = (IF j = l.head THEN k ELSE l.nodes[j].prev)
                      /\ f.nodes[j].next = l.nodes[j].next
    BY <1>3, <1>4 DEF HasFront
<1>6. \A j \in M : /\ l.head = j <=> IsLast(j, o)
                   /\ l.tail = j <=> IsFirst(j, o)
                   /\ l.nodes[j].prev = Null <=> IsLast(j, o)
                   /\ l.nodes[j].next = Null <=> IsFirst(j, o)
    BY DEF Linked
<1>6a. \A j \in M, i \in Keys : /\ l.nodes[j].next = i <=> RightBefore(i, j, o)
                                /\ l.nodes[j].prev = i <=> RightBefore(j, i, o)
    BY DEF Linked
<1>7. \A j, i \in M \cup {k} :
        RightBefore(j, i, a) <=> RightBefore(j, i, o) \/ (i = k /\ IsLast(j, o))
    BY <1>1, AddNeighbours
<1>8. \A j \in M \cup {k} :
        /\ IsFirst(j, a) <=> IsFirst(j, o) \/ (j = k /\ M = {})
        /\ IsLast(j, a) <=> j = k
    BY <1>1, AddNeighbours
<1>9. \A i, j : RightBefore(i, j, o) => i \in M /\ j \in M
    BY <1>1, OneNeighbour
<1>10. \A i, j : RightBefore(i, j, a) => i \in M \cup {k} /\ j \in M \cup {k}
    BY <1>2, OneNeighbour
<1>11. \A i : (IsFirst(i, o) => i \in M) /\ (IsLast(i, o) => i \in M)
    BY DEF IsFirst, IsLast
<1>12. /\ l.head \in M \cup {Null} /\ l.tail \in M \cup {Null}
       /\ M # {} => l.head # Null /\ l.tail # Null
    BY DEF Linked
<1>13. \A i, j : IsLast(j, o) => ~RightBefore(j, i, o)
    BY <1>1, Ends
<1>. HIDE DEF f, a, M
<1>14. ASSUME NEW j \in M \cup {k}
       PROVE  /\ f.head = j <=> IsLast(j, a)
              /\ f.tail = j <=> IsFirst(j, a)
              /\ f.nodes[j].prev = Null <=> IsLast(j, a)
              /\ f.nodes[j].next = Null <=> IsFirst(j, a)
    <2>1. f.head = j <=> IsLast(j, a)
        BY <1>5, <1>8
    <2>2. f.tail = j <=> IsFirst(j, a)
        BY <1>4, <1>5, <1>6, <1>8, <1>11, <1>12
    <2>3. f.nodes[j].prev = Null <=> IsLast(j, a)
        BY <1>4, <1>5, <1>6, <1>8
    <2>4. f.nodes[j].next = Null <=> IsFirst(j, a)
        BY <1>4, <1>5, <1>6, <1>8, <1>11, <1>12
    <2>. QED
        BY <2>1, <2>2, <2>3, <2>4
<1>15. ASSUME NEW j \in M \cup {k}, NEW i \in Keys
       PROVE  /\ f.nodes[j].next = i <=> RightBefore(i, j, a)
              /\ f.nodes[j].prev = i <=> RightBefore(j, i, a)
    <2>1. CASE j = k
        <3>1. i \in M => (l.head = i <=> RightBefore(i, k, a))
            BY <1>4, <1>6, <1>7, <1>9
        <3>2. i \notin M => l.head # i /\ ~RightBefore(i, k, a)
            BY <1>4, <1>7, <1>9, <1>10, <1>11, <1>12, NullAssumption
        <3>3. ~RightBefore(k, i, a)
            BY <1>4, <1>7, <1>9, <1>10, <1>11
        <3>. QED
            BY <2>1, <3>1, <3>2, <3>3, <1>5, NullAssumption
    <2>2. CASE j # k
        <3>1. l.nodes[j].next = i <=> RightBefore(i, j, a)
            BY <2>2, <1>4, <1>6a, <1>7, <1>9, <1>10
        <3>2. l.nodes[j].prev = i <=> RightBefore(j, i, o)
            BY <2>2, <1>6a
        <3>3. RightBefore(j, i, a) <=> RightBefore(j, i, o) \/ (i = k /\ IsLast(j, o))
            BY <2>2, <1>7, <1>9, <1>10
        <3>4. ~(IsLast(j, o) /\ RightBefore(j, i, o)) /\ ~RightBefore(j, k, o)
            BY <1>4, <1>9, <1>13
        <3>5. f.nodes[j].prev = i <=> RightBefore(j, i, a)
            BY <2>2, <3>2, <3>3, <3>4, <1>5, <1>6
        <3>. QED
            BY <2>2, <3>1, <3>5, <1>5
    <2>. QED
        BY <2>1, <2>2
<1>16. f.head \in M \cup {k} /\ f.tail \in M \cup {k} /\ f.head # Null /\ f.tail # Null
    BY <1>4, <1>5, <1>12
<1>17. Linked(f, a)
    BY <1>2, <1>5, <1>14, <1>15, <1>16 DEF Linked
<1>. QED
    BY <1>17 DEF f, a
-----------------------------------------------------------------------------
(* The steps                                                               *)

\* A key that moves to the head leaves its old place: adding it is adding a new one.
LEMMA AddLastAgain ==
    ASSUME NEW o, NEW k
    PROVE  AddLast(Unlink(o, {k}), k) = AddLast(o, k) \/ ~IsTotalOrder(o)
<1>. SUFFICES ASSUME IsTotalOrder(o)
              PROVE  AddLast(Unlink(o, {k}), k) = AddLast(o, k)
    OBVIOUS
<1>1. Members(Unlink(o, {k})) \cup {k} = Members(o) \cup {k}
    BY UnlinkMembers
<1>2. Unlink(Unlink(o, {k}), {k}) = Unlink(o, {k})
    BY DEF Unlink
<1>. QED
    BY <1>1, <1>2 DEF AddLast

\* Touching the head changes nothing.
LEMMA AddLastOfLast ==
    ASSUME NEW o, IsTotalOrder(o), NEW k, IsLast(k, o)
    PROVE  AddLast(o, k) = o
<1>1. IsTotalOrder(AddLast(o, k))
    BY AddLastOrder
<1>2. \A p \in o : p \in AddLast(o, k)
    <2>. SUFFICES ASSUME NEW p \in o
                  PROVE  p \in AddLast(o, k)
        OBVIOUS
    <2>1. p = <<p[1], p[2]>> /\ p[1] \in Members(o) /\ p[2] \in Members(o)
        BY OrderPairs
    <2>2. ASSUME p[1] = k
          PROVE  p[2] = k
        <3>1. <<k, p[2]>> \in o
            BY <2>1, <2>2
        <3>2. <<p[2], k>> \in o /\ k \in Members(o)
            BY <2>1 DEF IsLast
        <3>3. \A i, j \in Members(o) : <<i, j>> \in o /\ <<j, i>> \in o => i = j
            BY DEF IsTotalOrder
        <3>. QED
            BY <2>1, <3>1, <3>2, <3>3
    <2>3. <<p[1], p[2]>> \in AddLast(o, k)
        BY <2>1, <2>2, AddLastPairs
    <2>. QED
        BY <2>1, <2>3
<1>3. \A p \in AddLast(o, k) : p \in o
    <2>. SUFFICES ASSUME NEW p \in AddLast(o, k)
                  PROVE  p \in o
        OBVIOUS
    <2>1. p = <<p[1], p[2]>>
        BY <1>1, OrderPairs
    <2>2. <<p[1], p[2]>> \in AddLast(o, k)
        BY <2>1
    <2>3. <<p[1], p[2]>> \in o
        BY <2>2, AddLastPairs DEF IsLast
    <2>. QED
        BY <2>1, <2>3
<1>. QED
    BY <1>2, <1>3

\* add of a key that is new.
LEMMA AddedLinked ==
    ASSUME NEW l, NEW o, ListType(l), Linked(l, o), NEW k \in Keys, k \notin DOMAIN l.nodes
    PROVE  /\ ListType(PushFront(WithNode(l, k), k))
           /\ Linked(PushFront(WithNode(l, k), k), AddLast(o, k))
<1>. DEFINE w == WithNode(l, k)
<1>1. DOMAIN l.nodes = Members(o)
    BY DEF Linked
<1>2. /\ w.nodes = [j \in DOMAIN l.nodes \cup {k} |-> IF j = k THEN Unlinked ELSE l.nodes[j]]
      /\ w.head = l.head /\ w.tail = l.tail /\ DOMAIN w = DOMAIN l
    BY DEF WithNode, ListType
<1>. HIDE DEF w
<1>3. Unlinked \in Node
    BY DEF Unlinked, Node, Links
<1>4. DOMAIN w.nodes = Members(o) \cup {k}
    BY <1>1, <1>2
<1>5. \A j \in Members(o) : w.nodes[j].prev = l.nodes[j].prev /\ w.nodes[j].next = l.nodes[j].next
    BY <1>1, <1>2
<1>6. ListType(w)
    <2>1. w.nodes \in [DOMAIN w.nodes -> Node]
        BY <1>2, <1>3 DEF ListType
    <2>. QED
        BY <1>1, <1>2, <1>4, <2>1 DEF ListType
<1>7. Linked(PushFront(w, k), AddLast(o, k))
    BY <1>1, <1>2, <1>4, <1>5, <1>6, PushLinked
<1>8. ListType(PushFront(w, k))
    BY <1>4, <1>6, PushFrontFields DEF HasFront
<1>. QED
    BY <1>7, <1>8 DEF w

\* touch, and add of a key that is listed.
LEMMA TouchedLinked ==
    ASSUME NEW l, NEW o, ListType(l), Linked(l, o), NEW k \in Keys
    PROVE  ListType(Touched(l, k)) /\ Linked(Touched(l, k), Touch(o, k))
<1>1. DOMAIN l.nodes = Members(o) /\ IsTotalOrder(o)
    BY DEF Linked
<1>2. CASE k \notin Members(o)
    BY <1>1, <1>2 DEF Touched, Touch
<1>3. CASE k \in Members(o) /\ k = l.head
    <2>1. IsLast(k, o)
        BY <1>3 DEF Linked
    <2>2. Touch(o, k) = o
        BY <1>1, <1>3, <2>1, AddLastOfLast DEF Touch
    <2>3. Touched(l, k) = l
        BY <1>3 DEF Touched
    <2>. QED
        BY <2>2, <2>3
<1>4. CASE k \in Members(o) /\ k # l.head
    <2>. DEFINE w == UnlinkNode(l, k)
                r == Removed(l, k)
                u == Unlink(o, {k})
    <2>1. /\ l.nodes[k].prev \in DOMAIN l.nodes \cup {Null}
          /\ l.nodes[k].next \in DOMAIN l.nodes \cup {Null}
        BY <1>1, <1>4, LinkedPointers
    <2>2. ListType(w) /\ DOMAIN w.nodes = DOMAIN l.nodes /\ PointsPast(w, l, k)
        BY <1>1, <1>4, <2>1, UnlinkFields
    <2>3. ListType(r) /\ DOMAIN r.nodes = DOMAIN l.nodes \ {k} /\ PointsPast(r, l, k)
        BY <1>1, <1>4, <2>1, RemovedFields
    <2>4. Linked(r, u)
        BY <1>4, RemovedLinked
    <2>5. Members(u) = Members(o) \ {k}
        BY <1>1, UnlinkMembers
    <2>6. Touched(l, k) = PushFront(w, k)
        BY <1>1, <1>4 DEF Touched
    <2>7. Touch(o, k) = AddLast(u, k)
        BY <1>1, <1>4, AddLastAgain DEF Touch
    <2>. HIDE DEF w, r, u
    <2>8. w.head = r.head /\ w.tail = r.tail
        BY <2>2, <2>3 DEF PointsPast
    <2>9. \A j \in Members(u) : w.nodes[j].prev = r.nodes[j].prev /\ w.nodes[j].next = r.nodes[j].next
        BY <1>1, <2>2, <2>3, <2>5 DEF PointsPast
    <2>10. DOMAIN w.nodes = Members(u) \cup {k} /\ k \in Keys \ Members(u)
        BY <1>1, <1>4, <2>2, <2>5
    <2>11. Linked(PushFront(w, k), AddLast(u, k))
        BY <2>2, <2>3, <2>4, <2>8, <2>9, <2>10, PushLinked
    <2>12. ListType(PushFront(w, k))
        BY <2>2, <2>10, PushFrontFields DEF HasFront
    <2>. QED
        BY <2>6, <2>7, <2>11, <2>12
<1>. QED
    BY <1>2, <1>3, <1>4

\* remove, and evictLru by way of it.
LEMMA RemovedTyped ==
    ASSUME NEW l, NEW o, ListType(l), Linked(l, o), NEW k \in Members(o)
    PROVE  ListType(Removed(l, k)) /\ Linked(Removed(l, k), Unlink(o, {k}))
<1>1. /\ k \in DOMAIN l.nodes
      /\ l.nodes[k].prev \in DOMAIN l.nodes \cup {Null}
      /\ l.nodes[k].next \in DOMAIN l.nodes \cup {Null}
    BY LinkedPointers DEF Linked
<1>. QED
    BY <1>1, RemovedFields, RemovedLinked

\* A key that is not listed is in no pair of the order.
LEMMA UnlinkAbsent ==
    ASSUME NEW o, IsTotalOrder(o), NEW k, k \notin Members(o)
    PROVE  Unlink(o, {k}) = o
<1>1. \A p \in o : p[1] # k /\ p[2] # k
    BY OrderPairs
<1>. QED
    BY <1>1 DEF Unlink

-----------------------------------------------------------------------------
(* The theorems                                                            *)

Inv == TypeOK /\ LinkedInOrder

LEMMA InitInv == Init => Inv
<1>. SUFFICES ASSUME Init
              PROVE  Inv
    OBVIOUS
<1>1. Members({}) = {}
    BY DEF Members
<1>2. IsTotalOrder({})
    BY <1>1 DEF IsTotalOrder
<1>3. TypeOK
    <2>1. DOMAIN list = {"nodes", "head", "tail"} /\ list.head = Null /\ list.tail = Null
        BY DEF Init
    <2>2. list.nodes = [k \in {} |-> Unlinked]
        BY DEF Init
    <2>3. Listed = {} /\ list.nodes \in [Listed -> Node]
        BY <2>2 DEF Listed
    <2>4. returned \in [call : {"none", "remove", "evictLru", "peekLru", "peekMru"},
                      key : Links, found : BOOLEAN]
        BY DEF Init, Nothing, Links
    <2>5. order \subseteq Keys \X Keys
        BY DEF Init
    <2>. QED
        BY <2>1, <2>3, <2>4, <2>5 DEF TypeOK, Links
<1>4. LinkedInOrder
    BY <1>1, <1>2 DEF Init, LinkedInOrder, Linked
<1>. QED
    BY <1>3, <1>4 DEF Inv

\* What the step lemmas say, put together for the state variables.
LEMMA TypeOfList ==
    ASSUME TypeOK
    PROVE  ListType(list)
BY DEF TypeOK, ListType, Listed

LEMMA NextInv == Inv /\ [Next]_vars => Inv'
<1>. SUFFICES ASSUME Inv, [Next]_vars
              PROVE  Inv'
    OBVIOUS
<1>. DEFINE Moved == ListType(list') /\ Linked(list', order')
<1>1. ListType(list) /\ Linked(list, order) /\ IsTotalOrder(order) /\ Listed = Members(order)
    BY TypeOfList DEF Inv, LinkedInOrder, Linked, Listed
<1>2. order \subseteq Keys \X Keys /\ list.head \in Links /\ list.tail \in Links
    BY DEF Inv, TypeOK
<1>3. ASSUME Moved, order' \subseteq Keys \X Keys,
             returned' \in [call : {"none", "remove", "evictLru", "peekLru", "peekMru"},
                            key : Links, found : BOOLEAN]
      PROVE  Inv'
    BY <1>3 DEF Inv, TypeOK, LinkedInOrder, ListType, Listed
<1>4. ASSUME NEW k \in Keys, Add(k)
      PROVE  Inv'
    <2>1. CASE k \in Listed
        <3>1. Touch(order, k) = AddLast(order, k)
            BY <1>1, <2>1 DEF Touch
        <3>2. list' = Touched(list, k) /\ order' = Touch(order, k)
            BY <1>4, <2>1, <3>1 DEF Add
        <3>3. Moved
            BY <1>1, <3>2, TouchedLinked
        <3>4. order' \subseteq Keys \X Keys
            BY <1>2, <3>2, OrderWithin
        <3>. QED
            BY <1>3, <1>4, <3>3, <3>4 DEF Add, Nothing, Links
    <2>2. CASE k \notin Listed
        BY <1>1, <1>2, <1>3, <1>4, <2>2, AddedLinked, OrderWithin DEF Add, Nothing, Links, Listed
    <2>. QED
        BY <2>1, <2>2
<1>5. ASSUME NEW k \in Keys, TouchKey(k)
      PROVE  Inv'
    BY <1>1, <1>2, <1>3, <1>5, TouchedLinked, OrderWithin DEF TouchKey, Nothing, Links
<1>6. ASSUME NEW k \in Keys, Remove(k)
      PROVE  Inv'
    <2>1. CASE k \in Listed
        BY <1>1, <1>2, <1>3, <1>6, <2>1, RemovedTyped, OrderWithin DEF Remove, Links
    <2>2. CASE k \notin Listed
        BY <1>1, <1>2, <1>3, <1>6, <2>2, UnlinkAbsent DEF Remove, Links
    <2>. QED
        BY <2>1, <2>2
<1>7. CASE EvictLru
    <2>1. CASE list.tail = Null
        <3>1. Null \notin Members(order)
            BY <1>2, NullAssumption DEF Members
        <3>. QED
            BY <1>1, <1>2, <1>3, <1>7, <2>1, <3>1, UnlinkAbsent DEF EvictLru
    <2>2. CASE list.tail # Null
        <3>1. list.tail \in Members(order)
            BY <1>1, <2>2 DEF Linked
        <3>. QED
            BY <1>1, <1>2, <1>3, <1>7, <2>2, <3>1, RemovedTyped DEF EvictLru, Unlink
    <2>. QED
        BY <2>1, <2>2
<1>8. CASE PeekLru
    BY <1>1, <1>2, <1>3, <1>8 DEF PeekLru
<1>9. CASE PeekMru
    BY <1>1, <1>2, <1>3, <1>9 DEF PeekMru
<1>10. CASE UNCHANGED vars
    BY <1>10 DEF vars, Inv, TypeOK, LinkedInOrder, Listed
<1>. QED
    BY <1>4, <1>5, <1>6, <1>7, <1>8, <1>9, <1>10 DEF Next

\* The list's fields and nodes keep their types, in every reachable state.
THEOREM ListTyped == Spec => []TypeOK
<1>1. Inv => TypeOK
    BY DEF Inv
<1>. QED
    BY InitInv, NextInv, <1>1, PTL DEF Spec

\* The pointers of the list are the order of use (lru-list.js:43-142), for any set of keys.
THEOREM ListIsTheOrder == Spec => []LinkedInOrder
<1>1. Inv => LinkedInOrder
    BY DEF Inv
<1>. QED
    BY InitInv, NextInv, <1>1, PTL DEF Spec

\* evictLru and peekLru name the least recently used key (lru-list.js:97-115).
THEOREM EvictsTheOldest == Spec => NamesTheOldest
<1>. DEFINE Names == returned'.call \in {"evictLru", "peekLru"} =>
                       IF order = {} THEN ~returned'.found ELSE IsFirst(returned'.key, order)
<1>1. Inv /\ [Next]_vars => [Names]_vars
    <2>. SUFFICES ASSUME Inv, Next, vars' # vars
                  PROVE  Names
        BY DEF vars
    <2>1. Linked(list, order) /\ list.tail \in Links /\ order \subseteq Keys \X Keys
        BY DEF Inv, LinkedInOrder, TypeOK
    <2>2. order = {} => list.tail = Null
        BY <2>1 DEF Linked, Members
    <2>3. order # {} => list.tail # Null
        BY <2>1 DEF Linked, Members
    <2>4. order # {} => IsFirst(list.tail, order)
        BY <2>1, <2>3 DEF Linked
    <2>5. CASE EvictLru \/ PeekLru
        <3>1. returned'.key = list.tail /\ (returned'.found <=> list.tail # Null)
            <4>1. CASE EvictLru
                BY <4>1 DEF EvictLru
            <4>2. CASE PeekLru
                BY <4>2 DEF PeekLru
            <4>. QED
                BY <2>5, <4>1, <4>2
        <3>2. CASE order = {}
            BY <2>2, <3>1, <3>2
        <3>3. CASE order # {}
            BY <2>4, <3>1, <3>3
        <3>. QED
            BY <3>2, <3>3
    <2>6. CASE PeekMru \/ \E k \in Keys : Add(k) \/ TouchKey(k) \/ Remove(k)
        <3>1. returned'.call \in {"none", "remove", "peekMru"}
            <4>1. CASE PeekMru
                BY <4>1 DEF PeekMru
            <4>2. ASSUME NEW k \in Keys, Add(k) \/ TouchKey(k)
                  PROVE  returned'.call = "none"
                BY <4>2 DEF Add, TouchKey, Nothing
            <4>3. ASSUME NEW k \in Keys, Remove(k)
                  PROVE  returned'.call = "remove"
                BY <4>3 DEF Remove
            <4>. QED
                BY <2>6, <4>1, <4>2, <4>3
        <3>. QED
            BY <3>1
    <2>. QED
        BY <2>5, <2>6 DEF Next
<1>. QED
    BY InitInv, NextInv, <1>1, PTL DEF Spec, NamesTheOldest
=============================================================================
