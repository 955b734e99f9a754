------------------------------ MODULE LruList ------------------------------
(***************************************************************************)
(* packages/cache-core/src/lru-list.js: the doubly linked list with its map *)
(* from keys to nodes.  `order` is what CacheStore has in the list's place, *)
(* a KeyOrder: a history variable that the list's own steps never read.     *)
(***************************************************************************)
EXTENDS KeyOrder

CONSTANTS Keys, Null

ASSUME NullAssumption == Null \notin Keys

VARIABLES
    list,       \* #nodes, #head, #tail
    returned,   \* what the last call returned
    order       \* history: the keys, least recently used first

vars == <<list, returned, order>>

Links == Keys \cup {Null}
Node == [prev : Links, next : Links]
Listed == DOMAIN list.nodes

TypeOK ==
    /\ DOMAIN list = {"nodes", "head", "tail"}
    /\ Listed \subseteq Keys
    /\ list.nodes \in [Listed -> Node]
    /\ list.head \in Links /\ list.tail \in Links
    /\ returned \in [call : {"none", "remove", "evictLru", "peekLru", "peekMru"},
                     key : Links, found : BOOLEAN]
    /\ order \subseteq Keys \X Keys

Unlinked == [prev |-> Null, next |-> Null]

Nothing == [call |-> "none", key |-> Null, found |-> FALSE]

Init ==
    /\ list = [nodes |-> [k \in {} |-> Unlinked], head |-> Null, tail |-> Null]
    /\ returned = Nothing
    /\ order = {}

-----------------------------------------------------------------------------

\* What comes after node p, or after the head's end, is now x.
SetNext(l, p, x) ==
    IF p = Null THEN [l EXCEPT !.head = x] ELSE [l EXCEPT !.nodes[p].next = x]

SetPrev(l, n, x) ==
    IF n = Null THEN [l EXCEPT !.tail = x] ELSE [l EXCEPT !.nodes[n].prev = x]

\* #unlink
UnlinkNode(l, k) ==
    LET node == l.nodes[k]
        unlinked == SetPrev(SetNext(l, node.prev, node.next), node.next, node.prev)
    IN  [unlinked EXCEPT !.nodes[k] = Unlinked]

\* Mutant: the node that was the head keeps no way back.
PushFrontOneWay(l, k) ==
    [nodes |-> [l.nodes EXCEPT ![k] = [prev |-> Null, next |-> l.head]],
     head |-> k, tail |-> IF l.tail = Null THEN k ELSE l.tail]

\* Mutant: no look at whether there is a head.
PushFrontUnguarded(l, k) ==
    [nodes |-> [j \in DOMAIN l.nodes \cup {l.head} |->
                  IF j = k THEN [prev |-> Null, next |-> l.head]
                  ELSE IF j = l.head THEN [prev |-> k, next |-> Null]
                  ELSE l.nodes[j]],
     head |-> k, tail |-> IF l.tail = Null THEN k ELSE l.tail]

\* The common end of add and touch: the unlinked node of k becomes the head.
PushFront(l, k) ==
    [nodes |-> [j \in DOMAIN l.nodes |->
                  IF j = k THEN [prev |-> Null, next |-> l.head]
                  ELSE IF j = l.head THEN [prev |-> k, next |-> l.nodes[j].next]
                  ELSE l.nodes[j]],
     head |-> k, tail |-> IF l.tail = Null THEN k ELSE l.tail]

\* this.#nodes.set and this.#nodes.delete
WithNode(l, k) ==
    [l EXCEPT !.nodes = [j \in DOMAIN @ \cup {k} |-> IF j = k THEN Unlinked ELSE @[j]]]
WithoutNode(l, k) == [l EXCEPT !.nodes = [j \in DOMAIN @ \ {k} |-> @[j]]]

\* Mutant: the tail is skipped in place of the head.
TouchedUnlessTail(l, k) ==
    IF k \notin DOMAIN l.nodes \/ k = l.tail THEN l ELSE PushFront(UnlinkNode(l, k), k)

Touched(l, k) ==
    IF k \notin DOMAIN l.nodes \/ k = l.head THEN l ELSE PushFront(UnlinkNode(l, k), k)

Removed(l, k) == WithoutNode(UnlinkNode(l, k), k)

-----------------------------------------------------------------------------

Add(k) ==
    /\ list' = IF k \in Listed THEN Touched(list, k) ELSE PushFront(WithNode(list, k), k)
    /\ order' = AddLast(order, k)
    /\ returned' = Nothing

TouchKey(k) ==
    /\ list' = Touched(list, k)
    /\ order' = Touch(order, k)
    /\ returned' = Nothing

Remove(k) ==
    /\ list' = IF k \in Listed THEN Removed(list, k) ELSE list
    /\ order' = Unlink(order, {k})
    /\ returned' = [call |-> "remove", key |-> k, found |-> k \in Listed]

\* evictLru: remove(tail.key); the history loses the key that was returned.
EvictLru ==
    /\ list' = IF list.tail = Null THEN list ELSE Removed(list, list.tail)
    /\ order' = Unlink(order, {list.tail})
    /\ returned' = [call |-> "evictLru", key |-> list.tail, found |-> list.tail # Null]

PeekLru ==
    /\ returned' = [call |-> "peekLru", key |-> list.tail, found |-> list.tail # Null]
    /\ UNCHANGED <<list, order>>

PeekMru ==
    /\ returned' = [call |-> "peekMru", key |-> list.head, found |-> list.head # Null]
    /\ UNCHANGED <<list, order>>

Next ==
    \/ \E k \in Keys : Add(k) \/ TouchKey(k) \/ Remove(k)
    \/ EvictLru
    \/ PeekLru
    \/ PeekMru

Spec == Init /\ [][Next]_vars

-----------------------------------------------------------------------------
(* Properties                                                              *)

\* The list l read from the head by `next`, and from the tail by `prev`, is the order o, and
\* the map has a node for exactly its keys.
Linked(l, o) ==
    /\ IsTotalOrder(o)
    /\ DOMAIN l.nodes = Members(o)
    /\ \A k \in Members(o) :
         /\ l.head = k <=> IsLast(k, o)
         /\ l.tail = k <=> IsFirst(k, o)
         /\ l.nodes[k].prev = Null <=> IsLast(k, o)
         /\ l.nodes[k].next = Null <=> IsFirst(k, o)
         /\ \A j \in Keys : /\ l.nodes[k].next = j <=> RightBefore(j, k, o)
                            /\ l.nodes[k].prev = j <=> RightBefore(k, j, o)
    /\ l.head \in Members(o) \cup {Null} /\ l.tail \in Members(o) \cup {Null}
    /\ Members(o) # {} => l.head # Null /\ l.tail # Null

\* Every pointer of every node agrees with the order of use, through adds, touches and removals
\* at the head, at the tail and in between (lru-list.js:43-142).
LinkedInOrder == Linked(list, order)

\* evictLru and peekLru name the least recently used key, and find one whenever the list is
\* not empty: CacheStore evicts by them alone (cache-store.js:428-432).
NamesTheOldest ==
    [][returned'.call \in {"evictLru", "peekLru"} =>
         IF order = {} THEN ~returned'.found ELSE IsFirst(returned'.key, order)]_vars
=============================================================================
