------------------------------ MODULE KeyOrder ------------------------------
(***************************************************************************)
(* The two orders a CacheStore keeps over its keys, as total orders: a set *)
(* of pairs <<j, k>> meaning "j is before k, or is k".  Of LruList the     *)
(* first key is the tail (least recently used) and the last one the head;  *)
(* of a JavaScript Map the first key is the one inserted first.            *)
(***************************************************************************)
EXTENDS Integers, FiniteSets

Members(order) == {p[1] : p \in order}

\* LruList.remove of each key of S (and Map.delete).
Unlink(order, S) == {p \in order : p[1] \notin S /\ p[2] \notin S}

\* LruList.add: a new key goes to the head, a listed one moves there.
AddLast(order, k) ==
    Unlink(order, {k}) \cup {<<j, k>> : j \in Members(order) \cup {k}}

\* LruList.touch: nothing happens when the key is missing.
Touch(order, k) == IF k \in Members(order) THEN AddLast(order, k) ELSE order

\* The sets a run of evictions from the tail can remove: closed towards the tail.
IsPrefix(S, order) ==
    /\ S \subseteq Members(order)
    /\ \A p \in order : p[2] \in S => p[1] \in S

Prefixes(order) == {S \in SUBSET Members(order) : IsPrefix(S, order)}

\* LruList.peekLru: k is at the tail.
IsFirst(k, order) == k \in Members(order) /\ \A j \in Members(order) : <<k, j>> \in order

\* LruList.peekMru: k is at the head.
IsLast(k, order) == k \in Members(order) /\ \A j \in Members(order) : <<j, k>> \in order

\* j comes right before k.
RightBefore(j, k, order) ==
    /\ j # k /\ <<j, k>> \in order
    /\ \A i \in Members(order) : <<j, i>> \in order /\ <<i, k>> \in order => i \in {j, k}

\* The index of k in [...map.keys()].
Index(order, k) == Cardinality({p \in order : p[2] = k}) - 1

IsTotalOrder(order) ==
    /\ \A p \in order : p = <<p[1], p[2]>> /\ p[2] \in Members(order)
    /\ \A j, k \in Members(order) : <<j, k>> \in order \/ <<k, j>> \in order
    /\ \A j, k \in Members(order) : <<j, k>> \in order /\ <<k, j>> \in order => j = k
    /\ \A i, j, k \in Members(order) :
          <<i, j>> \in order /\ <<j, k>> \in order => <<i, k>> \in order
=============================================================================
