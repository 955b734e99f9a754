------------------------------ MODULE HashRing ------------------------------
(***************************************************************************)
(* packages/hashing/src/hash-ring.js: the consistent-hash ring that clients *)
(* and servers route by.  A ring is immutable; a change of the cluster's    *)
(* members is a new ring, and what matters is how the answers for one key   *)
(* relate from ring to ring.                                                *)
(*                                                                         *)
(* The binary search and the walk are modelled iteration by iteration, with *)
(* the code's zero-based array.                                             *)
(***************************************************************************)
EXTENDS Integers, Sequences, FiniteSets, Functions

CONSTANTS
    Nodes,                \* node ids; their order is that of nodeIndex
    VirtualNodesPerNode,
    MaxHash,              \* hashes are 0..MaxHash; 2^32 - 1 in hash.js
    MaxFactor             \* bound: replicationFactor is in 1..MaxFactor

ASSUME NodesAssumption == Nodes \subseteq Nat /\ IsFiniteSet(Nodes) /\ Nodes # {}
ASSUME ParametersAssumption ==
    /\ VirtualNodesPerNode \in Nat \ {0}
    /\ MaxHash \in Nat
    /\ MaxFactor \in Nat \ {0}

VARIABLES
    hashFn,      \* the hash of every label `${nodeId}#${v}`
    keyHash,     \* hashFn(key), of the key looked up
    members,     \* the nodes the ring was built from
    entries,     \* #entries
    call,        \* the running lookupReplicaIndices
    previous     \* the last ring's answer: members, factor, result

vars == <<hashFn, keyHash, members, entries, call, previous>>

Hashes == 0..MaxHash
Replicas == 0..(VirtualNodesPerNode - 1)
LabelsOf(M) == M \X Replicas
Memberships == (SUBSET Nodes) \ {{}}
Target(M, rf) == IF rf <= Cardinality(M) THEN rf ELSE Cardinality(M)
Length == Cardinality(LabelsOf(members))    \* this.#entries.length

Phases == {"idle", "search", "walk", "done"}

TypeOK ==
    /\ hashFn \in [LabelsOf(Nodes) -> Hashes]
    /\ keyHash \in Hashes
    /\ members \in Memberships
    /\ entries \in [0..(Length - 1) -> [hash : Hashes, node : members]]
    /\ call.phase \in Phases
    /\ call.target \in 0..Cardinality(members)
    /\ call.lo \in 0..Length /\ call.hi \in 0..Length
    /\ call.start \in 0..(Length - 1) /\ call.i \in 0..Length
    /\ call.result \in Seq(members)
    /\ DOMAIN call = {"phase", "factor", "target", "lo", "hi", "start", "i", "result"}
    /\ call.factor \in 1..MaxFactor
    /\ DOMAIN previous = {"members", "factor", "result"}
    /\ previous.members \in Memberships
    /\ previous.factor \in 1..MaxFactor
    /\ previous.result \in Seq(Nodes)

-----------------------------------------------------------------------------
(* buildRingEntries                                                        *)

\* Mutant: labels from the node's position in the list and not from its id.
PositionLabelHash(M, l) ==
    hashFn[<<CHOOSE n \in Nodes : Cardinality({m \in Nodes : m < n})
                                  = Cardinality({m \in M : m < l[1]}), l[2]>>]

\* hashFn(`${node.nodeId}#${v}`)
LabelHash(M, l) == hashFn[l]

\* Mutant: equal hashes keep the later node first.
LaterNodeFirst(M, a, b) ==
    \/ LabelHash(M, a) < LabelHash(M, b)
    \/ (LabelHash(M, a) = LabelHash(M, b) /\ (a[1] > b[1] \/ (a[1] = b[1] /\ a[2] < b[2])))

\* The comparator of entries.sort.  Entries of one node with one hash are equal
\* for it; the stable sort leaves them in the order they were pushed in.
Precedes(M, a, b) ==
    \/ LabelHash(M, a) < LabelHash(M, b)
    \/ (LabelHash(M, a) = LabelHash(M, b) /\ (a[1] < b[1] \/ (a[1] = b[1] /\ a[2] < b[2])))

Rank(M, a) == Cardinality({b \in LabelsOf(M) : Precedes(M, b, a)})

LabelAt(M, i) == CHOOSE a \in LabelsOf(M) : Rank(M, a) = i

BuildRingEntries(M) ==
    [i \in 0..(Cardinality(LabelsOf(M)) - 1) |->
        [hash |-> LabelHash(M, LabelAt(M, i)), node |-> LabelAt(M, i)[1]]]

Idle == [phase |-> "idle", factor |-> 1, target |-> 0, lo |-> 0, hi |-> 0,
         start |-> 0, i |-> 0, result |-> <<>>]

Init ==
    /\ hashFn \in [LabelsOf(Nodes) -> Hashes]
    /\ keyHash \in Hashes
    /\ members = Nodes
    /\ entries = BuildRingEntries(Nodes)
    /\ call = Idle
    /\ previous = [members |-> Nodes, factor |-> 1, result |-> <<>>]

\* The cluster's configuration changes: new HashRing({nodes}) with other members.  The
\* old ring's answer for the key is kept to compare with, as remappingFraction does.
NewRing(M) ==
    /\ call.phase = "done"
    /\ M # members
    /\ previous' = [members |-> members, factor |-> call.factor, result |-> call.result]
    /\ members' = M
    /\ entries' = BuildRingEntries(M)
    /\ call' = Idle
    /\ UNCHANGED <<hashFn, keyHash>>

-----------------------------------------------------------------------------
(* lookupReplicaIndices                                                    *)

\* Mutant: the target is not limited to the number of nodes.
StartUncapped(rf) ==
    /\ call.phase = "idle"
    /\ call' = [Idle EXCEPT !.phase = "search", !.factor = rf, !.target = rf, !.hi = Length]
    /\ UNCHANGED <<hashFn, keyHash, members, entries, previous>>

Start(rf) ==
    /\ call.phase = "idle"
    /\ call' = [Idle EXCEPT !.phase = "search", !.factor = rf,
                            !.target = Target(members, rf), !.hi = Length]
    /\ UNCHANGED <<hashFn, keyHash, members, entries, previous>>

Mid == (call.lo + call.hi) \div 2

\* One iteration of #ringStartIndex: the first entry whose hash is not below the key's.
Halve ==
    /\ call.phase = "search" /\ call.lo < call.hi
    /\ call' = IF entries[Mid].hash < keyHash THEN [call EXCEPT !.lo = Mid + 1]
                                              ELSE [call EXCEPT !.hi = Mid]
    /\ UNCHANGED <<hashFn, keyHash, members, entries, previous>>

\* Mutant: past the last entry, the search stays at the last entry.
NoWrap ==
    /\ call.phase = "search" /\ call.lo >= call.hi
    /\ call' = [call EXCEPT !.phase = "walk",
                            !.start = IF call.lo >= Length THEN Length - 1 ELSE call.lo]
    /\ UNCHANGED <<hashFn, keyHash, members, entries, previous>>

\* The return of #ringStartIndex: past the last entry, the ring wraps.
Found ==
    /\ call.phase = "search" /\ call.lo >= call.hi
    /\ call' = [call EXCEPT !.phase = "walk",
                            !.start = IF call.lo >= Length THEN 0 ELSE call.lo]
    /\ UNCHANGED <<hashFn, keyHash, members, entries, previous>>

Walking == call.i < Length /\ Len(call.result) < call.target

NodeAt(i) == entries[(call.start + i) % Length].node

Seen == Range(call.result)

\* One iteration of the walk: a node not seen yet joins the result.
Visit ==
    /\ call.phase = "walk" /\ Walking
    /\ call' = [call EXCEPT !.i = @ + 1,
                            !.result = IF NodeAt(call.i) \in Seen THEN @
                                       ELSE Append(@, NodeAt(call.i))]
    /\ UNCHANGED <<hashFn, keyHash, members, entries, previous>>

\* lookup(key), which takes the search's answer alone.
Lookup == entries[call.start].node

Return ==
    /\ call.phase = "walk" /\ ~Walking
    /\ call' = [call EXCEPT !.phase = "done"]
    /\ UNCHANGED <<hashFn, keyHash, members, entries, previous>>

Next ==
    \/ \E M \in Memberships : NewRing(M)
    \/ \E rf \in 1..MaxFactor : Start(rf)
    \/ Halve
    \/ Found
    \/ Visit
    \/ Return

Spec == Init /\ [][Next]_vars

-----------------------------------------------------------------------------
(* Properties                                                              *)

\* How far label l lies clockwise from the key; 0 when the hashes are equal.
Distance(l) == (hashFn[l] - keyHash) % (MaxHash + 1)

\* Node n is met before node m on the way clockwise from the key.
Nearer(n, m) ==
    \E a \in LabelsOf({n}) : \A b \in LabelsOf({m}) :
        Distance(a) < Distance(b) \/ (Distance(a) = Distance(b) /\ n < m)

\* The answer is the `target` distinct nodes nearest clockwise from the key, nearest first,
\* and lookup names the first of them, whatever the hashes collide or wrap: the binary search,
\* the wrap to entry 0, the sort's tie-break and the walk's duplicate check have to agree for
\* it (hash-ring.js:53-141).
ReplicasAreNearest ==
    call.phase = "done" =>
        /\ Len(call.result) = Target(members, call.factor)
        /\ \A j \in DOMAIN call.result :
             Cardinality({n \in members : Nearer(n, call.result[j])}) = j - 1
        /\ Lookup = call.result[1]

\* Answer s ranks node n ahead of node m: n comes first, or m is left out.
Ahead(s, n, m) ==
    \E i \in DOMAIN s : s[i] = n /\ \A j \in 1..i : s[j] # m

\* What consistent hashing is for: after any change of members, the new ring's answer and the
\* old one's never rank two common nodes differently, a joining node only pushes others out,
\* and a leaving node only lets others in.  A key's data stays where it was otherwise.
MinimalRemap ==
    (call.phase = "done" /\ previous.result # <<>>) =>
        /\ \A n, m \in members \cap previous.members :
             Ahead(call.result, n, m) => ~Ahead(previous.result, m, n)
        /\ (call.factor = previous.factor /\ previous.members \subseteq members) =>
             Range(call.result) \cap previous.members \subseteq Range(previous.result)
        /\ (call.factor = previous.factor /\ members \subseteq previous.members) =>
             Range(previous.result) \cap members \subseteq Range(call.result)
=============================================================================
