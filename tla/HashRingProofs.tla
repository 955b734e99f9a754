--------------------------- MODULE HashRingProofs ---------------------------
(***************************************************************************)
(* Proofs about HashRing.                                                  *)
(***************************************************************************)
EXTENDS HashRing, KeyOrderProofs, SequenceTheorems

-----------------------------------------------------------------------------
(* Numbers                                                                 *)

\* What % does within one turn of the ring, either way.
LEMMA TurnFacts ==
    ASSUME NEW k \in Nat \ {0}, NEW x \in Int
    PROVE  /\ 0 <= x /\ x < k => x % k = x
           /\ k <= x /\ x < k + k => x % k = x - k
           /\ -k <= x /\ x < 0 => x % k = x + k
           /\ x % k \in 0..(k - 1)
OBVIOUS

-----------------------------------------------------------------------------
(* The entries                                                             *)

LEMMA LabelFacts ==
    ASSUME NEW M \in Memberships
    PROVE  /\ IsFiniteSet(M) /\ M \subseteq Nodes /\ Cardinality(M) \in Nat \ {0}
           /\ LabelsOf(M) \subseteq LabelsOf(Nodes) /\ IsFiniteSet(LabelsOf(M))
           /\ Cardinality(LabelsOf(M)) \in Nat \ {0}
           /\ \A a \in LabelsOf(M) : a = <<a[1], a[2]>> /\ a[1] \in M /\ a[2] \in Replicas
           /\ \A n \in M : LabelsOf({n}) \subseteq LabelsOf(M) /\ <<n, 0>> \in LabelsOf({n})
<1>1. M \in SUBSET Nodes /\ M # {}
    BY DEF Memberships
<1>2. IsFiniteSet(M) /\ Cardinality(M) \in Nat
    BY <1>1, NodesAssumption, FS_Subset, FS_CardinalityType
<1>3. Cardinality(M) # 0
    BY <1>1, <1>2, FS_EmptySet
<1>4. IsFiniteSet(Replicas) /\ 0 \in Replicas
    <2>1. 0 \in Int /\ VirtualNodesPerNode - 1 \in Int /\ 0 \in 0..(VirtualNodesPerNode - 1)
        BY ParametersAssumption
    <2>. QED
        BY <2>1, FS_Interval DEF Replicas
<1>5. IsFiniteSet(LabelsOf(M)) /\ Cardinality(LabelsOf(M)) \in Nat
    BY <1>2, <1>4, FS_Product, FS_CardinalityType DEF LabelsOf
<1>6. \A n \in M : LabelsOf({n}) \subseteq LabelsOf(M) /\ <<n, 0>> \in LabelsOf({n})
    BY <1>4 DEF LabelsOf
<1>7. Cardinality(LabelsOf(M)) # 0
    <2>1. PICK n \in M : TRUE
        BY <1>1
    <2>2. <<n, 0>> \in LabelsOf(M)
        BY <1>4, <2>1 DEF LabelsOf
    <2>3. LabelsOf(M) # {}
        BY <2>2
    <2>. QED
        BY <1>5, <2>3, FS_EmptySet
<1>8. /\ LabelsOf(M) \subseteq LabelsOf(Nodes)
      /\ \A a \in LabelsOf(M) : a = <<a[1], a[2]>> /\ a[1] \in M /\ a[2] \in Replicas
    BY <1>1 DEF LabelsOf
<1>. QED
    BY <1>1, <1>2, <1>3, <1>5, <1>6, <1>7, <1>8

\* The comparator of the sort is a strict total order of the labels.
LEMMA PrecedesFacts ==
    ASSUME NEW M \in Memberships, hashFn \in [LabelsOf(Nodes) -> Hashes],
           NEW a \in LabelsOf(M), NEW b \in LabelsOf(M)
    PROVE  /\ ~Precedes(M, a, a)
           /\ a # b => Precedes(M, a, b) \/ Precedes(M, b, a)
           /\ \A c \in LabelsOf(M) : Precedes(M, a, b) /\ Precedes(M, b, c) => Precedes(M, a, c)
           /\ Precedes(M, a, b) =>
                hashFn[a] < hashFn[b] \/ (hashFn[a] = hashFn[b] /\ a[1] <= b[1])
<1>1. \A c \in LabelsOf(M) : /\ c = <<c[1], c[2]>> /\ c[1] \in Nat /\ c[2] \in Nat
                             /\ hashFn[c] \in Nat
    <2>1. \A c \in LabelsOf(M) : c \in LabelsOf(Nodes) /\ c = <<c[1], c[2]>> /\ c[1] \in Nodes
                                 /\ c[2] \in Replicas
        BY LabelFacts
    <2>2. Replicas \subseteq Nat /\ Nodes \subseteq Nat /\ Hashes \subseteq Nat
        BY NodesAssumption, ParametersAssumption DEF Replicas, Hashes
    <2>. QED
        BY <2>1, <2>2
<1>2. a[1] = b[1] /\ a[2] = b[2] => a = b
    BY <1>1
<1>. QED
    BY <1>1, <1>2 DEF Precedes, LabelHash

\* buildRingEntries: every label once, in the order of the comparator.
LEMMA RingFacts ==
    ASSUME NEW M \in Memberships, hashFn \in [LabelsOf(Nodes) -> Hashes],
           NEW N, N = Cardinality(LabelsOf(M))
    PROVE  /\ \A i \in 0..(N - 1) : LabelAt(M, i) \in LabelsOf(M)
           /\ \A i, j \in 0..(N - 1) : i < j => Precedes(M, LabelAt(M, i), LabelAt(M, j))
           /\ \A a \in LabelsOf(M) : \E i \in 0..(N - 1) : LabelAt(M, i) = a
<1>. DEFINE L == LabelsOf(M)
            R == {p \in L \X L : Precedes(M, p[1], p[2])}
            rank == [a \in L |-> Cardinality({b \in L : <<b, a>> \in R})]
<1>1. IsFiniteSet(L)
    BY LabelFacts
<1>2. \A a, b \in L : <<a, b>> \in R <=> Precedes(M, a, b)
    OBVIOUS
<1>3. /\ \A a \in L : <<a, a>> \notin R
      /\ \A a, b \in L : a # b => <<a, b>> \in R \/ <<b, a>> \in R
      /\ \A a, b, c \in L : <<a, b>> \in R /\ <<b, c>> \in R => <<a, c>> \in R
    <2>. HIDE DEF R, L
    <2>1. \A a, b \in L : /\ ~Precedes(M, a, a)
                          /\ a # b => Precedes(M, a, b) \/ Precedes(M, b, a)
        BY PrecedesFacts DEF L
    <2>2. \A a, b, c \in L : Precedes(M, a, b) /\ Precedes(M, b, c) => Precedes(M, a, c)
        BY PrecedesFacts DEF L
    <2>. QED
        BY <1>2, <2>1, <2>2
<1>4. \A a \in L : rank[a] = Rank(M, a)
    <2>1. \A a \in L : {b \in L : <<b, a>> \in R} = {b \in L : Precedes(M, b, a)}
        BY <1>2
    <2>. HIDE DEF R
    <2>. QED
        BY <2>1 DEF Rank
<1>. HIDE DEF R
<1>6. /\ rank \in Bijection(L, 0..(Cardinality(L) - 1))
      /\ \A a, b \in L : <<a, b>> \in R <=> rank[a] < rank[b]
      /\ \A i \in 0..(Cardinality(L) - 1) : \E a \in L : rank[a] = i
    <2>. HIDE DEF L
    <2>. QED
        BY <1>1, <1>3, RankFacts
<1>. HIDE DEF rank
<1>7. \A i \in 0..(N - 1) : LabelAt(M, i) \in L /\ rank[LabelAt(M, i)] = i
    <2>. SUFFICES ASSUME NEW i \in 0..(N - 1) PROVE LabelAt(M, i) \in L /\ rank[LabelAt(M, i)] = i
        OBVIOUS
    <2>1. \E a \in L : Rank(M, a) = i
        BY <1>4, <1>6
    <2>2. LabelAt(M, i) \in L /\ Rank(M, LabelAt(M, i)) = i
        BY <2>1 DEF LabelAt
    <2>. QED
        BY <1>4, <2>2
<1>8. \A a \in L : rank[a] \in 0..(N - 1)
    BY <1>6 DEF Bijection, Injection
<1>9. \A a, b \in L : rank[a] = rank[b] => a = b
    <2>. SUFFICES ASSUME NEW a \in L, NEW b \in L, rank[a] = rank[b], a # b PROVE FALSE
        OBVIOUS
    <2>1. rank[a] \in Int /\ (<<a, b>> \in R \/ <<b, a>> \in R)
        BY <1>3, <1>8
    <2>2. rank[a] < rank[b] \/ rank[b] < rank[a]
        BY <1>6, <2>1
    <2>. QED
        BY <2>1, <2>2
<1>10. \A a \in L : LabelAt(M, rank[a]) = a
    BY <1>7, <1>8, <1>9
<1>11. \A i, j \in 0..(N - 1) : i < j => Precedes(M, LabelAt(M, i), LabelAt(M, j))
    <2>. SUFFICES ASSUME NEW i \in 0..(N - 1), NEW j \in 0..(N - 1), i < j
                  PROVE  Precedes(M, LabelAt(M, i), LabelAt(M, j))
        OBVIOUS
    <2>1. <<LabelAt(M, i), LabelAt(M, j)>> \in R
        BY <1>6, <1>7
    <2>. QED
        BY <1>2, <1>7, <2>1
<1>. QED
    BY <1>7, <1>8, <1>10, <1>11

\* The entries in terms of their labels: sorted by hash, then by node.
LEMMA EntryFacts ==
    ASSUME NEW M \in Memberships, hashFn \in [LabelsOf(Nodes) -> Hashes],
           NEW N, N = Cardinality(LabelsOf(M)), NEW e, e = BuildRingEntries(M)
    PROVE  /\ e \in [0..(N - 1) -> [hash : Hashes, node : M]]
           /\ \A i \in 0..(N - 1) : /\ e[i].hash = hashFn[LabelAt(M, i)]
                                    /\ e[i].node = LabelAt(M, i)[1]
           /\ \A i, j \in 0..(N - 1) : i < j =>
                \/ e[i].hash < e[j].hash
                \/ e[i].hash = e[j].hash /\ e[i].node <= e[j].node
<1>1. \A i \in 0..(N - 1) : LabelAt(M, i) \in LabelsOf(M)
    BY RingFacts
<1>2. \A i \in 0..(N - 1) : LabelAt(M, i)[1] \in M /\ hashFn[LabelAt(M, i)] \in Hashes
    BY <1>1, LabelFacts
<1>3. e = [i \in 0..(N - 1) |-> [hash |-> hashFn[LabelAt(M, i)], node |-> LabelAt(M, i)[1]]]
    BY DEF BuildRingEntries, LabelHash
<1>4. \A i, j \in 0..(N - 1) : i < j =>
        \/ hashFn[LabelAt(M, i)] < hashFn[LabelAt(M, j)]
        \/ (hashFn[LabelAt(M, i)] = hashFn[LabelAt(M, j)]
            /\ LabelAt(M, i)[1] <= LabelAt(M, j)[1])
    BY <1>1, RingFacts, PrecedesFacts
<1>. QED
    BY <1>2, <1>3, <1>4

-----------------------------------------------------------------------------
(* The order the walk meets the labels in                                  *)

RingOK ==
    /\ hashFn \in [LabelsOf(Nodes) -> Hashes]
    /\ keyHash \in Hashes
    /\ members \in Memberships
    /\ entries = BuildRingEntries(members)

\* The entries before lo are below the key, those from hi on are not.
Separates(lo, hi) ==
    /\ \A i \in 0..(lo - 1) : entries[i].hash < keyHash
    /\ \A i \in hi..(Length - 1) : ~(entries[i].hash < keyHash)

\* The walk starts at the first entry that is not below the key, or else at entry 0.
IsStart == \E lo \in 0..Length : /\ Separates(lo, lo)
                                 /\ call.start = IF lo = Length THEN 0 ELSE lo

\* The index, and the label, of the walk's step p.
Turn(p) == (call.start + p) % Length
Met(p) == LabelAt(members, Turn(p))

LEMMA DistanceFacts ==
    ASSUME RingOK, NEW a \in LabelsOf(members)
    PROVE  /\ hashFn[a] \in 0..MaxHash /\ keyHash \in 0..MaxHash /\ MaxHash \in Nat
           /\ Distance(a) \in Nat
           /\ ~(hashFn[a] < keyHash) => Distance(a) = hashFn[a] - keyHash
           /\ hashFn[a] < keyHash => Distance(a) = hashFn[a] - keyHash + MaxHash + 1
<1>1. hashFn[a] \in 0..MaxHash /\ keyHash \in 0..MaxHash /\ MaxHash \in Nat
    BY LabelFacts, ParametersAssumption DEF RingOK, Hashes
<1>. DEFINE k == MaxHash + 1
            x == hashFn[a] - keyHash
<1>2. k \in Nat \ {0} /\ x \in Int /\ -k <= x /\ x < k
    BY <1>1
<1>3. Distance(a) = x % k
    BY DEF Distance
<1>4. /\ 0 <= x => x % k = x
      /\ x < 0 => x % k = x + k
      /\ x % k \in 0..(k - 1)
    <2>. HIDE DEF x, k
    <2>. QED
        BY <1>2, TurnFacts
<1>. QED
    BY <1>1, <1>3, <1>4

LEMMA TurnIndex ==
    ASSUME NEW N \in Nat \ {0}, NEW s \in 0..(N - 1), NEW p \in 0..(N - 1)
    PROVE  /\ (s + p) % N \in 0..(N - 1)
           /\ s + p < N => (s + p) % N = s + p
           /\ ~(s + p < N) => (s + p) % N = s + p - N
<1>. DEFINE x == s + p
<1>1. x \in Int /\ 0 <= x /\ x < N + N
    OBVIOUS
<1>2. /\ x < N => x % N = x
      /\ ~(x < N) => x % N = x - N
      /\ x % N \in 0..(N - 1)
    <2>. HIDE DEF x
    <2>. QED
        BY <1>1
<1>. QED
    BY <1>2

\* Of two steps the later one is at the later entry, unless only it is past the wrap.
TurnsOf(N, lo, s, p, q, tp, tq) ==
    /\ N \in Nat \ {0} /\ lo \in 0..N /\ s = IF lo = N THEN 0 ELSE lo
    /\ p \in 0..(N - 1) /\ q \in 0..(N - 1) /\ p < q
    /\ tp = IF s + p < N THEN s + p ELSE s + p - N
    /\ tq = IF s + q < N THEN s + q ELSE s + q - N

LEMMA TurnOrder ==
    ASSUME NEW N, NEW lo, NEW s, NEW p, NEW q, NEW tp, NEW tq, TurnsOf(N, lo, s, p, q, tp, tq)
    PROVE  \/ tp < tq /\ (tp < lo <=> tq < lo)
           \/ ~(tp < lo) /\ tq < lo
BY DEF TurnsOf

\* Step by step the walk gets farther from the key; at one distance the smaller nodes come first.
LEMMA MetFacts ==
    ASSUME RingOK, IsStart
    PROVE  /\ \A p \in 0..(Length - 1) : Met(p) \in LabelsOf(members) /\ NodeAt(p) = Met(p)[1]
           /\ \A p, q \in 0..(Length - 1) : p < q =>
                \/ Distance(Met(p)) < Distance(Met(q))
                \/ Distance(Met(p)) = Distance(Met(q)) /\ NodeAt(p) <= NodeAt(q)
           /\ \A a \in LabelsOf(members) : \E p \in 0..(Length - 1) : Met(p) = a
<1>. DEFINE N == Length
<1>1. members \in Memberships /\ hashFn \in [LabelsOf(Nodes) -> Hashes]
      /\ N = Cardinality(LabelsOf(members)) /\ entries = BuildRingEntries(members)
    BY DEF RingOK, Length
<1>2. N \in Nat \ {0}
    BY <1>1, LabelFacts
<1>3. PICK lo \in 0..N : /\ Separates(lo, lo)
                         /\ call.start = IF lo = N THEN 0 ELSE lo
    BY DEF IsStart
<1>4. call.start \in 0..(N - 1)
    BY <1>2, <1>3
<1>5. \A p \in 0..(N - 1) :
        /\ Turn(p) \in 0..(N - 1)
        /\ call.start + p < N => Turn(p) = call.start + p
        /\ ~(call.start + p < N) => Turn(p) = call.start + p - N
    <2>. HIDE DEF N
    <2>1. \A p : Turn(p) = (call.start + p) % N
        BY DEF Turn, N
    <2>. QED
        BY <1>2, <1>4, <2>1, TurnIndex
<1>6. /\ \A i \in 0..(N - 1) : LabelAt(members, i) \in LabelsOf(members)
      /\ \A a \in LabelsOf(members) : \E i \in 0..(N - 1) : LabelAt(members, i) = a
    BY <1>1, RingFacts
<1>7. \A i \in 0..(N - 1) : /\ entries[i].hash = hashFn[LabelAt(members, i)]
                            /\ entries[i].node = LabelAt(members, i)[1]
    BY <1>1, EntryFacts
<1>8. \A i, j \in 0..(N - 1) : i < j =>
        \/ entries[i].hash < entries[j].hash
        \/ entries[i].hash = entries[j].hash /\ entries[i].node <= entries[j].node
    BY <1>1, EntryFacts
<1>9. \A p \in 0..(N - 1) : NodeAt(p) = entries[Turn(p)].node
    BY DEF NodeAt, Turn
<1>10. /\ \A i \in 0..(lo - 1) : entries[i].hash < keyHash
       /\ \A i \in lo..(N - 1) : ~(entries[i].hash < keyHash)
    BY <1>3 DEF Separates
<1>. HIDE DEF N
<1>11. ASSUME NEW p \in 0..(N - 1)
       PROVE  /\ Met(p) \in LabelsOf(members) /\ NodeAt(p) = Met(p)[1]
              /\ entries[Turn(p)].hash = hashFn[Met(p)]
    BY <1>5, <1>6, <1>7, <1>9 DEF Met
<1>12. ASSUME NEW p \in 0..(N - 1), NEW q \in 0..(N - 1), p < q
       PROVE  \/ Distance(Met(p)) < Distance(Met(q))
              \/ Distance(Met(p)) = Distance(Met(q)) /\ NodeAt(p) <= NodeAt(q)
    <2>. DEFINE hp == entries[Turn(p)].hash
                hq == entries[Turn(q)].hash
    <2>1. /\ hp \in 0..MaxHash /\ keyHash \in 0..MaxHash /\ MaxHash \in Nat
          /\ ~(hp < keyHash) => Distance(Met(p)) = hp - keyHash
          /\ hp < keyHash => Distance(Met(p)) = hp - keyHash + MaxHash + 1
        BY <1>11, DistanceFacts
    <2>2. /\ hq \in 0..MaxHash
          /\ ~(hq < keyHash) => Distance(Met(q)) = hq - keyHash
          /\ hq < keyHash => Distance(Met(q)) = hq - keyHash + MaxHash + 1
        BY <1>11, DistanceFacts
    <2>3. Turn(p) \in 0..(N - 1) /\ Turn(q) \in 0..(N - 1)
        BY <1>5
    <2>4. Turn(p) < Turn(q) => hp < hq \/ (hp = hq /\ NodeAt(p) <= NodeAt(q))
        BY <1>8, <1>9, <2>3
    <2>5. \/ Turn(p) < Turn(q) /\ (hp < keyHash <=> hq < keyHash)
          \/ ~(hp < keyHash) /\ hq < keyHash
        <3>1. \A i \in 0..(N - 1) : entries[i].hash < keyHash <=> i < lo
            BY <1>2, <1>10
        <3>2. (hp < keyHash <=> Turn(p) < lo) /\ (hq < keyHash <=> Turn(q) < lo)
            BY <2>3, <3>1
        <3>3. \/ Turn(p) < Turn(q) /\ (Turn(p) < lo <=> Turn(q) < lo)
              \/ ~(Turn(p) < lo) /\ Turn(q) < lo
            <4>1. /\ Turn(p) = IF call.start + p < N THEN call.start + p ELSE call.start + p - N
                  /\ Turn(q) = IF call.start + q < N THEN call.start + q ELSE call.start + q - N
                BY <1>5
            <4>2. TurnsOf(N, lo, call.start, p, q, Turn(p), Turn(q))
                BY <1>2, <1>3, <1>12, <4>1 DEF TurnsOf
            <4>. QED
                BY <4>2, TurnOrder
        <3>. QED
            BY <3>2, <3>3
    <2>. HIDE DEF hp, hq
    <2>. QED
        BY <2>1, <2>2, <2>4, <2>5
<1>13. ASSUME NEW a \in LabelsOf(members)
       PROVE  \E p \in 0..(N - 1) : Met(p) = a
    <2>1. PICK i \in 0..(N - 1) : LabelAt(members, i) = a
        BY <1>6
    <2>2. \E p \in 0..(N - 1) : Turn(p) = i
        <3>1. CASE i >= call.start
            <4>. DEFINE p == i - call.start
            <4>1. p \in 0..(N - 1) /\ call.start + p < N /\ call.start + p = i
                BY <1>2, <1>4, <3>1
            <4>. HIDE DEF p
            <4>. QED
                BY <1>5, <4>1
        <3>2. CASE ~(i >= call.start)
            <4>. DEFINE p == i - call.start + N
            <4>1. p \in 0..(N - 1) /\ ~(call.start + p < N) /\ call.start + p - N = i
                BY <1>2, <1>4, <3>2
            <4>. HIDE DEF p
            <4>. QED
                BY <1>5, <4>1
        <3>. QED
            BY <3>1, <3>2
    <2>. QED
        BY <2>1, <2>2 DEF Met
<1>. QED
    BY <1>11, <1>12, <1>13 DEF N

-----------------------------------------------------------------------------
(* The walk                                                                *)

\* The walk meets entry j of the result at its step p, after the j - 1 before it and no other.
FirstMet(p, j) ==
    /\ NodeAt(p) = call.result[j]
    /\ \A q \in 0..(p - 1) : \E k \in 1..(j - 1) : NodeAt(q) = call.result[k]
    /\ \A k \in 1..(j - 1) : \E q \in 0..(p - 1) : NodeAt(q) = call.result[k]

\* After i steps the result holds the nodes met so far, each once, first met first.
WalkOK ==
    /\ IsStart
    /\ call.target = Target(members, call.factor)
    /\ Len(call.result) <= call.target
    /\ \A j, k \in 1..Len(call.result) : call.result[j] = call.result[k] => j = k
    /\ \A q \in 0..(call.i - 1) : \E k \in 1..Len(call.result) : NodeAt(q) = call.result[k]
    /\ \A j \in 1..Len(call.result) : \E p \in 0..(call.i - 1) : FirstMet(p, j)

\* The answer s of a ring of M: as many nodes as asked for, or all of them, each once, and the
\* nodes of M nearer than the j-th are the j - 1 before it.
Nearest(M, rf, s) ==
    /\ s \in Seq(M) /\ Len(s) = Target(M, rf)
    /\ \A j, k \in 1..Len(s) : s[j] = s[k] => j = k
    /\ \A j \in 1..Len(s) : \A n \in M : Nearer(n, s[j]) <=> \E k \in 1..(j - 1) : s[k] = n

CallType ==
    [phase : Phases, factor : 1..MaxFactor, target : 0..Cardinality(members), lo : 0..Length,
     hi : 0..Length, start : 0..(Length - 1), i : 0..Length, result : Seq(members)]

CallOK ==
    /\ call \in CallType
    /\ call.phase = "search" => /\ Separates(call.lo, call.hi) /\ call.lo <= call.hi
                                /\ call.target = Target(members, call.factor)
                                /\ call.i = 0 /\ call.result = <<>>
    /\ call.phase = "walk" => WalkOK
    /\ call.phase = "done" => /\ Nearest(members, call.factor, call.result)
                              /\ Lookup = call.result[1]

PreviousOK ==
    /\ previous \in [members : Memberships, factor : 1..MaxFactor, result : Seq(Nodes)]
    /\ previous.result # <<>> => Nearest(previous.members, previous.factor, previous.result)

Inv == RingOK /\ CallOK /\ PreviousOK

LEMMA TargetFacts ==
    ASSUME NEW M \in Memberships, NEW rf \in 1..MaxFactor
    PROVE  /\ Target(M, rf) \in 1..Cardinality(M) /\ Target(M, rf) <= rf
           /\ Target(M, rf) = Cardinality(M) \/ Target(M, rf) = rf
<1>1. Cardinality(M) \in Nat \ {0} /\ rf \in Nat \ {0}
    BY LabelFacts, ParametersAssumption
<1>. QED
    BY <1>1 DEF Target

LEMMA RingTyped ==
    ASSUME RingOK
    PROVE  /\ Length \in Nat \ {0}
           /\ entries \in [0..(Length - 1) -> [hash : Hashes, node : members]]
           /\ keyHash \in Nat
           /\ \A i \in 0..(Length - 1) : entries[i].hash \in Nat
           /\ \A i, j \in 0..(Length - 1) : i < j => entries[i].hash <= entries[j].hash
<1>1. members \in Memberships /\ hashFn \in [LabelsOf(Nodes) -> Hashes]
      /\ Length = Cardinality(LabelsOf(members)) /\ entries = BuildRingEntries(members)
    BY DEF RingOK, Length
<1>2. Length \in Nat \ {0}
    BY <1>1, LabelFacts
<1>3. /\ entries \in [0..(Length - 1) -> [hash : Hashes, node : members]]
      /\ \A i, j \in 0..(Length - 1) : i < j =>
                \/ entries[i].hash < entries[j].hash
                \/ entries[i].hash = entries[j].hash /\ entries[i].node <= entries[j].node
    BY <1>1, EntryFacts
<1>4. Hashes \subseteq Nat
    BY ParametersAssumption DEF Hashes
<1>5. keyHash \in Nat /\ \A i \in 0..(Length - 1) : entries[i].hash \in Nat
    BY <1>3, <1>4 DEF RingOK
<1>. QED
    BY <1>2, <1>3, <1>5

\* While fewer nodes are in the result than the ring has, the walk has not come round.
LEMMA WalkComesRound ==
    ASSUME RingOK, call \in CallType, WalkOK, ~Walking
    PROVE  Len(call.result) = call.target
<1>1. /\ Length \in Nat \ {0} /\ members \in Memberships /\ call.factor \in 1..MaxFactor
      /\ call.i \in 0..Length /\ call.result \in Seq(members) /\ Len(call.result) \in Nat
      /\ call.target \in 1..Cardinality(members) /\ Cardinality(members) \in Nat
    BY RingTyped, TargetFacts, LabelFacts, LenProperties DEF RingOK, CallType, WalkOK
<1>. SUFFICES ASSUME Len(call.result) < call.target PROVE FALSE
    BY <1>1 DEF WalkOK
<1>2. call.i = Length
    BY <1>1 DEF Walking
<1>3. \A n \in members : \E k \in 1..Len(call.result) : call.result[k] = n
    <2>. SUFFICES ASSUME NEW n \in members
                  PROVE  \E k \in 1..Len(call.result) : call.result[k] = n
        OBVIOUS
    <2>1. <<n, 0>> \in LabelsOf(members)
        BY <1>1, LabelFacts
    <2>2. IsStart
        BY DEF WalkOK
    <2>3. PICK p \in 0..(Length - 1) : Met(p) = <<n, 0>>
        BY <2>1, <2>2, MetFacts
    <2>4. NodeAt(p) = n
        BY <2>2, <2>3, MetFacts
    <2>. QED
        BY <1>2, <2>4 DEF WalkOK
<1>. DEFINE l == Len(call.result)
            f == [k \in 1..l |-> call.result[k]]
<1>4. f \in Surjection(1..l, members)
    <2>1. \A k \in 1..l : call.result[k] \in members
        BY <1>1, ElementOfSeq
    <2>2. f \in [1..l -> members]
        BY <2>1
    <2>3. \A n \in members : \E k \in 1..l : f[k] = n
        BY <1>3
    <2>. QED
        BY <2>2, <2>3 DEF Surjection
<1>. HIDE DEF f
<1>5. IsFiniteSet(1..l) /\ Cardinality(1..l) = l
    <2>1. 1 \in Int /\ l \in Int
        BY <1>1
    <2>2. IsFiniteSet(1..l) /\ Cardinality(1..l) = IF 1 > l THEN 0 ELSE l - 1 + 1
        BY <2>1, FS_Interval
    <2>. HIDE DEF l
    <2>3. l \in Nat
        BY <1>1 DEF l
    <2>. QED
        BY <2>2, <2>3
<1>6. Cardinality(members) <= l
    <2>. HIDE DEF l
    <2>. QED
        BY <1>4, <1>5, FS_Surjection
<1>. QED
    BY <1>1, <1>6

\* A node of the ring that the walk meets before its step p is nearer than the one first met there,
\* and no other node is.
LEMMA NearerIsMetFirst ==
    ASSUME RingOK, IsStart, NEW p \in 0..(Length - 1),
           NEW m \in members, NodeAt(p) = m, \A q \in 0..(p - 1) : NodeAt(q) # m,
           NEW n \in members
    PROVE  Nearer(n, m) <=> \E q \in 0..(p - 1) : NodeAt(q) = n
<1>. DEFINE N == Length
<1>1. N \in Nat \ {0} /\ members \in Memberships /\ members \subseteq Nat
    BY RingTyped, LabelFacts, NodesAssumption DEF RingOK
<1>2. \A q \in 0..(N - 1) : /\ Met(q) \in LabelsOf(members) /\ NodeAt(q) = Met(q)[1]
                            /\ Distance(Met(q)) \in Nat /\ NodeAt(q) \in Nat
    BY <1>1, MetFacts, DistanceFacts, LabelFacts
<1>3. \A r, q \in 0..(N - 1) : r < q =>
                \/ Distance(Met(r)) < Distance(Met(q))
                \/ Distance(Met(r)) = Distance(Met(q)) /\ NodeAt(r) <= NodeAt(q)
    BY MetFacts
<1>4. \A k \in members : \A a \in LabelsOf({k}) :
        a[1] = k /\ \E q \in 0..(N - 1) : Met(q) = a /\ NodeAt(q) = k
    <2>. SUFFICES ASSUME NEW k \in members, NEW a \in LabelsOf({k})
                  PROVE  a[1] = k /\ \E q \in 0..(N - 1) : Met(q) = a /\ NodeAt(q) = k
        OBVIOUS
    <2>1. a[1] = k
        BY DEF LabelsOf
    <2>2. a \in LabelsOf(members)
        BY <1>1, LabelFacts
    <2>3. PICK q \in 0..(N - 1) : Met(q) = a
        BY <2>2, MetFacts
    <2>. QED
        BY <1>2, <2>1, <2>3
<1>5. \A q \in 0..(N - 1) : Met(q) \in LabelsOf({NodeAt(q)})
    BY <1>2 DEF LabelsOf
<1>. HIDE DEF N
<1>6. \A q \in 0..(p - 1) : q \in 0..(N - 1) /\ q < p
    BY <1>1 DEF N
<1>7. p \in 0..(N - 1)
    BY DEF N
<1>8. ASSUME NEW q \in 0..(p - 1), NodeAt(q) = n
      PROVE  Nearer(n, m)
    <2>1. Met(q) \in LabelsOf({n}) /\ q \in 0..(N - 1) /\ n # m
        BY <1>5, <1>6, <1>8
    <2>2. ASSUME NEW b \in LabelsOf({m})
          PROVE  \/ Distance(Met(q)) < Distance(b)
                 \/ Distance(Met(q)) = Distance(b) /\ n < m
        <3>1. PICK r \in 0..(N - 1) : Met(r) = b /\ NodeAt(r) = m
            BY <1>4
        <3>2. ~(r \in 0..(p - 1))
            BY <3>1
        <3>3. q < r
            BY <1>1, <1>6, <1>7, <3>2
        <3>4. \/ Distance(Met(q)) < Distance(b)
              \/ Distance(Met(q)) = Distance(b) /\ n <= m
            BY <1>3, <1>8, <2>1, <3>1, <3>3
        <3>. QED
            BY <1>1, <2>1, <3>4
    <2>. QED
        BY <2>1, <2>2 DEF Nearer
<1>9. ASSUME Nearer(n, m), \A q \in 0..(p - 1) : NodeAt(q) # n
      PROVE  FALSE
    <2>1. Met(p) \in LabelsOf({m})
        BY <1>5, <1>7
    <2>2. PICK a \in LabelsOf({n}) : \/ Distance(a) < Distance(Met(p))
                                     \/ Distance(a) = Distance(Met(p)) /\ n < m
        BY <1>9, <2>1 DEF Nearer
    <2>3. PICK q \in 0..(N - 1) : Met(q) = a /\ NodeAt(q) = n
        BY <1>4
    <2>4. ~(q \in 0..(p - 1))
        BY <1>9, <2>3
    <2>5. q = p \/ p < q
        BY <1>1, <1>7, <2>4
    <2>6. CASE q = p
        BY <1>1, <1>2, <1>7, <2>2, <2>3, <2>6
    <2>7. CASE p < q
        <3>1. \/ Distance(Met(p)) < Distance(a)
              \/ Distance(Met(p)) = Distance(a) /\ m <= n
            BY <1>3, <1>7, <2>3, <2>7
        <3>2. Distance(Met(p)) \in Nat /\ Distance(a) \in Nat /\ m \in Nat /\ n \in Nat
            BY <1>1, <1>2, <1>7, <2>3
        <3>. QED
            BY <2>2, <3>1, <3>2
    <2>. QED
        BY <2>5, <2>6, <2>7
<1>. QED
    BY <1>8, <1>9

LEMMA WalkEnds ==
    ASSUME RingOK, call \in CallType, WalkOK, ~Walking
    PROVE  Nearest(members, call.factor, call.result) /\ Lookup = call.result[1]
<1>. DEFINE s == call.result
<1>1. /\ Length \in Nat \ {0} /\ members \in Memberships /\ call.factor \in 1..MaxFactor
      /\ call.i \in 0..Length /\ s \in Seq(members) /\ Len(s) \in Nat
      /\ call.start \in 0..(Length - 1)
    BY RingTyped, LenProperties DEF RingOK, CallType
<1>2. Len(s) = Target(members, call.factor) /\ Len(s) \in Nat \ {0}
    <2>1. Len(s) = call.target /\ call.target = Target(members, call.factor)
        BY WalkComesRound DEF WalkOK
    <2>2. Target(members, call.factor) \in 1..Cardinality(members) /\ Cardinality(members) \in Nat
        BY <1>1, TargetFacts, LabelFacts
    <2>. QED
        BY <2>1, <2>2
<1>3. \A j \in 1..Len(s) : s[j] \in members
    BY <1>1, ElementOfSeq
<1>4. IsStart /\ \A j, k \in 1..Len(s) : s[j] = s[k] => j = k
    BY DEF WalkOK
<1>5. \A j \in 1..Len(s) : \E p \in 0..(Length - 1) : FirstMet(p, j)
    BY <1>1 DEF WalkOK
<1>6. ASSUME NEW j \in 1..Len(s), NEW n \in members
      PROVE  Nearer(n, s[j]) <=> \E k \in 1..(j - 1) : s[k] = n
    <2>1. PICK p \in 0..(Length - 1) : FirstMet(p, j)
        BY <1>5
    <2>2. \A k \in 1..(j - 1) : k \in 1..Len(s) /\ s[k] # s[j]
        BY <1>1, <1>4
    <2>3. \A q \in 0..(p - 1) : NodeAt(q) # s[j]
        BY <2>1, <2>2 DEF FirstMet
    <2>4. Nearer(n, s[j]) <=> \E q \in 0..(p - 1) : NodeAt(q) = n
        BY <1>3, <1>4, <2>1, <2>3, NearerIsMetFirst DEF FirstMet
    <2>. QED
        BY <2>1, <2>4 DEF FirstMet
<1>7. Lookup = s[1]
    <2>1. PICK p \in 0..(Length - 1) : FirstMet(p, 1)
        BY <1>2, <1>5
    <2>2. p = 0
        <3>1. ~(0 \in 0..(p - 1))
            <4>1. 1..(1 - 1) = {}
                OBVIOUS
            <4>. QED
                BY <2>1, <4>1 DEF FirstMet
        <3>. QED
            BY <1>1, <3>1
    <2>3. NodeAt(0) = entries[call.start].node
        <3>1. (call.start + 0) % Length = call.start
            <4>1. 0 \in 0..(Length - 1) /\ call.start + 0 < Length /\ call.start + 0 = call.start
                BY <1>1
            <4>. QED
                BY <1>1, <4>1, TurnIndex
        <3>. QED
            BY <3>1 DEF NodeAt
    <2>. QED
        BY <2>1, <2>2, <2>3 DEF Lookup, FirstMet
<1>. QED
    BY <1>1, <1>2, <1>4, <1>6, <1>7 DEF Nearest

-----------------------------------------------------------------------------
(* The order of the nodes, and what it says of two answers                 *)

\* Of two nodes one is nearer, and only one.
LEMMA NearerFacts ==
    ASSUME hashFn \in [LabelsOf(Nodes) -> Hashes], keyHash \in Hashes,
           NEW n \in Nodes, NEW m \in Nodes
    PROVE  /\ ~(Nearer(n, m) /\ Nearer(m, n))
           /\ n # m => Nearer(n, m) \/ Nearer(m, n)
<1>1. MaxHash \in Nat /\ Nodes \subseteq Nat /\ Nodes \in Memberships
    BY NodesAssumption, ParametersAssumption DEF Memberships
<1>2. \A a \in LabelsOf(Nodes) : Distance(a) \in 0..MaxHash
    <2>. SUFFICES ASSUME NEW a \in LabelsOf(Nodes) PROVE Distance(a) \in 0..MaxHash
        OBVIOUS
    <2>. DEFINE x == hashFn[a] - keyHash
                k == MaxHash + 1
    <2>1. x \in Int /\ k \in Nat \ {0} /\ k - 1 = MaxHash
        BY <1>1 DEF Hashes
    <2>2. Distance(a) = x % k
        BY DEF Distance
    <2>. HIDE DEF x, k
    <2>. QED
        BY <2>1, <2>2, TurnFacts
<1>3. \A k \in Nodes : LabelsOf({k}) \subseteq LabelsOf(Nodes) /\ LabelsOf({k}) # {}
    BY <1>1, LabelFacts
<1>4. ASSUME NEW k \in Nodes
      PROVE  \E a \in LabelsOf({k}) : \A b \in LabelsOf({k}) : Distance(a) <= Distance(b)
    <2>. DEFINE S == {d \in 0..MaxHash : \E a \in LabelsOf({k}) : d = MaxHash - Distance(a)}
    <2>1. IsFiniteSet(S)
        <3>1. IsFiniteSet(0..MaxHash)
            BY <1>1, FS_Interval
        <3>2. S \in SUBSET (0..MaxHash)
            OBVIOUS
        <3>. HIDE DEF S
        <3>. QED
            BY <3>1, <3>2, FS_Subset
    <2>2. \A a \in LabelsOf({k}) : Distance(a) \in 0..MaxHash /\ MaxHash - Distance(a) \in S
        <3>. SUFFICES ASSUME NEW a \in LabelsOf({k})
                      PROVE  Distance(a) \in 0..MaxHash /\ MaxHash - Distance(a) \in S
            OBVIOUS
        <3>1. Distance(a) \in 0..MaxHash
            BY <1>2, <1>3
        <3>2. MaxHash - Distance(a) \in 0..MaxHash
            BY <1>1, <3>1
        <3>. QED
            BY <3>1, <3>2
    <2>3. S # {} /\ S \subseteq Nat
        BY <1>1, <1>3, <2>2
    <2>4. \A d \in S : \E a \in LabelsOf({k}) : d = MaxHash - Distance(a)
        OBVIOUS
    <2>. HIDE DEF S
    <2>5. PICK g \in S : \A d \in S : d <= g
        BY <2>1, <2>3, GreatestFacts
    <2>6. PICK a \in LabelsOf({k}) : g = MaxHash - Distance(a)
        BY <2>4
    <2>7. \A b \in LabelsOf({k}) : Distance(a) <= Distance(b)
        BY <1>1, <2>2, <2>5, <2>6
    <2>. QED
        BY <2>7
<1>5. ASSUME n # m PROVE Nearer(n, m) \/ Nearer(m, n)
    <2>1. PICK a \in LabelsOf({n}) : \A b \in LabelsOf({n}) : Distance(a) <= Distance(b)
        BY <1>4
    <2>2. PICK b \in LabelsOf({m}) : \A c \in LabelsOf({m}) : Distance(b) <= Distance(c)
        BY <1>4
    <2>3. \A c \in LabelsOf({n}) \cup LabelsOf({m}) : Distance(c) \in Nat
        BY <1>1, <1>2, <1>3
    <2>4. n \in Nat /\ m \in Nat
        BY <1>1
    <2>5. CASE Distance(a) < Distance(b) \/ (Distance(a) = Distance(b) /\ n < m)
        <3>1. \A c \in LabelsOf({m}) : Distance(a) < Distance(c) \/ (Distance(a) = Distance(c) /\ n < m)
            BY <2>2, <2>3, <2>5
        <3>. QED
            BY <3>1 DEF Nearer
    <2>6. CASE ~(Distance(a) < Distance(b) \/ (Distance(a) = Distance(b) /\ n < m))
        <3>1. \A c \in LabelsOf({n}) : Distance(b) < Distance(c) \/ (Distance(b) = Distance(c) /\ m < n)
            BY <1>5, <2>1, <2>3, <2>4, <2>6
        <3>. QED
            BY <3>1 DEF Nearer
    <2>. QED
        BY <2>5, <2>6
<1>6. ASSUME Nearer(n, m), Nearer(m, n) PROVE FALSE
    <2>1. PICK a \in LabelsOf({n}) : \A b \in LabelsOf({m}) :
             Distance(a) < Distance(b) \/ (Distance(a) = Distance(b) /\ n < m)
        BY <1>6 DEF Nearer
    <2>2. PICK b \in LabelsOf({m}) : \A c \in LabelsOf({n}) :
             Distance(b) < Distance(c) \/ (Distance(b) = Distance(c) /\ m < n)
        BY <1>6 DEF Nearer
    <2>3. Distance(a) \in Nat /\ Distance(b) \in Nat /\ n \in Nat /\ m \in Nat
        BY <1>1, <1>2, <1>3
    <2>4. /\ Distance(a) < Distance(b) \/ (Distance(a) = Distance(b) /\ n < m)
          /\ Distance(b) < Distance(a) \/ (Distance(b) = Distance(a) /\ m < n)
        BY <2>1, <2>2
    <2>. QED
        BY <2>3, <2>4
<1>. QED
    BY <1>5, <1>6

\* Two answers for one key never rank two nodes of both rings differently.
LEMMA SameRanking ==
    ASSUME hashFn \in [LabelsOf(Nodes) -> Hashes], keyHash \in Hashes,
           NEW M \in Memberships, NEW P \in Memberships, NEW rf, NEW rg, NEW r, NEW s,
           Nearest(M, rf, r), Nearest(P, rg, s), NEW n \in M \cap P, NEW m \in M \cap P,
           Ahead(r, n, m), Ahead(s, m, n)
    PROVE  FALSE
<1>1. n \in Nodes /\ m \in Nodes
    BY LabelFacts
<1>2. /\ r \in Seq(M) /\ Len(r) \in Nat /\ DOMAIN r = 1..Len(r)
      /\ s \in Seq(P) /\ Len(s) \in Nat /\ DOMAIN s = 1..Len(s)
    BY LenProperties DEF Nearest
<1>3. PICK i \in 1..Len(r) : r[i] = n /\ \A j \in 1..i : r[j] # m
    BY <1>2 DEF Ahead
<1>4. PICK k \in 1..Len(s) : s[k] = m /\ \A j \in 1..k : s[j] # n
    BY <1>2 DEF Ahead
<1>5. ~Nearer(m, n)
    <2>1. \A j \in 1..(i - 1) : j \in 1..i
        BY <1>2
    <2>2. ~ \E j \in 1..(i - 1) : r[j] = m
        BY <1>3, <2>1
    <2>. QED
        BY <1>3, <2>2 DEF Nearest
<1>6. ~Nearer(n, m)
    <2>1. \A j \in 1..(k - 1) : j \in 1..k
        BY <1>2
    <2>2. ~ \E j \in 1..(k - 1) : s[j] = n
        BY <1>4, <2>1
    <2>. QED
        BY <1>4, <2>2 DEF Nearest
<1>7. n # m
    <2>1. i \in 1..i
        BY <1>2
    <2>. QED
        BY <1>3, <2>1
<1>. QED
    BY <1>1, <1>5, <1>6, <1>7, NearerFacts

\* A bigger ring asked for as many nodes answers with none of the smaller ring's nodes that the
\* smaller ring left out.
LEMMA SmallerRingKeeps ==
    ASSUME hashFn \in [LabelsOf(Nodes) -> Hashes], keyHash \in Hashes,
           NEW M \in Memberships, NEW P \in Memberships, P \subseteq M,
           NEW rf \in 1..MaxFactor, NEW r, NEW s, Nearest(M, rf, r), Nearest(P, rf, s)
    PROVE  Range(r) \cap P \subseteq Range(s)
<1>1. /\ r \in Seq(M) /\ Len(r) \in Nat /\ DOMAIN r = 1..Len(r)
      /\ s \in Seq(P) /\ Len(s) \in Nat /\ DOMAIN s = 1..Len(s)
    BY LenProperties DEF Nearest
<1>2. \A i \in 1..Len(s) : s[i] \in P /\ s[i] \in M /\ s[i] \in Nodes
    BY <1>1, ElementOfSeq, LabelFacts
<1>. SUFFICES ASSUME NEW j \in 1..Len(r), r[j] \in P, r[j] \notin Range(s)
              PROVE  FALSE
    BY <1>1 DEF Range
<1>. DEFINE n == r[j]
            l == Len(s)
            f == [i \in 1..l |-> s[i]]
<1>3. \A i \in 1..l : s[i] # n
    BY <1>1 DEF Range
<1>4. \A i \in 1..l : \E k \in 1..(j - 1) : r[k] = s[i]
    <2>. SUFFICES ASSUME NEW i \in 1..l PROVE \E k \in 1..(j - 1) : r[k] = s[i]
        OBVIOUS
    <2>1. \A k \in 1..(i - 1) : k \in 1..l
        BY <1>1
    <2>2. ~Nearer(n, s[i])
        BY <1>3, <2>1 DEF Nearest
    <2>3. Nearer(s[i], n)
        BY <1>2, <1>3, <2>2, LabelFacts, NearerFacts
    <2>. QED
        BY <1>2, <2>3 DEF Nearest
<1>5. IsFiniteSet(1..l) /\ Cardinality(1..l) = l
    <2>1. 1 \in Int /\ l \in Int /\ l \in Nat
        BY <1>1
    <2>2. IsFiniteSet(1..l) /\ Cardinality(1..l) = IF 1 > l THEN 0 ELSE l - 1 + 1
        BY <2>1, FS_Interval
    <2>. HIDE DEF l
    <2>. QED
        BY <2>1, <2>2
<1>6. IsFiniteSet(1..(j - 1)) /\ Cardinality(1..(j - 1)) = j - 1
    <2>. DEFINE h == j - 1
    <2>1. 1 \in Int /\ h \in Int /\ h \in Nat
        BY <1>1
    <2>. HIDE DEF h
    <2>2. IsFiniteSet(1..h) /\ Cardinality(1..h) = IF 1 > h THEN 0 ELSE h - 1 + 1
        BY <2>1, FS_Interval
    <2>3. Cardinality(1..h) = h
        BY <2>1, <2>2
    <2>. QED
        BY <2>2, <2>3 DEF h
<1>7. \A i, k \in 1..l : s[i] = s[k] => i = k
    BY DEF Nearest
<1>8. l <= j - 1
    <2>. DEFINE g == [i \in 1..l |-> CHOOSE k \in 1..(j - 1) : r[k] = s[i]]
    <2>1. \A i \in 1..l : g[i] \in 1..(j - 1) /\ r[g[i]] = s[i]
        BY <1>4
    <2>2. g \in [1..l -> 1..(j - 1)]
        BY <2>1
    <2>3. \A i, k \in 1..l : g[i] = g[k] => i = k
        BY <1>7, <2>1
    <2>4. g \in Injection(1..l, 1..(j - 1))
        <3>. HIDE DEF g
        <3>. QED
            BY <2>2, <2>3 DEF Injection, IsInjective
    <2>5. Cardinality(1..l) <= Cardinality(1..(j - 1))
        <3>. HIDE DEF g
        <3>. QED
            BY <1>5, <1>6, <2>4, FS_Injection
    <2>. QED
        BY <1>5, <1>6, <2>5
<1>9. /\ l = Target(P, rf) /\ Len(r) <= rf /\ j <= Len(r)
      /\ Target(P, rf) = Cardinality(P) \/ Target(P, rf) = rf
      /\ rf \in Nat
    BY <1>1, TargetFacts DEF Nearest
<1>10. l = Cardinality(P)
    BY <1>1, <1>8, <1>9
<1>11. f \in Injection(1..l, P)
    <2>1. f \in [1..l -> P]
        BY <1>2
    <2>2. \A i, k \in 1..l : f[i] = f[k] => i = k
        BY <1>7
    <2>. HIDE DEF f
    <2>. QED
        BY <2>1, <2>2 DEF Injection, IsInjective
<1>12. f \in Surjection(1..l, P)
    <2>1. IsFiniteSet(P)
        BY LabelFacts
    <2>. HIDE DEF f, l
    <2>. QED
        BY <1>5, <1>10, <1>11, <2>1, FS_Injection
<1>13. \E i \in 1..l : f[i] = n
    <2>. HIDE DEF f
    <2>. QED
        BY <1>12 DEF Surjection
<1>. QED
    BY <1>3, <1>13

-----------------------------------------------------------------------------
(* The steps                                                               *)

LEMMA OnlyCallInv ==
    ASSUME Inv, UNCHANGED <<hashFn, keyHash, members, entries, previous>>, CallOK'
    PROVE  Inv'
<1>1. RingOK'
    BY DEF Inv, RingOK, BuildRingEntries, LabelHash, LabelAt, Rank, Precedes
<1>2. \A n, m : Nearer(n, m)' <=> Nearer(n, m)
    BY DEF Nearer, Distance
<1>3. PreviousOK'
    BY <1>2 DEF Inv, PreviousOK, Nearest
<1>. QED
    BY <1>1, <1>3 DEF Inv

\* What the initial call is, whatever the ring.
LEMMA IdleFacts ==
    ASSUME RingOK
    PROVE  Idle \in CallType
<1>1. Length \in Nat \ {0} /\ Cardinality(members) \in Nat
    BY RingTyped, LabelFacts DEF RingOK
<1>2. 0 \in 0..Length /\ 0 \in 0..(Length - 1) /\ 0 \in 0..Cardinality(members)
      /\ 1 \in 1..MaxFactor
    BY <1>1, ParametersAssumption
<1>3. <<>> \in Seq(members)
    BY EmptySeq
<1>. QED
    BY <1>2, <1>3 DEF Idle, CallType, Phases

LEMMA StartInv ==
    ASSUME Inv, NEW rf \in 1..MaxFactor, Start(rf)
    PROVE  Inv'
<1>. DEFINE c == [Idle EXCEPT !.phase = "search", !.factor = rf,
                              !.target = Target(members, rf), !.hi = Length]
<1>1. RingOK /\ call' = c /\ UNCHANGED <<hashFn, keyHash, members, entries, previous>>
    BY DEF Inv, Start
<1>2. Target(members, rf) \in 0..Cardinality(members)
    <2>1. Target(members, rf) \in 1..Cardinality(members) /\ Cardinality(members) \in Nat
        BY <1>1, TargetFacts, LabelFacts DEF RingOK
    <2>. QED
        BY <2>1
<1>3. Length \in Nat \ {0} /\ Length \in 0..Length
    <2>1. Length \in Nat \ {0}
        BY <1>1, RingTyped
    <2>. QED
        BY <2>1
<1>4. /\ c \in CallType /\ c.phase = "search" /\ c.factor = rf /\ c.target = Target(members, rf)
      /\ c.lo = 0 /\ c.hi = Length /\ c.i = 0 /\ c.result = <<>>
    <2>1. Idle.lo = 0 /\ Idle.i = 0 /\ Idle.result = <<>>
        BY DEF Idle
    <2>2. Idle \in CallType
        BY <1>1, IdleFacts
    <2>. HIDE DEF Idle
    <2>. QED
        BY <1>2, <1>3, <2>1, <2>2 DEF CallType, Phases
<1>. HIDE DEF c
<1>5. c \in CallType'
    BY <1>1, <1>4 DEF CallType, Length
<1>6. Separates(0, Length)'
    <2>1. \A i \in 0..(0 - 1) : FALSE
        OBVIOUS
    <2>2. \A i \in Length..(Length - 1) : FALSE
        BY <1>3
    <2>3. Length' = Length
        BY <1>1 DEF Length
    <2>. QED
        BY <2>1, <2>2, <2>3 DEF Separates
<1>7. CallOK'
    <2>1. Length' = Length /\ Target(members, rf)' = Target(members, rf)
        BY <1>1 DEF Length, Target
    <2>2. call'.phase = "search" /\ call'.lo = 0 /\ call'.hi = Length' /\ call'.lo <= call'.hi
        BY <1>1, <1>3, <1>4, <2>1
    <2>3. Separates(call.lo, call.hi)'
        BY <1>6, <2>2 DEF Separates
    <2>4. call'.target = Target(members, call.factor)'
        BY <1>1, <1>4 DEF Target
    <2>. QED
        BY <1>1, <1>4, <1>5, <2>2, <2>3, <2>4 DEF CallOK
<1>. QED
    BY <1>1, <1>7, OnlyCallInv

LEMMA HalveInv ==
    ASSUME Inv, Halve
    PROVE  Inv'
<1>1. /\ RingOK /\ call \in CallType /\ call.phase = "search"
      /\ Separates(call.lo, call.hi) /\ call.lo < call.hi
      /\ call.target = Target(members, call.factor) /\ call.i = 0 /\ call.result = <<>>
      /\ UNCHANGED <<hashFn, keyHash, members, entries, previous>>
    BY DEF Inv, CallOK, Halve
<1>2. /\ Length \in Nat \ {0} /\ keyHash \in Nat
      /\ \A i \in 0..(Length - 1) : entries[i].hash \in Nat
      /\ \A i, j \in 0..(Length - 1) : i < j => entries[i].hash <= entries[j].hash
    BY <1>1, RingTyped
<1>3. call.lo \in 0..Length /\ call.hi \in 0..Length
    BY <1>1 DEF CallType
<1>4. Mid \in Nat /\ call.lo <= Mid /\ Mid < call.hi /\ Mid \in 0..(Length - 1)
    <2>1. \A l \in Nat : \A h \in 0..l, g \in 0..l :
             g < h => /\ (g + h) \div 2 \in Nat /\ g <= (g + h) \div 2 /\ (g + h) \div 2 < h
        OBVIOUS
    <2>2. Mid \in Nat /\ call.lo <= Mid /\ Mid < call.hi
        BY <1>1, <1>2, <1>3, <2>1 DEF Mid
    <2>. QED
        BY <1>2, <1>3, <2>2
<1>5. Length' = Length /\ \A f : Target(members, f)' = Target(members, f)
    BY <1>1 DEF Length, Target
<1>6. \A i \in 0..(Length - 1) : /\ i < call.lo => entries[i].hash < keyHash
                                 /\ i >= call.hi => ~(entries[i].hash < keyHash)
    BY <1>1, <1>2, <1>3 DEF Separates
<1>7. CASE entries[Mid].hash < keyHash
    <2>. DEFINE c == [call EXCEPT !.lo = Mid + 1]
    <2>1. call' = c
        BY <1>7 DEF Halve
    <2>2. Mid + 1 \in 0..Length /\ Mid + 1 <= call.hi
        BY <1>2, <1>3, <1>4
    <2>3. /\ c \in CallType /\ c.phase = "search" /\ c.lo = Mid + 1 /\ c.hi = call.hi
          /\ c.target = call.target /\ c.factor = call.factor /\ c.i = 0 /\ c.result = <<>>
        BY <1>1, <2>2 DEF CallType
    <2>. HIDE DEF c
    <2>4. \A i \in 0..((Mid + 1) - 1) : entries[i].hash < keyHash
        <3>. SUFFICES ASSUME NEW i \in 0..((Mid + 1) - 1) PROVE entries[i].hash < keyHash
            OBVIOUS
        <3>1. i \in 0..(Length - 1) /\ (i = Mid \/ i < Mid)
            BY <1>2, <1>4
        <3>. QED
            BY <1>2, <1>4, <1>7, <3>1
    <2>5. \A i \in call.hi..(Length - 1) : ~(entries[i].hash < keyHash)
        BY <1>1 DEF Separates
    <2>6. Separates(call.lo, call.hi)'
        BY <1>1, <1>5, <2>1, <2>3, <2>4, <2>5 DEF Separates
    <2>7. c \in CallType'
        BY <1>1, <1>5, <2>3 DEF CallType
    <2>8. CallOK'
        BY <1>1, <1>5, <2>1, <2>2, <2>3, <2>6, <2>7 DEF CallOK
    <2>. QED
        BY <1>1, <2>8, OnlyCallInv
<1>8. CASE ~(entries[Mid].hash < keyHash)
    <2>. DEFINE c == [call EXCEPT !.hi = Mid]
    <2>1. call' = c
        BY <1>8 DEF Halve
    <2>2. Mid \in 0..Length /\ call.lo <= Mid
        BY <1>2, <1>3, <1>4
    <2>3. /\ c \in CallType /\ c.phase = "search" /\ c.lo = call.lo /\ c.hi = Mid
          /\ c.target = call.target /\ c.factor = call.factor /\ c.i = 0 /\ c.result = <<>>
        BY <1>1, <2>2 DEF CallType
    <2>. HIDE DEF c
    <2>4. \A i \in Mid..(Length - 1) : ~(entries[i].hash < keyHash)
        <3>. SUFFICES ASSUME NEW i \in Mid..(Length - 1) PROVE ~(entries[i].hash < keyHash)
            OBVIOUS
        <3>1. i \in 0..(Length - 1) /\ (i = Mid \/ Mid < i)
            BY <1>2, <1>4
        <3>. QED
            BY <1>2, <1>4, <1>8, <3>1
    <2>5. \A i \in 0..(call.lo - 1) : entries[i].hash < keyHash
        BY <1>1 DEF Separates
    <2>6. Separates(call.lo, call.hi)'
        BY <1>1, <1>5, <2>1, <2>3, <2>4, <2>5 DEF Separates
    <2>7. c \in CallType'
        BY <1>1, <1>5, <2>3 DEF CallType
    <2>8. CallOK'
        BY <1>1, <1>5, <2>1, <2>2, <2>3, <2>6, <2>7 DEF CallOK
    <2>. QED
        BY <1>1, <2>8, OnlyCallInv
<1>. QED
    BY <1>7, <1>8

LEMMA FoundInv ==
    ASSUME Inv, Found
    PROVE  Inv'
<1>1. /\ RingOK /\ call \in CallType /\ call.phase = "search"
      /\ Separates(call.lo, call.hi) /\ call.lo <= call.hi /\ call.lo >= call.hi
      /\ call.target = Target(members, call.factor) /\ call.i = 0 /\ call.result = <<>>
      /\ UNCHANGED <<hashFn, keyHash, members, entries, previous>>
    BY DEF Inv, CallOK, Found
<1>2. Length \in Nat \ {0} /\ call.lo \in 0..Length /\ call.hi \in 0..Length
    BY <1>1, RingTyped DEF CallType
<1>3. call.lo = call.hi
    BY <1>1, <1>2
<1>. DEFINE start == IF call.lo >= Length THEN 0 ELSE call.lo
            c == [call EXCEPT !.phase = "walk", !.start = start]
<1>4. call' = c
    BY DEF Found
<1>5. start \in 0..(Length - 1) /\ start = IF call.lo = Length THEN 0 ELSE call.lo
    BY <1>2
<1>. HIDE DEF start
<1>6. /\ c \in CallType /\ c.phase = "walk" /\ c.start = start /\ c.factor = call.factor
      /\ c.target = call.target /\ c.i = 0 /\ c.result = <<>>
    BY <1>1, <1>5 DEF CallType, Phases
<1>. HIDE DEF c
<1>7. Length' = Length /\ Target(members, call.factor)' = Target(members, call.factor)
      /\ c \in CallType'
    BY <1>1, <1>4, <1>6 DEF Length, Target, CallType
<1>8. IsStart'
    <2>1. /\ \A i \in 0..(call.lo - 1) : entries'[i].hash < keyHash'
          /\ \A i \in call.lo..(Length' - 1) : ~(entries'[i].hash < keyHash')
        BY <1>1, <1>3, <1>7 DEF Separates
    <2>2. call.lo \in 0..Length' /\ call'.start = IF call.lo = Length' THEN 0 ELSE call.lo
        BY <1>2, <1>4, <1>5, <1>6, <1>7
    <2>. QED
        BY <2>1, <2>2 DEF IsStart, Separates
<1>9. WalkOK'
    <2>1. Len(<<>>) = 0
        BY EmptySeq
    <2>2. call.target \in 0..Cardinality(members) /\ Cardinality(members) \in Nat
        BY <1>1, LabelFacts DEF CallType, RingOK
    <2>3. call'.target = Target(members, call.factor)'
        BY <1>1, <1>4, <1>6 DEF Target
    <2>. QED
        BY <1>4, <1>6, <1>8, <2>1, <2>2, <2>3 DEF WalkOK
<1>10. CallOK'
    BY <1>4, <1>6, <1>7, <1>9 DEF CallOK
<1>. QED
    BY <1>1, <1>10, OnlyCallInv

LEMMA ReturnInv ==
    ASSUME Inv, Return
    PROVE  Inv'
<1>1. /\ RingOK /\ call \in CallType /\ WalkOK /\ ~Walking
      /\ UNCHANGED <<hashFn, keyHash, members, entries, previous>>
    BY DEF Inv, CallOK, Return
<1>2. Nearest(members, call.factor, call.result) /\ Lookup = call.result[1]
    BY <1>1, WalkEnds
<1>. DEFINE c == [call EXCEPT !.phase = "done"]
<1>3. call' = c
    BY DEF Return
<1>4. /\ c \in CallType /\ c.phase = "done" /\ c.factor = call.factor /\ c.result = call.result
      /\ c.start = call.start
    BY <1>1 DEF CallType, Phases
<1>. HIDE DEF c
<1>5. \A n, m : Nearer(n, m)' <=> Nearer(n, m)
    BY <1>1 DEF Nearer, Distance
<1>6. Nearest(members, call.factor, call.result)'
    BY <1>1, <1>2, <1>3, <1>4, <1>5 DEF Nearest, Target
<1>7. Lookup' = call'.result[1]
    BY <1>1, <1>2, <1>3, <1>4 DEF Lookup
<1>8. c \in CallType'
    BY <1>1, <1>4 DEF CallType, Length
<1>9. CallOK'
    BY <1>3, <1>4, <1>6, <1>7, <1>8 DEF CallOK
<1>. QED
    BY <1>1, <1>9, OnlyCallInv

\* What WalkOK says of a result r after i steps.
Walked(i, r) ==
    /\ \A j, k \in 1..Len(r) : r[j] = r[k] => j = k
    /\ \A q \in 0..(i - 1) : \E k \in 1..Len(r) : NodeAt(q) = r[k]
    /\ \A j \in 1..Len(r) : \E p \in 0..(i - 1) :
         /\ NodeAt(p) = r[j]
         /\ \A q \in 0..(p - 1) : \E k \in 1..(j - 1) : NodeAt(q) = r[k]
         /\ \A k \in 1..(j - 1) : \E q \in 0..(p - 1) : NodeAt(q) = r[k]

LEMMA WalkedOn ==
    ASSUME NEW i \in Nat, NEW r, Walked(i, r), \E k \in 1..Len(r) : NodeAt(i) = r[k]
    PROVE  Walked(i + 1, r)
<1>1. \A q \in 0..((i + 1) - 1) : q \in 0..(i - 1) \/ q = i
    OBVIOUS
<1>2. \A q \in 0..(i - 1) : q \in 0..((i + 1) - 1)
    OBVIOUS
<1>3. \A q \in 0..((i + 1) - 1) : \E k \in 1..Len(r) : NodeAt(q) = r[k]
    BY <1>1 DEF Walked
<1>4. ASSUME NEW j \in 1..Len(r)
      PROVE  \E p \in 0..((i + 1) - 1) :
               /\ NodeAt(p) = r[j]
               /\ \A q \in 0..(p - 1) : \E k \in 1..(j - 1) : NodeAt(q) = r[k]
               /\ \A k \in 1..(j - 1) : \E q \in 0..(p - 1) : NodeAt(q) = r[k]
    <2>1. PICK p \in 0..(i - 1) :
               /\ NodeAt(p) = r[j]
               /\ \A q \in 0..(p - 1) : \E k \in 1..(j - 1) : NodeAt(q) = r[k]
               /\ \A k \in 1..(j - 1) : \E q \in 0..(p - 1) : NodeAt(q) = r[k]
        BY DEF Walked
    <2>. QED
        BY <1>2, <2>1
<1>. QED
    BY <1>3, <1>4 DEF Walked

LEMMA WalkedToNew ==
    ASSUME NEW i \in Nat, NEW r, Walked(i, r), Len(r) \in Nat,
           \A k \in 1..Len(r) : r[k] # NodeAt(i),
           NEW r2, Len(r2) = Len(r) + 1, \A k \in 1..Len(r) : r2[k] = r[k],
           r2[Len(r) + 1] = NodeAt(i)
    PROVE  Walked(i + 1, r2)
<1>. DEFINE l == Len(r)
<1>1. /\ \A q \in 0..((i + 1) - 1) : q \in 0..(i - 1) \/ q = i
      /\ \A q \in 0..(i - 1) : q \in 0..((i + 1) - 1)
      /\ i \in 0..((i + 1) - 1)
    OBVIOUS
<1>2. /\ \A k \in 1..Len(r2) : k \in 1..l \/ k = l + 1
      /\ \A k \in 1..l : k \in 1..Len(r2) /\ k # l + 1
      /\ l + 1 \in 1..Len(r2)
    OBVIOUS
<1>3. /\ \A j, k \in 1..l : r[j] = r[k] => j = k
      /\ \A q \in 0..(i - 1) : \E k \in 1..l : NodeAt(q) = r[k]
      /\ \A j \in 1..l : \E p \in 0..(i - 1) :
           /\ NodeAt(p) = r[j]
           /\ \A q \in 0..(p - 1) : \E k \in 1..(j - 1) : NodeAt(q) = r[k]
           /\ \A k \in 1..(j - 1) : \E q \in 0..(p - 1) : NodeAt(q) = r[k]
    BY DEF Walked
<1>4. ASSUME NEW j \in 1..Len(r2), NEW k \in 1..Len(r2), r2[j] = r2[k] PROVE j = k
    <2>1. CASE j \in 1..l /\ k \in 1..l
        BY <1>3, <1>4, <2>1
    <2>2. CASE j = l + 1 /\ k \in 1..l
        BY <1>4, <2>2
    <2>3. CASE j \in 1..l /\ k = l + 1
        BY <1>4, <2>3
    <2>. QED
        BY <1>2, <2>1, <2>2, <2>3
<1>5. ASSUME NEW q \in 0..((i + 1) - 1) PROVE \E k \in 1..Len(r2) : NodeAt(q) = r2[k]
    <2>1. CASE q = i
        BY <1>2, <2>1
    <2>2. CASE q \in 0..(i - 1)
        <3>1. PICK k \in 1..l : NodeAt(q) = r[k]
            BY <1>3, <2>2
        <3>2. k \in 1..Len(r2) /\ r2[k] = r[k]
            BY <1>2
        <3>. QED
            BY <3>1, <3>2
    <2>. QED
        BY <1>1, <2>1, <2>2
<1>6. ASSUME NEW j \in 1..Len(r2)
      PROVE  \E p \in 0..((i + 1) - 1) :
               /\ NodeAt(p) = r2[j]
               /\ \A q \in 0..(p - 1) : \E k \in 1..(j - 1) : NodeAt(q) = r2[k]
               /\ \A k \in 1..(j - 1) : \E q \in 0..(p - 1) : NodeAt(q) = r2[k]
    <2>1. CASE j = l + 1
        <3>1. \A k : k \in 1..(j - 1) <=> k \in 1..l
            BY <2>1
        <3>2. \A q \in 0..(i - 1) : \E k \in 1..(j - 1) : NodeAt(q) = r2[k]
            <4>. SUFFICES ASSUME NEW q \in 0..(i - 1)
                          PROVE  \E k \in 1..(j - 1) : NodeAt(q) = r2[k]
                OBVIOUS
            <4>1. PICK k \in 1..l : NodeAt(q) = r[k]
                BY <1>3
            <4>2. k \in 1..(j - 1) /\ r2[k] = r[k]
                BY <3>1
            <4>. QED
                BY <4>1, <4>2
        <3>3. \A k \in 1..(j - 1) : \E q \in 0..(i - 1) : NodeAt(q) = r2[k]
            <4>. SUFFICES ASSUME NEW k \in 1..l PROVE \E q \in 0..(i - 1) : NodeAt(q) = r2[k]
                BY <3>1
            <4>1. PICK q \in 0..(i - 1) : NodeAt(q) = r[k]
                BY <1>3
            <4>2. r2[k] = r[k]
                OBVIOUS
            <4>. QED
                BY <4>1, <4>2
        <3>. QED
            BY <1>1, <2>1, <3>2, <3>3
    <2>2. CASE j \in 1..l
        <3>1. PICK p \in 0..(i - 1) :
               /\ NodeAt(p) = r[j]
               /\ \A q \in 0..(p - 1) : \E k \in 1..(j - 1) : NodeAt(q) = r[k]
               /\ \A k \in 1..(j - 1) : \E q \in 0..(p - 1) : NodeAt(q) = r[k]
            BY <1>3, <2>2
        <3>2. NodeAt(p) = r2[j] /\ p \in 0..((i + 1) - 1)
            BY <1>1, <2>2, <3>1
        <3>3. \A k \in 1..(j - 1) : k \in 1..l
            BY <2>2
        <3>4. \A k \in 1..(j - 1) : r2[k] = r[k]
            BY <3>3
        <3>. QED
            BY <3>1, <3>2, <3>4
    <2>. QED
        BY <1>2, <2>1, <2>2
<1>. QED
    BY <1>4, <1>5, <1>6 DEF Walked

LEMMA VisitInv ==
    ASSUME Inv, Visit
    PROVE  Inv'
<1>. DEFINE r == call.result
            i == call.i
            x == NodeAt(i)
            r2 == IF x \in Seen THEN r ELSE Append(r, x)
            c == [call EXCEPT !.i = @ + 1, !.result = r2]
<1>1. /\ RingOK /\ call \in CallType /\ WalkOK /\ call.phase = "walk"
      /\ i < Length /\ Len(r) < call.target
      /\ UNCHANGED <<hashFn, keyHash, members, entries, previous>> /\ call' = c
    BY DEF Inv, CallOK, Visit, Walking
<1>2. /\ Length \in Nat \ {0} /\ i \in 0..(Length - 1) /\ i + 1 \in 0..Length /\ i \in Nat
      /\ call.start \in 0..(Length - 1) /\ r \in Seq(members) /\ Len(r) \in Nat
      /\ DOMAIN r = 1..Len(r) /\ call.target \in Nat
    <2>1. call.target \in 0..Cardinality(members) /\ Cardinality(members) \in Nat
        BY <1>1, LabelFacts DEF CallType, RingOK
    <2>2. Length \in Nat \ {0} /\ i \in 0..Length
        BY <1>1, RingTyped DEF CallType
    <2>3. i \in 0..(Length - 1) /\ i + 1 \in 0..Length /\ i \in Nat
        BY <1>1, <2>2
    <2>4. call.start \in 0..(Length - 1) /\ r \in Seq(members)
        BY <1>1 DEF CallType
    <2>5. Len(r) \in Nat /\ DOMAIN r = 1..Len(r)
        BY <2>4, LenProperties
    <2>. QED
        BY <2>1, <2>2, <2>3, <2>4, <2>5
<1>3. x \in members
    <2>1. (call.start + i) % Length \in 0..(Length - 1)
        BY <1>2, TurnIndex
    <2>. QED
        BY <1>1, <2>1, RingTyped DEF NodeAt
<1>4. IsStart /\ call.target = Target(members, call.factor) /\ Walked(i, r)
    BY <1>1 DEF WalkOK, FirstMet, Walked
<1>5. x \in Seen <=> \E k \in 1..Len(r) : r[k] = x
    BY <1>2 DEF Seen, Range
<1>6. r2 \in Seq(members) /\ Len(r2) <= call.target /\ Walked(i + 1, r2)
    <2>1. CASE x \in Seen
        <3>1. r2 = r
            BY <2>1
        <3>. HIDE DEF r2, r, i
        <3>2. Walked(i + 1, r)
            BY <1>2, <1>4, <1>5, <2>1, WalkedOn
        <3>. QED
            BY <1>1, <1>2, <3>1, <3>2
    <2>2. CASE x \notin Seen
        <3>1. r2 = Append(r, x)
            BY <2>2
        <3>. HIDE DEF r2, r, i
        <3>2. /\ r2 \in Seq(members) /\ Len(r2) = Len(r) + 1
              /\ \A k \in 1..Len(r) : r2[k] = r[k]
              /\ r2[Len(r) + 1] = x
            BY <1>2, <1>3, <3>1, AppendProperties
        <3>3. Walked(i + 1, r2)
            BY <1>2, <1>4, <1>5, <2>2, <3>2, WalkedToNew
        <3>. QED
            BY <1>1, <1>2, <3>2, <3>3
    <2>. QED
        BY <2>1, <2>2
<1>. HIDE DEF r2
<1>7. /\ c \in CallType /\ c.phase = "walk" /\ c.start = call.start /\ c.factor = call.factor
      /\ c.target = call.target /\ c.i = i + 1 /\ c.result = r2
    BY <1>1, <1>2, <1>6 DEF CallType
<1>. HIDE DEF c
<1>8. Length' = Length /\ Target(members, call.factor)' = Target(members, call.factor)
      /\ c \in CallType'
    BY <1>1, <1>7 DEF Length, Target, CallType
<1>9. IsStart'
    BY <1>1, <1>4, <1>7, <1>8 DEF IsStart, Separates
<1>10. \A q : NodeAt(q)' = NodeAt(q)
    BY <1>1, <1>7, <1>8 DEF NodeAt
<1>. HIDE DEF x, i, r
<1>11. WalkOK'
    <2>1. call'.target = call.target /\ call'.i = i + 1 /\ call'.result = r2
          /\ call'.target = Target(members, call.factor)'
        BY <1>1, <1>4, <1>7, <1>8
    <2>2. \A p, j : FirstMet(p, j)' <=>
                   /\ NodeAt(p) = r2[j]
                   /\ \A q \in 0..(p - 1) : \E k \in 1..(j - 1) : NodeAt(q) = r2[k]
                   /\ \A k \in 1..(j - 1) : \E q \in 0..(p - 1) : NodeAt(q) = r2[k]
        BY <1>10, <2>1 DEF FirstMet
    <2>3. /\ \A j, k \in 1..Len(r2) : r2[j] = r2[k] => j = k
          /\ \A q \in 0..((i + 1) - 1) : \E k \in 1..Len(r2) : NodeAt(q) = r2[k]
          /\ \A j \in 1..Len(r2) : \E p \in 0..((i + 1) - 1) : FirstMet(p, j)'
        BY <1>6, <2>2 DEF Walked
    <2>. QED
        BY <1>6, <1>9, <1>10, <2>1, <2>3 DEF WalkOK
<1>12. CallOK'
    BY <1>1, <1>7, <1>8, <1>11 DEF CallOK
<1>. QED
    BY <1>1, <1>12, OnlyCallInv

\* The old ring's answer is kept: what is known of it is known of `previous` from now on.
LEMMA NewRingInv ==
    ASSUME Inv, NEW M \in Memberships, NewRing(M)
    PROVE  Inv'
<1>1. /\ RingOK /\ call \in CallType /\ Nearest(members, call.factor, call.result)
      /\ members' = M /\ entries' = BuildRingEntries(M) /\ call' = Idle
      /\ UNCHANGED <<hashFn, keyHash>>
      /\ previous' = [members |-> members, factor |-> call.factor, result |-> call.result]
    BY DEF Inv, CallOK, NewRing
<1>2. RingOK'
    BY <1>1 DEF RingOK, BuildRingEntries, LabelHash, LabelAt, Rank, Precedes
<1>3. CallOK'
    <2>1. Idle \in CallType'
        <3>1. Length' = Cardinality(LabelsOf(M))
            BY <1>1 DEF Length
        <3>2. Cardinality(LabelsOf(M)) \in Nat \ {0} /\ Cardinality(M) \in Nat
            BY LabelFacts
        <3>3. 0 \in 0..Length' /\ 0 \in 0..(Length' - 1) /\ 0 \in 0..Cardinality(M)
              /\ 1 \in 1..MaxFactor
            BY <3>1, <3>2, ParametersAssumption
        <3>4. <<>> \in Seq(M)
            BY EmptySeq
        <3>. QED
            BY <1>1, <3>3, <3>4 DEF Idle, CallType, Phases
    <2>2. Idle.phase = "idle"
        BY DEF Idle
    <2>. QED
        BY <1>1, <2>1, <2>2 DEF CallOK
<1>4. \A n, m : Nearer(n, m)' <=> Nearer(n, m)
    BY <1>1 DEF Nearer, Distance
<1>5. PreviousOK'
    <2>1. call.result \in Seq(Nodes)
        <3>1. call.result \in Seq(members) /\ members \subseteq Nodes
            BY <1>1, LabelFacts DEF CallType, RingOK
        <3>. QED
            BY <3>1, SeqMonotonic
    <2>2. members \in Memberships /\ call.factor \in 1..MaxFactor
        BY <1>1 DEF RingOK, CallType
    <2>3. previous' \in [members : Memberships, factor : 1..MaxFactor, result : Seq(Nodes)]
        BY <1>1, <2>1, <2>2
    <2>4. /\ previous'.members = members /\ previous'.factor = call.factor
          /\ previous'.result = call.result
        BY <1>1
    <2>5. Nearest(previous.members, previous.factor, previous.result)'
        BY <1>1, <1>4, <2>4 DEF Nearest
    <2>. QED
        BY <2>3, <2>5 DEF PreviousOK
<1>. QED
    BY <1>2, <1>3, <1>5 DEF Inv

-----------------------------------------------------------------------------
(* The theorems                                                            *)

LEMMA InitInv == Init => Inv
<1>. SUFFICES ASSUME Init PROVE Inv
    OBVIOUS
<1>1. RingOK
    BY NodesAssumption DEF Init, RingOK, Memberships
<1>2. CallOK
    <2>1. Idle.phase = "idle"
        BY DEF Idle
    <2>. QED
        BY <1>1, <2>1, IdleFacts DEF Init, CallOK
<1>3. PreviousOK
    <2>1. Nodes \in Memberships
        BY NodesAssumption DEF Memberships
    <2>3. 1 \in 1..MaxFactor
        BY ParametersAssumption
    <2>2. <<>> \in Seq(Nodes)
        BY EmptySeq
    <2>. QED
        BY <2>1, <2>2, <2>3 DEF Init, PreviousOK
<1>. QED
    BY <1>1, <1>2, <1>3 DEF Inv

LEMMA NextInv == Inv /\ [Next]_vars => Inv'
<1>. SUFFICES ASSUME Inv, [Next]_vars PROVE Inv'
    OBVIOUS
<1>1. CASE UNCHANGED vars
    <2>1. RingOK'
        BY <1>1 DEF vars, Inv, RingOK, BuildRingEntries, LabelHash, LabelAt, Rank, Precedes
    <2>2. \A n, m : Nearer(n, m)' <=> Nearer(n, m)
        BY <1>1 DEF vars, Nearer, Distance
    <2>3. PreviousOK'
        BY <1>1, <2>2 DEF vars, Inv, PreviousOK, Nearest
    <2>4. Length' = Length
        BY <1>1 DEF vars, Length
    <2>5. \A q : NodeAt(q)' = NodeAt(q)
        BY <1>1, <2>4 DEF vars, NodeAt
    <2>6. \A p, j : FirstMet(p, j)' <=> FirstMet(p, j)
        BY <1>1, <2>5 DEF vars, FirstMet
    <2>7. IsStart' <=> IsStart
        BY <1>1, <2>4 DEF vars, IsStart, Separates
    <2>8. WalkOK' <=> WalkOK
        BY <1>1, <2>5, <2>6, <2>7 DEF vars, WalkOK, Target
    <2>9. CallOK'
        <3>1. call' \in CallType'
            BY <1>1, <2>4 DEF vars, Inv, CallOK, CallType
        <3>2. call.phase = "search" => /\ Separates(call.lo, call.hi)' /\ call'.lo <= call'.hi
                                       /\ call'.target = Target(members, call.factor)'
                                       /\ call'.i = 0 /\ call'.result = <<>>
            BY <1>1, <2>4 DEF vars, Inv, CallOK, Separates, Target
        <3>3. call.phase = "done" => /\ Nearest(members, call.factor, call.result)'
                                     /\ Lookup' = call'.result[1]
            <4>. SUFFICES ASSUME call.phase = "done"
                          PROVE  /\ Nearest(members, call.factor, call.result)'
                                 /\ Lookup' = call'.result[1]
                OBVIOUS
            <4>1. Nearest(members, call.factor, call.result) /\ Lookup = call.result[1]
                BY DEF Inv, CallOK
            <4>2. UNCHANGED <<members, call, entries>>
                BY <1>1 DEF vars
            <4>3. Nearest(members, call.factor, call.result)'
                BY <2>2, <4>1, <4>2 DEF Nearest, Target
            <4>. QED
                BY <4>1, <4>2, <4>3 DEF Lookup
        <3>. QED
            BY <1>1, <2>8, <3>1, <3>2, <3>3 DEF vars, Inv, CallOK
    <2>. QED
        BY <2>1, <2>3, <2>9 DEF Inv
<1>2. ASSUME NEW M \in Memberships, NewRing(M) PROVE Inv'
    BY <1>2, NewRingInv
<1>3. ASSUME NEW rf \in 1..MaxFactor, Start(rf) PROVE Inv'
    BY <1>3, StartInv
<1>4. CASE Halve
    BY <1>4, HalveInv
<1>5. CASE Found
    BY <1>5, FoundInv
<1>6. CASE Visit
    BY <1>6, VisitInv
<1>7. CASE Return
    BY <1>7, ReturnInv
<1>. QED
    BY <1>1, <1>2, <1>3, <1>4, <1>5, <1>6, <1>7 DEF Next

\* Every state of every run satisfies the inductive invariant: what the binary search has left
\* out, what the walk has met, and what was found of every ring's answer.
THEOREM Safety == Spec => []Inv
BY InitInv, NextInv, PTL DEF Spec

\* The search and the walk stay within the entries, and the answer within the members.
THEOREM TypeCorrect == Spec => []TypeOK
<1>1. Inv => TypeOK
    <2>. SUFFICES ASSUME Inv PROVE TypeOK
        OBVIOUS
    <2>1. entries \in [0..(Length - 1) -> [hash : Hashes, node : members]]
        BY RingTyped DEF Inv
    <2>2. /\ call.phase \in Phases /\ call.target \in 0..Cardinality(members)
          /\ call.lo \in 0..Length /\ call.hi \in 0..Length
          /\ call.start \in 0..(Length - 1) /\ call.i \in 0..Length
          /\ call.result \in Seq(members) /\ call.factor \in 1..MaxFactor
          /\ DOMAIN call = {"phase", "factor", "target", "lo", "hi", "start", "i", "result"}
        BY DEF Inv, CallOK, CallType
    <2>3. /\ DOMAIN previous = {"members", "factor", "result"}
          /\ previous.members \in Memberships /\ previous.factor \in 1..MaxFactor
          /\ previous.result \in Seq(Nodes)
        BY DEF Inv, PreviousOK
    <2>. QED
        BY <2>1, <2>2, <2>3 DEF Inv, RingOK, TypeOK
<1>. QED
    BY Safety, <1>1, PTL

\* The numbers below one are as many as their count says.
LEMMA BelowFacts ==
    ASSUME NEW j \in Nat \ {0}, NEW s, \A i, k \in 1..j : s[i] = s[k] => i = k,
           NEW S, \A n : n \in S <=> \E k \in 1..(j - 1) : s[k] = n
    PROVE  Cardinality(S) = j - 1
<1>. DEFINE h == j - 1
            f == [k \in 1..h |-> s[k]]
<1>1. h \in Nat /\ 1 \in Int /\ h \in Int /\ \A k \in 1..h : k \in 1..j
    OBVIOUS
<1>2. f \in [1..h -> S]
    OBVIOUS
<1>3. \A i, k \in 1..h : f[i] = f[k] => i = k
    BY <1>1
<1>4. \A n \in S : \E k \in 1..h : f[k] = n
    OBVIOUS
<1>. HIDE DEF f, h
<1>5. f \in Injection(1..h, S) /\ f \in Surjection(1..h, S)
    BY <1>2, <1>3, <1>4 DEF Injection, IsInjective, Surjection
<1>6. IsFiniteSet(1..h) /\ Cardinality(1..h) = h
    <2>1. IsFiniteSet(1..h) /\ Cardinality(1..h) = IF 1 > h THEN 0 ELSE h - 1 + 1
        BY <1>1, FS_Interval
    <2>. QED
        BY <1>1, <2>1
<1>7. Cardinality(S) = Cardinality(1..h)
    BY <1>5, <1>6, FS_Surjection
<1>. QED
    BY <1>6, <1>7 DEF h

\* The binary search, the wrap, the sort's tie-break and the walk's duplicate check agree: for any
\* hashes, members and factor, the answer is the nearest nodes clockwise, nearest first, and
\* lookup names the first of them (hash-ring.js:53-141).
THEOREM ReplicasAreNearestHolds == Spec => []ReplicasAreNearest
<1>1. Inv => ReplicasAreNearest
    <2>. SUFFICES ASSUME Inv, call.phase = "done"
                  PROVE  /\ Len(call.result) = Target(members, call.factor)
                         /\ \A j \in DOMAIN call.result :
                              Cardinality({n \in members : Nearer(n, call.result[j])}) = j - 1
                         /\ Lookup = call.result[1]
        BY DEF ReplicasAreNearest
    <2>. DEFINE s == call.result
    <2>1. Nearest(members, call.factor, s) /\ Lookup = s[1]
        BY DEF Inv, CallOK
    <2>2. s \in Seq(members) /\ Len(s) \in Nat /\ DOMAIN s = 1..Len(s)
        BY <2>1, LenProperties DEF Nearest
    <2>3. ASSUME NEW j \in 1..Len(s)
          PROVE  Cardinality({n \in members : Nearer(n, s[j])}) = j - 1
        <3>. DEFINE S == {n \in members : Nearer(n, s[j])}
        <3>1. \A k \in 1..j : k \in 1..Len(s)
            BY <2>2
        <3>2. \A k \in 1..(j - 1) : k \in 1..Len(s)
            BY <2>2
        <3>3. \A i, k \in 1..j : s[i] = s[k] => i = k
            BY <2>1, <3>1 DEF Nearest
        <3>4. \A n : n \in S <=> \E k \in 1..(j - 1) : s[k] = n
            <4>1. \A k \in 1..(j - 1) : s[k] \in members
                BY <2>2, <3>2, ElementOfSeq
            <4>. QED
                BY <2>1, <4>1 DEF Nearest
        <3>. HIDE DEF S, s
        <3>5. j \in Nat \ {0}
            BY <2>2
        <3>6. Cardinality(S) = j - 1
            BY <3>3, <3>4, <3>5, BelowFacts
        <3>. QED
            BY <3>6 DEF S
    <2>. QED
        BY <2>1, <2>2, <2>3 DEF Nearest
<1>. QED
    BY Safety, <1>1, PTL

\* What consistent hashing is for: whatever changes the members, the answers of two rings in a
\* row rank their common nodes alike, and differ only by what joined or left.
THEOREM MinimalRemapHolds == Spec => []MinimalRemap
<1>1. Inv => MinimalRemap
    <2>. SUFFICES ASSUME Inv, call.phase = "done", previous.result # <<>>
                  PROVE  /\ \A n, m \in members \cap previous.members :
                              Ahead(call.result, n, m) => ~Ahead(previous.result, m, n)
                         /\ (call.factor = previous.factor /\ previous.members \subseteq members) =>
                              Range(call.result) \cap previous.members \subseteq
                                Range(previous.result)
                         /\ (call.factor = previous.factor /\ members \subseteq previous.members) =>
                              Range(previous.result) \cap members \subseteq Range(call.result)
        BY DEF MinimalRemap
    <2>1. /\ hashFn \in [LabelsOf(Nodes) -> Hashes] /\ keyHash \in Hashes
          /\ members \in Memberships /\ previous.members \in Memberships
          /\ call.factor \in 1..MaxFactor /\ previous.factor \in 1..MaxFactor
        BY DEF Inv, RingOK, CallOK, CallType, PreviousOK
    <2>2. /\ Nearest(members, call.factor, call.result)
          /\ Nearest(previous.members, previous.factor, previous.result)
        BY DEF Inv, CallOK, PreviousOK
    <2>3. \A n, m \in members \cap previous.members :
            Ahead(call.result, n, m) => ~Ahead(previous.result, m, n)
        BY <2>1, <2>2, SameRanking
    <2>4. (call.factor = previous.factor /\ previous.members \subseteq members) =>
            Range(call.result) \cap previous.members \subseteq Range(previous.result)
        BY <2>1, <2>2, SmallerRingKeeps
    <2>5. (call.factor = previous.factor /\ members \subseteq previous.members) =>
            Range(previous.result) \cap members \subseteq Range(call.result)
        BY <2>1, <2>2, SmallerRingKeeps
    <2>. QED
        BY <2>3, <2>4, <2>5
<1>. QED
    BY Safety, <1>1, PTL
=============================================================================
