-------------------------- MODULE CacheStoreProofs --------------------------
(***************************************************************************)
(* The safety invariants of CacheStore, for all keys, sizes and limits.    *)
(*                                                                         *)
(* CacheOK is what every method keeps of the cache record whatever the     *)
(* limits; with it the bytes of the entries add up, so that evicting all   *)
(* the others always makes room (RoomIsMade), and both limits hold.        *)
(* Then what an eviction takes (LruEviction), and that every method keeps   *)
(* what TtlCache promises of it (PromisedCache).                           *)
(***************************************************************************)
EXTENDS CacheStoreProperties, KeyOrderProofs, FiniteSetTheorems

CacheOK(c) ==
    /\ CacheType(c)
    /\ IsTotalOrder(c.lru) /\ Members(c.lru) = Stored(c)
    /\ IsTotalOrder(c.mapOrder) /\ Members(c.mapOrder) = Stored(c)
    /\ c.memoryBytes = BytesOf(c.entries, Stored(c))

WithinLimits(c) ==
    /\ MaxEntries # Null => Cardinality(Stored(c)) <= MaxEntries
    /\ MaxMemoryBytes # Null => c.memoryBytes <= MaxMemoryBytes

Inv == TypeOK /\ CacheOK(cache) /\ WithinLimits(cache) /\ NoLateRejection

-----------------------------------------------------------------------------
(* Sums of sizes: BytesOf is additive over disjoint sets of keys.          *)

Sized(entries, K) == \A k \in K : entries[k].sizeBytes \in Nat

\* One entry's cells are as many as its bytes.
LEMMA EntryCells ==
    ASSUME NEW k, NEW n \in Nat
    PROVE  IsFiniteSet({k} \X (1..n)) /\ Cardinality({k} \X (1..n)) = n
<1>1. IsFiniteSet({k}) /\ Cardinality({k}) = 1
    BY FS_Singleton
<1>2. IsFiniteSet(1..n) /\ Cardinality(1..n) = n
    <2>1. 1 \in Int /\ n \in Int
        OBVIOUS
    <2>2. IsFiniteSet(1..n) /\ Cardinality(1..n) = IF 1 > n THEN 0 ELSE n - 1 + 1
        BY <2>1, FS_Interval, Zenon
    <2>. QED
        BY <2>2
<1>3. IsFiniteSet({k} \X (1..n)) /\ Cardinality({k} \X (1..n)) = Cardinality({k}) * Cardinality(1..n)
    BY <1>1, <1>2, FS_Product, Zenon
<1>. QED
    BY <1>1, <1>2, <1>3

LEMMA CellsFinite ==
    ASSUME NEW K, IsFiniteSet(K), NEW entries, Sized(entries, K)
    PROVE  IsFiniteSet(CellsOf(entries, K))
<1> DEFINE f == [k \in K |-> {k} \X (1..entries[k].sizeBytes)]
           cells == {{k} \X (1..entries[k].sizeBytes) : k \in K}
<1>1. f \in Surjection(K, cells)
    BY DEF Surjection
<1>2. IsFiniteSet(cells)
    BY <1>1, FS_Surjection
<1>3. ASSUME NEW k \in K
      PROVE  IsFiniteSet({k} \X (1..entries[k].sizeBytes))
    BY EntryCells DEF Sized
<1>4. \A cell \in cells : IsFiniteSet(cell)
    BY <1>3
<1>. QED
    BY <1>2, <1>4, FS_UNION DEF CellsOf

LEMMA BytesNat ==
    ASSUME NEW K, IsFiniteSet(K), NEW entries, Sized(entries, K)
    PROVE  BytesOf(entries, K) \in Nat
BY CellsFinite, FS_CardinalityType DEF BytesOf, CellsOf

LEMMA BytesOfNone == \A entries : BytesOf(entries, {}) = 0
<1> SUFFICES ASSUME NEW entries
             PROVE  BytesOf(entries, {}) = 0
    OBVIOUS
<1>1. CellsOf(entries, {}) = {}
    BY DEF CellsOf
<1>. QED
    BY <1>1, FS_EmptySet DEF BytesOf

LEMMA BytesOfOne ==
    ASSUME NEW k, NEW entries, entries[k].sizeBytes \in Nat
    PROVE  BytesOf(entries, {k}) = entries[k].sizeBytes
<1>1. CellsOf(entries, {k}) = {k} \X (1..entries[k].sizeBytes)
    BY DEF CellsOf
<1>. QED
    BY <1>1, EntryCells DEF BytesOf

LEMMA BytesAdd ==
    ASSUME NEW A, NEW B, IsFiniteSet(A), IsFiniteSet(B), A \cap B = {},
           NEW entries, Sized(entries, A), Sized(entries, B)
    PROVE  /\ BytesOf(entries, A \cup B) = BytesOf(entries, A) + BytesOf(entries, B)
           /\ BytesOf(entries, A) \in Nat /\ BytesOf(entries, B) \in Nat
<1> DEFINE a == CellsOf(entries, A)
           b == CellsOf(entries, B)
<1>1. CellsOf(entries, A \cup B) = a \cup b
    BY DEF CellsOf
<1>2. a \cap b = {}
    BY DEF CellsOf
<1>3. IsFiniteSet(a) /\ IsFiniteSet(b)
    BY CellsFinite
<1>. HIDE DEF a, b
<1>4. Cardinality(a \cup b) = Cardinality(a) + Cardinality(b) - Cardinality(a \cap b)
    BY <1>3, FS_Union
<1>5. Cardinality(a) \in Nat /\ Cardinality(b) \in Nat
    BY <1>3, FS_CardinalityType
<1>6. Cardinality(a \cap b) = 0
    BY <1>2, FS_EmptySet, Zenon
<1>7. /\ BytesOf(entries, A) = Cardinality(a)
      /\ BytesOf(entries, B) = Cardinality(b)
      /\ BytesOf(entries, A \cup B) = Cardinality(a \cup b)
    BY <1>1, Zenon DEF BytesOf, a, b
<1>. QED
    <2>1. Cardinality(a \cup b) = Cardinality(a) + Cardinality(b)
        BY <1>4, <1>5, <1>6
    <2>. QED
        BY <2>1, <1>5, <1>7, Zenon

\* Only the sizes of the keys in question matter.
LEMMA BytesSame ==
    ASSUME NEW K, NEW e, NEW f, \A k \in K : e[k].sizeBytes = f[k].sizeBytes
    PROVE  BytesOf(e, K) = BytesOf(f, K)
<1>1. CellsOf(e, K) = CellsOf(f, K)
    BY DEF CellsOf
<1>. QED
    BY <1>1 DEF BytesOf
-----------------------------------------------------------------------------
(* What each part of a method does to a cache record.                      *)

LEMMA StoredFinite ==
    ASSUME NEW c, CacheType(c), NEW S \in SUBSET Stored(c)
    PROVE  IsFiniteSet(S) /\ Cardinality(S) \in Nat /\ Sized(c.entries, S) /\ S \subseteq Keys
<1>1. S \subseteq Keys
    BY DEF CacheType, Stored
<1>2. IsFiniteSet(S)
    BY <1>1, KeysAssumption, FS_Subset, Zenon
<1>3. Cardinality(S) \in Nat
    BY <1>2, FS_CardinalityType
<1>4. Sized(c.entries, S)
    BY DEF Sized, CacheType, Stored, Entry
<1>. QED
    BY <1>1, <1>2, <1>3, <1>4

\* The bytes of all entries are those of some keys and those of the rest.
LEMMA BytesSplit ==
    ASSUME NEW c, CacheOK(c), NEW S \in SUBSET Stored(c)
    PROVE  /\ c.memoryBytes = BytesOf(c.entries, S) + BytesOf(c.entries, Stored(c) \ S)
           /\ BytesOf(c.entries, S) \in Nat
           /\ BytesOf(c.entries, Stored(c) \ S) \in Nat
<1>1. CacheType(c) /\ Stored(c) \ S \in SUBSET Stored(c)
    BY DEF CacheOK
<1>2. /\ IsFiniteSet(S) /\ Sized(c.entries, S)
      /\ IsFiniteSet(Stored(c) \ S) /\ Sized(c.entries, Stored(c) \ S)
    BY <1>1, StoredFinite, Zenon
<1>3. S \cap (Stored(c) \ S) = {} /\ S \cup (Stored(c) \ S) = Stored(c)
    OBVIOUS
<1>4. c.memoryBytes = BytesOf(c.entries, Stored(c))
    BY DEF CacheOK
<1>5. /\ BytesOf(c.entries, S \cup (Stored(c) \ S))
            = BytesOf(c.entries, S) + BytesOf(c.entries, Stored(c) \ S)
      /\ BytesOf(c.entries, S) \in Nat /\ BytesOf(c.entries, Stored(c) \ S) \in Nat
    BY <1>2, <1>3, BytesAdd, Zenon
<1>. QED
    BY <1>3, <1>4, <1>5, Zenon

\* d is c without the keys of K, their bytes given back.
LeftAfter(d, c, K) ==
    /\ CacheOK(d)
    /\ Stored(d) = Stored(c) \ K
    /\ \A k \in Stored(d) : d.entries[k] = c.entries[k]
    /\ d.memoryBytes = c.memoryBytes - BytesOf(c.entries, K)
    /\ d.memoryBytes <= c.memoryBytes
    /\ Cardinality(Stored(d)) <= Cardinality(Stored(c))

LEMMA RemoveOK ==
    ASSUME NEW c, CacheOK(c), NEW K \in SUBSET Stored(c),
           NEW expired \in SUBSET Stored(c), NEW evicted \in SUBSET Stored(c)
    PROVE  LeftAfter(RemoveStoredKeys(c, K, expired, evicted), c, K)
<1> DEFINE d == RemoveStoredKeys(c, K, expired, evicted)
<1>1. /\ d.entries = [k \in Stored(c) \ K |-> c.entries[k]]
      /\ d.lru = Unlink(c.lru, K) /\ d.mapOrder = Unlink(c.mapOrder, K)
      /\ d.memoryBytes = c.memoryBytes - BytesOf(c.entries, K)
      /\ d.expirations = c.expirations + Cardinality(expired)
      /\ d.evictions = c.evictions + Cardinality(evicted)
      /\ DOMAIN d = {"entries", "lru", "mapOrder", "memoryBytes", "expirations", "evictions"}
    BY DEF RemoveStoredKeys, Restrict
<1>. HIDE DEF d
<1>2. Stored(d) = Stored(c) \ K /\ \A k \in Stored(d) : d.entries[k] = c.entries[k]
    BY <1>1 DEF Stored
<1>3. /\ c.memoryBytes = BytesOf(c.entries, K) + BytesOf(c.entries, Stored(c) \ K)
      /\ BytesOf(c.entries, K) \in Nat /\ BytesOf(c.entries, Stored(c) \ K) \in Nat
    BY BytesSplit
<1>4. BytesOf(d.entries, Stored(d)) = BytesOf(c.entries, Stored(c) \ K)
    BY <1>2, BytesSame
<1>5. /\ d.memoryBytes = BytesOf(d.entries, Stored(d))
      /\ d.memoryBytes \in Nat /\ d.memoryBytes <= c.memoryBytes
    BY <1>1, <1>3, <1>4
<1>6. Cardinality(expired) \in Nat /\ Cardinality(evicted) \in Nat
    BY StoredFinite DEF CacheOK
<1>7. CacheType(d)
    <2>1. /\ c.expirations \in Nat /\ c.evictions \in Nat
          /\ c.entries \in [DOMAIN c.entries -> Entry] /\ Stored(c) \subseteq Keys
          /\ c.lru \subseteq Keys \X Keys /\ c.mapOrder \subseteq Keys \X Keys
        BY DEF CacheOK, CacheType, Stored
    <2>2. d.lru \subseteq Keys \X Keys /\ d.mapOrder \subseteq Keys \X Keys
        BY <1>1, <2>1 DEF Unlink
    <2>3. DOMAIN d.entries \subseteq Keys /\ d.entries \in [DOMAIN d.entries -> Entry]
        BY <1>1, <2>1 DEF Stored
    <2>4. d.expirations \in Nat /\ d.evictions \in Nat
        BY <1>1, <1>6, <2>1
    <2>. QED
        BY <1>1, <1>5, <2>2, <2>3, <2>4 DEF CacheType
<1>8. /\ IsTotalOrder(d.lru) /\ Members(d.lru) = Stored(d)
      /\ IsTotalOrder(d.mapOrder) /\ Members(d.mapOrder) = Stored(d)
    BY <1>1, <1>2, UnlinkOrder, UnlinkMembers DEF CacheOK
<1>9. Cardinality(Stored(d)) <= Cardinality(Stored(c))
    <2>1. IsFiniteSet(Stored(c))
        BY StoredFinite DEF CacheOK
    <2>. QED
        BY <1>2, <2>1, FS_Subset
<1>10. CacheOK(d)
    BY <1>5, <1>7, <1>8 DEF CacheOK
<1>. QED
    <2>1. LeftAfter(d, c, K)
        BY <1>1, <1>2, <1>5, <1>9, <1>10 DEF LeftAfter
    <2>. QED
        BY <2>1 DEF d

LEMMA RemoveWithinLimits ==
    ASSUME NEW c, CacheOK(c), WithinLimits(c), NEW K \in SUBSET Stored(c),
           NEW expired \in SUBSET Stored(c), NEW evicted \in SUBSET Stored(c)
    PROVE  WithinLimits(RemoveStoredKeys(c, K, expired, evicted))
<1> DEFINE d == RemoveStoredKeys(c, K, expired, evicted)
<1>. HIDE DEF d
<1>1. /\ CacheOK(d) /\ d.memoryBytes <= c.memoryBytes
      /\ Cardinality(Stored(d)) <= Cardinality(Stored(c))
    <2>1. LeftAfter(d, c, K)
        BY RemoveOK DEF d
    <2>. QED
        BY <2>1 DEF LeftAfter
<1>2. Cardinality(Stored(d)) \in Nat /\ Cardinality(Stored(c)) \in Nat
    BY <1>1, StoredFinite DEF CacheOK
<1>3. d.memoryBytes \in Nat /\ c.memoryBytes \in Nat
    BY <1>1 DEF CacheOK, CacheType
<1>4. WithinLimits(d)
    BY <1>1, <1>2, <1>3, LimitsAssumption DEF WithinLimits
<1>. QED
    BY <1>4 DEF d

\* #getLiveEntry, from any method at any reading of the clock.
LEMMA PurgeOK ==
    ASSUME NEW c, CacheOK(c), WithinLimits(c), NEW k, NEW t
    PROVE  /\ CacheOK(PurgeKey(c, k, t)) /\ WithinLimits(PurgeKey(c, k, t))
           /\ Stored(PurgeKey(c, k, t)) \subseteq Stored(c)
<1> DEFINE K == ExpiredKeys(c, t) \cap {k}
<1>1. K \in SUBSET Stored(c) /\ {} \in SUBSET Stored(c)
    BY DEF ExpiredKeys
<1>2. PurgeKey(c, k, t) = RemoveStoredKeys(c, K, K, {})
    BY DEF PurgeKey, ExpireKeys
<1>. HIDE DEF K
<1>3. CacheOK(RemoveStoredKeys(c, K, K, {})) /\ Stored(RemoveStoredKeys(c, K, K, {})) = Stored(c) \ K
    <2>1. LeftAfter(RemoveStoredKeys(c, K, K, {}), c, K)
        BY <1>1, RemoveOK
    <2>. QED
        BY <2>1 DEF LeftAfter
<1>4. WithinLimits(RemoveStoredKeys(c, K, K, {}))
    BY <1>1, RemoveWithinLimits, Zenon
<1>. QED
    BY <1>2, <1>3, <1>4, Zenon

\* LruList.touch, from get and from the resize of an entry.
LEMMA TouchOK ==
    ASSUME NEW c, CacheOK(c), NEW k \in Keys
    PROVE  LET d == [c EXCEPT !.lru = Touch(@, k)]
           IN  /\ CacheOK(d) /\ Stored(d) = Stored(c)
               /\ d.entries = c.entries /\ d.memoryBytes = c.memoryBytes
               /\ d.lru = Touch(c.lru, k)
<1> DEFINE d == [c EXCEPT !.lru = Touch(@, k)]
<1>1. /\ d.entries = c.entries /\ d.memoryBytes = c.memoryBytes /\ d.mapOrder = c.mapOrder
      /\ d.expirations = c.expirations /\ d.evictions = c.evictions
      /\ d.lru = Touch(c.lru, k) /\ DOMAIN d = DOMAIN c
    BY DEF CacheOK, CacheType
<1>. HIDE DEF d
<1>2. d.lru \subseteq Keys \X Keys
    <2>1. c.lru \subseteq Keys \X Keys
        BY DEF CacheOK, CacheType
    <2>2. Touch(c.lru, k) \subseteq Keys \X Keys
        BY <2>1, OrderWithin, Zenon
    <2>. QED
        BY <1>1, <2>2
<1>3. CacheType(d)
    BY <1>1, <1>2 DEF CacheOK, CacheType
<1>4. Stored(d) = Stored(c)
    BY <1>1 DEF Stored
<1>5. IsTotalOrder(d.lru) /\ Members(d.lru) = Stored(d)
    BY <1>1, <1>4, TouchOrder DEF CacheOK
<1>6. CacheOK(d)
    BY <1>1, <1>3, <1>4, <1>5 DEF CacheOK
<1>. QED
    BY <1>1, <1>4, <1>6 DEF d

\* After TouchResized the key being resized is the last that #evictOne would come to.
Resized(c, k) ==
    MaxMemoryBytes # Null /\ k \in Stored(c) => \A j : <<k, j>> \in c.lru => j = k

LEMMA ResizeOK ==
    ASSUME NEW c, CacheOK(c), WithinLimits(c), NEW k \in Keys
    PROVE  LET d == TouchResized(c, k)
           IN  CacheOK(d) /\ WithinLimits(d) /\ Resized(d, k) /\ Stored(d) = Stored(c)
<1> DEFINE d == [c EXCEPT !.lru = Touch(@, k)]
<1>1. CASE k \in Stored(c) /\ MaxMemoryBytes # Null
    <2>1. /\ CacheOK(d) /\ Stored(d) = Stored(c)
          /\ d.memoryBytes = c.memoryBytes /\ d.lru = Touch(c.lru, k)
        BY TouchOK
    <2>2. TouchResized(c, k) = d
        BY <1>1 DEF TouchResized
    <2>. HIDE DEF d
    <2>3. WithinLimits(d)
        BY <2>1 DEF WithinLimits
    <2>4. IsTotalOrder(c.lru) /\ k \in Members(c.lru)
        BY <1>1 DEF CacheOK
    <2>5. Resized(d, k)
        BY <2>1, <2>4, TouchedIsLast DEF Resized
    <2>. QED
        BY <2>1, <2>2, <2>3, <2>5
<1>2. CASE ~(k \in Stored(c) /\ MaxMemoryBytes # Null)
    BY <1>2 DEF TouchResized, Resized
<1>. QED
    BY <1>1, <1>2

\* The key being written is never evicted for its own sake: evicting everything older already stops.
LEMMA VictimsSpare ==
    ASSUME NEW c, CacheOK(c), NEW k, NEW size, NEW V, IsVictimSet(c, k, size, V)
    PROVE  V \in SUBSET Stored(c) /\ k \notin V
<1>1. IsTotalOrder(c.lru) /\ Members(c.lru) = Stored(c)
    BY DEF CacheOK
<1>2. V \in SUBSET Stored(c)
    BY <1>1 DEF IsVictimSet, Prefixes
<1>3. CASE k \in Stored(c)
    <2> DEFINE W == {j \in Members(c.lru) : <<j, k>> \in c.lru /\ j # k}
               rest == Unlink(c.lru, W)
    <2>1. ASSUME NEW p \in c.lru, p[2] \in W
          PROVE  p[1] \in W
        <3>1. p[1] \in Members(c.lru) /\ p[2] \in Members(c.lru) /\ <<p[1], p[2]>> \in c.lru
            BY <1>1, OrderPairs
        <3>2. <<p[2], k>> \in c.lru /\ p[2] # k
            BY <2>1
        <3>. QED
            BY <1>1, <1>3, <3>1, <3>2 DEF IsTotalOrder
    <2>2. W \in Prefixes(c.lru)
        BY <2>1 DEF Prefixes, IsPrefix
    <2>3. Members(rest) = Members(c.lru) \ W
        BY <1>1, UnlinkMembers
    <2>4. ASSUME NEW j \in Members(rest)
          PROVE  <<k, j>> \in rest
        <3>1. j \in Members(c.lru) /\ j \notin W /\ k \in Members(c.lru) /\ k \notin W
            BY <1>1, <1>3, <2>3
        <3>2. <<k, j>> \in c.lru
            BY <1>1, <3>1 DEF IsTotalOrder
        <3>. HIDE DEF W
        <3>3. <<k, j>> \in Unlink(c.lru, W)
            BY <3>1, <3>2, UnlinkPairs
        <3>. QED
            BY <3>3
    <2>5. k \in Members(rest)
        BY <1>1, <1>3, <2>3
    <2>6. NoVictim(c, k, W)
        BY <2>4, <2>5 DEF NoVictim, IsFirst
    <2>7. V \subseteq W
        BY <2>2, <2>6 DEF IsVictimSet, StopsEvicting
    <2>. QED
        BY <1>2, <2>7
<1>. QED
    BY <1>2, <1>3

\* Once no victim is left, the key being written is alone: nothing else occupies bytes.
LEMMA AloneAtLast ==
    ASSUME NEW c, CacheOK(c), NEW k, NEW V \in SUBSET Stored(c), k \notin V,
           Resized(c, k), MaxMemoryBytes # Null, NoVictim(c, k, V)
    PROVE  Stored(c) \ V \subseteq {k}
<1> DEFINE rest == Unlink(c.lru, V)
<1>1. IsTotalOrder(c.lru) /\ Members(c.lru) = Stored(c)
    BY DEF CacheOK
<1>2. Members(rest) = Stored(c) \ V
    BY <1>1, UnlinkMembers
<1>3. CASE Members(rest) = {}
    BY <1>2, <1>3
<1>4. CASE IsFirst(k, rest)
    <2>1. k \in Stored(c)
        BY <1>2, <1>4 DEF IsFirst
    <2>2. ASSUME NEW j \in Stored(c) \ V
          PROVE  j = k
        <3>1. <<k, j>> \in rest
            BY <1>2, <1>4 DEF IsFirst
        <3>2. <<k, j>> \in c.lru
            BY <3>1, UnlinkPairs
        <3>. QED
            BY <2>1, <3>2 DEF Resized
    <2>. QED
        BY <2>2
<1>. QED
    BY <1>3, <1>4 DEF NoVictim

\* #ensureCapacity always makes room for an entry that passed set's own size check.
LEMMA RoomIsMade ==
    ASSUME NEW c, CacheOK(c), NEW k, NEW size \in Nat, Resized(c, k),
           MaxMemoryBytes # Null => size <= MaxMemoryBytes,
           NEW V, IsVictimSet(c, k, size, V)
    PROVE  EntriesFit(c, k, V) /\ MemoryFits(c, k, size, V)
<1>1. V \in SUBSET Stored(c) /\ k \notin V
    BY VictimsSpare
<1>2. CASE NoVictim(c, k, V)
    <2>1. EntriesFit(c, k, V)
        <3> SUFFICES ASSUME k \notin Stored(c), MaxEntries # Null
                     PROVE  Cardinality(Stored(c) \ V) < MaxEntries
            BY DEF EntriesFit
        <3>1. IsTotalOrder(c.lru) /\ Members(c.lru) = Stored(c)
            BY DEF CacheOK
        <3>2. Members(Unlink(c.lru, V)) = Stored(c) \ V
            BY <3>1, UnlinkMembers
        <3>3. Stored(c) \ V = {}
            BY <1>2, <3>2 DEF NoVictim, IsFirst
        <3>. QED
            BY <3>3, FS_EmptySet, LimitsAssumption
    <2>2. MemoryFits(c, k, size, V)
        <3> SUFFICES ASSUME MaxMemoryBytes # Null
                     PROVE  c.memoryBytes - BytesOf(c.entries, V) - OldSizeBytes(c, k) + size
                                <= MaxMemoryBytes
            BY DEF MemoryFits
        <3> DEFINE kept == BytesOf(c.entries, Stored(c) \ V)
        <3>1. /\ c.memoryBytes = BytesOf(c.entries, V) + kept
              /\ BytesOf(c.entries, V) \in Nat /\ kept \in Nat
            BY <1>1, BytesSplit
        <3>2. kept = OldSizeBytes(c, k)
            <4>1. Stored(c) \ V \subseteq {k}
                BY <1>1, <1>2, AloneAtLast
            <4>2. CASE k \in Stored(c)
                <5>1. Stored(c) \ V = {k}
                    BY <1>1, <4>1, <4>2
                <5>2. c.entries[k].sizeBytes \in Nat
                    BY <4>2 DEF CacheOK, CacheType, Stored, Entry
                <5>. QED
                    BY <4>2, <5>1, <5>2, BytesOfOne DEF OldSizeBytes
            <4>3. CASE k \notin Stored(c)
                <5>1. Stored(c) \ V = {}
                    BY <4>1, <4>3
                <5>. QED
                    BY <4>3, <5>1, BytesOfNone DEF OldSizeBytes
            <4>. QED
                BY <4>2, <4>3
        <3>3. MaxMemoryBytes \in Nat
            BY LimitsAssumption
        <3>. HIDE DEF kept
        <3>. QED
            BY <3>1, <3>2, <3>3
    <2>. QED
        BY <2>1, <2>2
<1>3. CASE EntriesFit(c, k, V) /\ MemoryFits(c, k, size, V)
    BY <1>3
<1>. QED
    BY <1>2, <1>3 DEF IsVictimSet, StopsEvicting

\* The tail of set, on whatever #ensureCapacity left.
LEMMA WriteOK ==
    ASSUME NEW c, CacheOK(c), NEW k \in Keys, NEW entry \in Entry
    PROVE  LET d == WriteEntry(c, k, entry)
           IN  /\ CacheOK(d) /\ Stored(d) = Stored(c) \cup {k}
               /\ d.memoryBytes = c.memoryBytes - OldSizeBytes(c, k) + entry.sizeBytes
<1> DEFINE d == WriteEntry(c, k, entry)
           rest == Stored(c) \ {k}
<1>1. /\ d.entries = [j \in Stored(c) \cup {k} |-> IF j = k THEN entry ELSE c.entries[j]]
      /\ d.lru = AddLast(c.lru, k)
      /\ d.mapOrder = IF k \in Stored(c) THEN c.mapOrder ELSE AddLast(c.mapOrder, k)
      /\ d.memoryBytes = c.memoryBytes - OldSizeBytes(c, k) + entry.sizeBytes
      /\ d.expirations = c.expirations /\ d.evictions = c.evictions
      /\ DOMAIN d = DOMAIN c
    BY DEF WriteEntry, CacheOK, CacheType
<1>. HIDE DEF d
<1>2. CacheType(c)
    BY DEF CacheOK
<1>3. Stored(d) = Stored(c) \cup {k}
    BY <1>1 DEF Stored
<1>4. rest \in SUBSET Stored(c) /\ Stored(c) \subseteq Keys
    BY <1>2 DEF CacheType, Stored
<1>5. BytesOf(c.entries, rest) \in Nat /\ BytesOf(c.entries, rest) = c.memoryBytes - OldSizeBytes(c, k)
    <2>1. CASE k \in Stored(c)
        <3>1. {k} \in SUBSET Stored(c)
            BY <2>1
        <3>2. /\ c.memoryBytes = BytesOf(c.entries, {k}) + BytesOf(c.entries, rest)
              /\ BytesOf(c.entries, {k}) \in Nat /\ BytesOf(c.entries, rest) \in Nat
            BY <3>1, BytesSplit
        <3>3. c.entries[k].sizeBytes \in Nat
            BY <1>2, <2>1 DEF CacheType, Stored, Entry
        <3>4. BytesOf(c.entries, {k}) = OldSizeBytes(c, k)
            BY <2>1, <3>3, BytesOfOne DEF OldSizeBytes
        <3>. QED
            BY <3>2, <3>4
    <2>2. CASE k \notin Stored(c)
        <3>1. rest = Stored(c)
            BY <2>2
        <3>2. c.memoryBytes = BytesOf(c.entries, rest) /\ c.memoryBytes \in Nat
            BY <3>1 DEF CacheOK, CacheType
        <3>. QED
            BY <2>2, <3>2 DEF OldSizeBytes
    <2>. QED
        BY <2>1, <2>2
<1>6. entry.sizeBytes \in Nat
    BY DEF Entry
<1>7. BytesOf(d.entries, Stored(d)) = BytesOf(c.entries, rest) + entry.sizeBytes
    <2>1. Stored(d) = rest \cup {k} /\ rest \cap {k} = {}
        BY <1>3
    <2>2. d.entries[k].sizeBytes = entry.sizeBytes
        BY <1>1
    <2>3. \A j \in rest : d.entries[j] = c.entries[j]
        BY <1>1
    <2>4. Sized(d.entries, rest) /\ Sized(d.entries, {k}) /\ IsFiniteSet(rest) /\ IsFiniteSet({k})
        <3>1. Sized(c.entries, rest) /\ IsFiniteSet(rest)
            BY <1>2, <1>4, StoredFinite
        <3>. QED
            BY <1>6, <2>2, <2>3, <3>1, FS_Singleton DEF Sized
    <2>5. BytesOf(d.entries, rest \cup {k}) = BytesOf(d.entries, rest) + BytesOf(d.entries, {k})
        BY <2>1, <2>4, BytesAdd, Zenon
    <2>6. BytesOf(d.entries, rest) = BytesOf(c.entries, rest)
        BY <2>3, BytesSame
    <2>7. BytesOf(d.entries, {k}) = entry.sizeBytes
        BY <1>6, <2>2, BytesOfOne
    <2>. QED
        BY <2>1, <2>5, <2>6, <2>7
<1>8. d.memoryBytes = BytesOf(d.entries, Stored(d)) /\ d.memoryBytes \in Nat
    BY <1>1, <1>5, <1>6, <1>7
<1>9. CacheType(d)
    <2>1. AddLast(c.lru, k) \subseteq Keys \X Keys /\ AddLast(c.mapOrder, k) \subseteq Keys \X Keys
        <3>1. c.lru \subseteq Keys \X Keys /\ c.mapOrder \subseteq Keys \X Keys
            BY <1>2 DEF CacheType
        <3>. QED
            BY <3>1, OrderWithin, Zenon
    <2>2. d.lru \subseteq Keys \X Keys /\ d.mapOrder \subseteq Keys \X Keys
        BY <1>1, <1>2, <2>1 DEF CacheType
    <2>3. DOMAIN d.entries \subseteq Keys
        BY <1>3, <1>4 DEF Stored
    <2>4. d.entries \in [DOMAIN d.entries -> Entry]
        BY <1>1, <1>2 DEF CacheType, Stored
    <2>. QED
        BY <1>1, <1>2, <1>8, <2>2, <2>3, <2>4 DEF CacheType
<1>10. /\ IsTotalOrder(d.lru) /\ Members(d.lru) = Stored(d)
       /\ IsTotalOrder(d.mapOrder) /\ Members(d.mapOrder) = Stored(d)
    <2>1. /\ IsTotalOrder(c.lru) /\ Members(c.lru) = Stored(c)
          /\ IsTotalOrder(c.mapOrder) /\ Members(c.mapOrder) = Stored(c)
        BY DEF CacheOK
    <2>2. IsTotalOrder(d.lru) /\ Members(d.lru) = Stored(d)
        BY <1>1, <1>3, <2>1, AddLastOrder, AddLastMembers
    <2>3. CASE k \in Stored(c)
        BY <1>1, <1>3, <2>1, <2>2, <2>3
    <2>4. CASE k \notin Stored(c)
        BY <1>1, <1>3, <2>1, <2>2, <2>4, AddLastOrder, AddLastMembers
    <2>. QED
        BY <2>3, <2>4
<1>11. CacheOK(d)
    BY <1>8, <1>9, <1>10 DEF CacheOK
<1>. QED
    BY <1>1, <1>3, <1>11 DEF d

\* #evictOne, however its victims are counted.
LEMMA EvictOK ==
    ASSUME NEW c, CacheOK(c), WithinLimits(c), NEW V \in SUBSET Stored(c), NEW t
    PROVE  LET d == EvictKeys(c, V, t)
           IN  /\ CacheOK(d) /\ WithinLimits(d)
               /\ Stored(d) = Stored(c) \ V
               /\ \A k \in Stored(d) : d.entries[k] = c.entries[k]
               /\ d.memoryBytes = c.memoryBytes - BytesOf(c.entries, V)
<1> DEFINE expired == V \cap ExpiredKeys(c, t)
           evicted == V \ ExpiredKeys(c, t)
<1>1. expired \in SUBSET Stored(c) /\ evicted \in SUBSET Stored(c)
    OBVIOUS
<1>2. EvictKeys(c, V, t) = RemoveStoredKeys(c, V, expired, evicted)
    BY DEF EvictKeys
<1>. HIDE DEF expired, evicted
<1> DEFINE d == RemoveStoredKeys(c, V, expired, evicted)
<1>3. /\ CacheOK(d) /\ Stored(d) = Stored(c) \ V
      /\ \A k \in Stored(d) : d.entries[k] = c.entries[k]
      /\ d.memoryBytes = c.memoryBytes - BytesOf(c.entries, V)
    <2>1. LeftAfter(d, c, V)
        BY <1>1, RemoveOK
    <2>. HIDE DEF d
    <2>. QED
        BY <2>1 DEF LeftAfter
<1>4. WithinLimits(d)
    BY <1>1, RemoveWithinLimits, Zenon
<1>. QED
    BY <1>2, <1>3, <1>4, Zenon

\* A write for which #ensureCapacity made room leaves the store within its limits.
LEMMA WriteWithinLimits ==
    ASSUME NEW c, CacheOK(c), WithinLimits(c), NEW k \in Keys, NEW entry \in Entry, NEW t,
           NEW V \in SUBSET Stored(c), k \notin V,
           EntriesFit(c, k, V), MemoryFits(c, k, entry.sizeBytes, V)
    PROVE  LET d == WriteEntry(EvictKeys(c, V, t), k, entry)
           IN  CacheOK(d) /\ WithinLimits(d)
<1> DEFINE b == EvictKeys(c, V, t)
           d == WriteEntry(b, k, entry)
<1>1. /\ CacheOK(b) /\ WithinLimits(b) /\ Stored(b) = Stored(c) \ V
      /\ \A j \in Stored(b) : b.entries[j] = c.entries[j]
      /\ b.memoryBytes = c.memoryBytes - BytesOf(c.entries, V)
    BY EvictOK, Zenon
<1>. HIDE DEF b
<1>2. /\ CacheOK(d) /\ Stored(d) = Stored(b) \cup {k}
      /\ d.memoryBytes = b.memoryBytes - OldSizeBytes(b, k) + entry.sizeBytes
    BY <1>1, WriteOK
<1>. HIDE DEF d
<1>3. OldSizeBytes(b, k) = OldSizeBytes(c, k)
    BY <1>1 DEF OldSizeBytes
<1>4. MaxMemoryBytes # Null => d.memoryBytes <= MaxMemoryBytes
    BY <1>1, <1>2, <1>3 DEF MemoryFits
<1>5. MaxEntries # Null => Cardinality(Stored(d)) <= MaxEntries
    <2> SUFFICES ASSUME MaxEntries # Null
                 PROVE  Cardinality(Stored(d)) <= MaxEntries
        OBVIOUS
    <2>1. IsFiniteSet(Stored(b)) /\ Cardinality(Stored(b)) \in Nat
        BY <1>1, StoredFinite DEF CacheOK
    <2>2. CASE k \in Stored(c)
        <3>1. Stored(d) = Stored(b)
            BY <1>1, <1>2, <2>2
        <3>. QED
            BY <1>1, <3>1 DEF WithinLimits
    <2>3. CASE k \notin Stored(c)
        <3>1. Cardinality(Stored(b)) < MaxEntries
            BY <1>1, <2>3 DEF EntriesFit
        <3>2. Cardinality(Stored(b) \cup {k}) = Cardinality(Stored(b)) + 1
            BY <1>1, <2>1, <2>3, FS_AddElement
        <3>3. Cardinality(Stored(d)) = Cardinality(Stored(b)) + 1
            BY <1>2, <3>2, Zenon
        <3>4. MaxEntries \in Nat
            BY LimitsAssumption
        <3>. QED
            BY <2>1, <3>1, <3>3, <3>4
    <2>. QED
        BY <2>2, <2>3
<1>6. CacheOK(d) /\ WithinLimits(d)
    BY <1>2, <1>4, <1>5 DEF WithinLimits
<1>. QED
    BY <1>6 DEF b, d

-----------------------------------------------------------------------------
(* The invariant, action by action.                                        *)

LEMMA InitInv == Init => Inv
<1> SUFFICES ASSUME Init
             PROVE  Inv
    OBVIOUS
<1>1. Stored(cache) = {} /\ cache.lru = {} /\ cache.mapOrder = {} /\ cache.memoryBytes = 0
    BY DEF Init, Stored
<1>2. CacheType(cache)
    BY DEF Init, CacheType
<1>3. CacheOK(cache)
    <2>1. IsTotalOrder({}) /\ Members({}) = {}
        BY DEF IsTotalOrder, Members
    <2>. QED
        BY <1>1, <1>2, <2>1, BytesOfNone DEF CacheOK
<1>4. WithinLimits(cache)
    BY <1>1, FS_EmptySet, LimitsAssumption DEF WithinLimits
<1>5. TypeOK /\ NoLateRejection
    BY <1>2 DEF Init, TypeOK, Reply, ReplyType, Outcomes, NoLateRejection
<1>. QED
    BY <1>3, <1>4, <1>5 DEF Inv

\* What is left to show of a method once its new cache record is known to be in order.
LEMMA InvFromParts ==
    ASSUME CacheOK(cache'), WithinLimits(cache'),
           hits' \in Nat, misses' \in Nat, sweepCursor' \in Nat, sweeping' \in BOOLEAN,
           now' \in Nat, reply' \in ReplyType, reply'.outcome # "cannotFree"
    PROVE  Inv'
BY DEF Inv, TypeOK, NoLateRejection, CacheOK

LEMMA ClockNat == ASSUME now \in Nat, NEW t \in ClockReadings PROVE t \in Nat
BY ClockAssumption DEF ClockReadings

\* What set found and did: the cache c that #ensureCapacity met, the victims V, the new entry.
SetDone(k, v, ex, t, c, V, entry) ==
    /\ c = TouchResized(PurgeKey(cache, k, t), k)
    /\ CacheOK(c) /\ WithinLimits(c)
    /\ entry = [value |-> v, expiresAt |-> ExpiryTime(ex), sizeBytes |-> EntrySizeBytes[k, v]]
    /\ entry \in Entry
    /\ V \in SUBSET Stored(c) /\ k \notin V
    /\ IsVictimSet(c, k, entry.sizeBytes, V)
    /\ EntriesFit(c, k, V) /\ MemoryFits(c, k, entry.sizeBytes, V)
    /\ cache' = WriteEntry(EvictKeys(c, V, t), k, entry)
    /\ reply' = Reply("stored", k, TRUE, v, 0)

\* set never throws once it has begun to evict, and spares the key it writes.
LEMMA SetFacts ==
    ASSUME Inv, NEW k \in Keys, NEW v \in Values, NEW ex \in Exs, NEW t \in ClockReadings,
           Set(k, v, ex, t)
    PROVE  \E c, V, entry : SetDone(k, v, ex, t, c, V, entry)
<1> DEFINE size  == EntrySizeBytes[k, v]
           entry == [value |-> v, expiresAt |-> ExpiryTime(ex), sizeBytes |-> size]
           p     == PurgeKey(cache, k, t)
           c     == TouchResized(p, k)
<1>1. CacheOK(p) /\ WithinLimits(p)
    BY PurgeOK DEF Inv
<1>2. CacheOK(c) /\ WithinLimits(c) /\ Resized(c, k)
    BY <1>1, ResizeOK
<1>3. size \in Nat \ {0}
    BY SizesAssumption
<1>4. entry \in Entry
    <2>1. ExpiryTime(ex) \in Nat \cup {Null}
        <3>1. CASE ex = Null
            BY <3>1 DEF ExpiryTime
        <3>2. CASE ex # Null
            <4>1. ex \in Nat /\ MsPerSecond \in Nat /\ now \in Nat
                BY <3>2, ClockAssumption DEF Inv, TypeOK
            <4>2. ex * MsPerSecond \in Nat
                BY <4>1
            <4>. QED
                BY <3>2, <4>1, <4>2 DEF ExpiryTime
        <3>. QED
            BY <3>1, <3>2
    <2>. QED
        BY <1>3, <2>1 DEF Entry
<1>5. MaxMemoryBytes # Null => size <= MaxMemoryBytes
    <2>1. ~TooLarge(k, v)
        BY DEF Set
    <2>2. MaxMemoryBytes # Null => MaxMemoryBytes \in Nat
        BY LimitsAssumption
    <2>3. ~(MaxMemoryBytes # Null /\ size > MaxMemoryBytes)
        BY <2>1, Zenon DEF TooLarge
    <2>. HIDE DEF size
    <2>. QED
        BY <1>3, <2>2, <2>3
<1>6. PICK V : /\ IsVictimSet(c, k, size, V)
               /\ IF MemoryFits(c, k, size, V)
                  THEN /\ cache' = WriteEntry(EvictKeys(c, V, t), k, entry)
                       /\ reply' = Reply("stored", k, TRUE, v, 0)
                  ELSE /\ cache' = EvictKeys(c, V, t)
                       /\ reply' = Reply("cannotFree", k, FALSE, v, 0)
    BY DEF Set
<1>. HIDE DEF c
<1>8. V \in SUBSET Stored(c) /\ k \notin V
    <2>1. CacheOK(c)
        BY <1>2
    <2>2. IsVictimSet(c, k, size, V)
        BY <1>6
    <2>. HIDE DEF size
    <2>. QED
        BY <2>1, <2>2, VictimsSpare
<1>9. EntriesFit(c, k, V) /\ MemoryFits(c, k, size, V)
    <2>1. size \in Nat
        BY <1>3
    <2>. QED
        BY <1>2, <1>5, <1>6, <2>1, RoomIsMade
<1>10. cache' = WriteEntry(EvictKeys(c, V, t), k, entry) /\ reply' = Reply("stored", k, TRUE, v, 0)
    BY <1>6, <1>9
<1>11. entry.sizeBytes = size
    OBVIOUS
<1>12. SetDone(k, v, ex, t, c, V, entry)
    <2>1. V \in SUBSET Stored(c) /\ k \notin V
        BY <1>8
    <2>2. IsVictimSet(c, k, entry.sizeBytes, V)
        BY <1>6, <1>11
    <2>3. MemoryFits(c, k, entry.sizeBytes, V)
        BY <1>9, <1>11
    <2>4. c = TouchResized(PurgeKey(cache, k, t), k)
        BY DEF c
    <2>. HIDE DEF c, p
    <2>. QED
        BY <1>2, <1>4, <1>9, <1>10, <2>1, <2>2, <2>3, <2>4 DEF SetDone
<1>. QED
    BY <1>12

LEMMA SetInv ==
    ASSUME Inv, NEW k \in Keys, NEW v \in Values, NEW ex \in Exs, NEW t \in ClockReadings,
           Set(k, v, ex, t)
    PROVE  Inv'
<1>1. PICK c, V, entry : SetDone(k, v, ex, t, c, V, entry)
    BY SetFacts
<1>2. now' = t /\ UNCHANGED <<hits, misses, sweepCursor, sweeping>>
    BY DEF Set
<1>3. CacheOK(cache') /\ WithinLimits(cache')
    <2>1. /\ CacheOK(c) /\ WithinLimits(c) /\ entry \in Entry
          /\ V \in SUBSET Stored(c) /\ k \notin V
          /\ EntriesFit(c, k, V) /\ MemoryFits(c, k, entry.sizeBytes, V)
          /\ cache' = WriteEntry(EvictKeys(c, V, t), k, entry)
        BY <1>1, Zenon DEF SetDone
    <2> DEFINE d == WriteEntry(EvictKeys(c, V, t), k, entry)
    <2>2. CacheOK(d) /\ WithinLimits(d)
        BY <2>1, WriteWithinLimits
    <2>. HIDE DEF d
    <2>3. cache' = d
        BY <2>1 DEF d
    <2>. QED
        BY <2>2, <2>3
<1>4. reply' \in ReplyType /\ reply'.outcome # "cannotFree"
    <2>1. reply' = Reply("stored", k, TRUE, v, 0)
        BY <1>1, Zenon DEF SetDone
    <2>. QED
        BY <2>1 DEF Reply, ReplyType, Outcomes
<1>5. t \in Nat
    BY ClockNat DEF Inv, TypeOK
<1>. QED
    BY <1>2, <1>3, <1>4, <1>5, InvFromParts DEF Inv, TypeOK

LEMMA RejectInv ==
    ASSUME Inv, NEW k \in Keys, NEW v \in Values, RejectTooLarge(k, v)
    PROVE  Inv'
<1>1. reply' \in ReplyType /\ reply'.outcome # "cannotFree"
    BY DEF RejectTooLarge, Reply, ReplyType, Outcomes
<1>. QED
    BY <1>1, InvFromParts DEF RejectTooLarge, Inv, TypeOK

LEMMA GetInv ==
    ASSUME Inv, NEW k \in Keys, Get(k)
    PROVE  Inv'
<1> DEFINE c == PurgeKey(cache, k, now)
           d == [c EXCEPT !.lru = Touch(@, k)]
<1>1. CacheOK(c) /\ WithinLimits(c)
    BY PurgeOK DEF Inv
<1>2. /\ cache' = d
      /\ IF k \in Stored(c)
         THEN /\ hits' = hits + 1 /\ UNCHANGED misses
              /\ reply' = Reply("value", k, TRUE, c.entries[k].value, 0)
         ELSE /\ misses' = misses + 1 /\ UNCHANGED hits
              /\ reply' = Reply("value", k, FALSE, Null, 0)
      /\ UNCHANGED <<sweepCursor, sweeping, now>>
    BY DEF Get
<1>. HIDE DEF c
<1>3. CacheOK(d) /\ Stored(d) = Stored(c) /\ d.memoryBytes = c.memoryBytes
    BY <1>1, TouchOK
<1>. HIDE DEF d
<1>4. WithinLimits(d)
    BY <1>1, <1>3 DEF WithinLimits
<1>5. k \in Stored(c) => c.entries[k].value \in Values
    BY <1>1 DEF CacheOK, CacheType, Stored, Entry
<1>6. hits \in Nat /\ misses \in Nat
    BY DEF Inv, TypeOK
<1>7. /\ hits' \in Nat /\ misses' \in Nat
      /\ reply' \in ReplyType /\ reply'.outcome # "cannotFree"
    <2>1. CASE k \in Stored(c)
        <3>1. hits' = hits + 1 /\ misses' = misses
            BY <1>2, <2>1
        <3>2. reply' = Reply("value", k, TRUE, c.entries[k].value, 0)
            BY <1>2, <2>1
        <3>. QED
            BY <1>5, <1>6, <2>1, <3>1, <3>2 DEF Reply, ReplyType, Outcomes
    <2>2. CASE k \notin Stored(c)
        <3>1. hits' = hits /\ misses' = misses + 1
            BY <1>2, <2>2
        <3>2. reply' = Reply("value", k, FALSE, Null, 0)
            BY <1>2, <2>2
        <3>. QED
            BY <1>6, <3>1, <3>2 DEF Reply, ReplyType, Outcomes
    <2>. QED
        BY <2>1, <2>2
<1>. QED
    BY <1>2, <1>3, <1>4, <1>7, InvFromParts DEF Inv, TypeOK

LEMMA DeleteInv ==
    ASSUME Inv, NEW k \in Keys, Delete(k)
    PROVE  Inv'
<1> DEFINE c == PurgeKey(cache, k, now)
           K == {k} \cap Stored(c)
<1>1. CacheOK(c) /\ WithinLimits(c)
    BY PurgeOK DEF Inv
<1>2. /\ cache' = RemoveStoredKeys(c, K, {}, {})
      /\ reply' = Reply("deleted", k, k \in Stored(c), Null, 0)
      /\ UNCHANGED <<hits, misses, sweepCursor, sweeping, now>>
    BY DEF Delete
<1>. HIDE DEF c
<1>3. K \in SUBSET Stored(c) /\ {} \in SUBSET Stored(c)
    OBVIOUS
<1>. HIDE DEF K
<1>4. CacheOK(cache') /\ WithinLimits(cache')
    <2>1. LeftAfter(RemoveStoredKeys(c, K, {}, {}), c, K)
        BY <1>1, <1>3, RemoveOK
    <2>2. WithinLimits(RemoveStoredKeys(c, K, {}, {}))
        BY <1>1, <1>3, RemoveWithinLimits
    <2>. QED
        BY <1>2, <2>1, <2>2 DEF LeftAfter
<1>5. reply' \in ReplyType /\ reply'.outcome # "cannotFree"
    BY <1>2 DEF Reply, ReplyType, Outcomes
<1>. QED
    BY <1>2, <1>4, <1>5, InvFromParts DEF Inv, TypeOK

LEMMA ExistsInv ==
    ASSUME Inv, NEW k \in Keys, Exists(k)
    PROVE  Inv'
<1>1. CacheOK(cache') /\ WithinLimits(cache')
    BY PurgeOK DEF Inv, Exists
<1>2. reply' \in ReplyType /\ reply'.outcome # "cannotFree"
    BY DEF Exists, Reply, ReplyType, Outcomes
<1>. QED
    BY <1>1, <1>2, InvFromParts DEF Exists, Inv, TypeOK

\* ttl answers with an integer, and never with less than 0 for an entry that expires.
LEMMA TtlSecondsInt ==
    ASSUME NEW c, CacheType(c), NEW k, NEW t \in Nat
    PROVE  /\ TtlSeconds(c, k, t) \in Int
           /\ k \in Stored(c) /\ c.entries[k].expiresAt # Null => TtlSeconds(c, k, t) >= 0
<1>1. CASE k \in Stored(c) /\ c.entries[k].expiresAt # Null
    <2> DEFINE left == (c.entries[k].expiresAt - t) \div MsPerSecond
    <2>1. c.entries[k].expiresAt \in Nat
        BY <1>1 DEF CacheType, Stored, Entry
    <2>2. left \in Int
        BY <2>1, ClockAssumption
    <2>3. TtlSeconds(c, k, t) = Max({0, left})
        BY <1>1 DEF TtlSeconds
    <2>. HIDE DEF left
    <2>4. \E x \in {0, left} : \A y \in {0, left} : x >= y
        BY <2>2
    <2>5. Max({0, left}) \in {0, left} /\ Max({0, left}) >= 0
        BY <2>4 DEF Max
    <2>. QED
        BY <2>2, <2>3, <2>5
<1>2. CASE ~(k \in Stored(c) /\ c.entries[k].expiresAt # Null)
    BY <1>2 DEF TtlSeconds
<1>. QED
    BY <1>1, <1>2

LEMMA TtlInv ==
    ASSUME Inv, NEW k \in Keys, NEW t \in ClockReadings, Ttl(k, t)
    PROVE  Inv'
<1>1. CacheOK(cache') /\ WithinLimits(cache')
    BY PurgeOK DEF Inv, Ttl
<1>2. t \in Nat
    BY ClockNat DEF Inv, TypeOK
<1>3. TtlSeconds(cache', k, t) \in Int
    BY <1>1, <1>2, TtlSecondsInt DEF CacheOK
<1>4. reply' \in ReplyType /\ reply'.outcome # "cannotFree"
    BY <1>3 DEF Ttl, Reply, ReplyType, Outcomes
<1>. QED
    BY <1>1, <1>2, <1>4, InvFromParts DEF Ttl, Inv, TypeOK

LEMMA PurgeExpiredInv ==
    ASSUME Inv, NEW maxExamined \in Nat, PurgeExpired(maxExamined)
    PROVE  Inv'
<1> DEFINE n         == Cardinality(Stored(cache))
           toExamine == Min({maxExamined, n})
           K         == ExaminedKeys(toExamine) \cap ExpiredKeys(cache, now)
<1>1. /\ cache' = RemoveStoredKeys(cache, K, K, {})
      /\ sweepCursor' = IF Stored(cache') = {} THEN 0 ELSE (sweepCursor + toExamine) % n
      /\ UNCHANGED <<hits, misses, sweeping, now, reply>>
    BY DEF PurgeExpired, ExpireKeys, NextCursor
<1>2. K \in SUBSET Stored(cache) /\ {} \in SUBSET Stored(cache)
    BY DEF ExpiredKeys
<1>3. n \in Nat /\ (n = 0 <=> Stored(cache) = {})
    <2>1. IsFiniteSet(Stored(cache)) /\ n \in Nat
        BY StoredFinite DEF Inv, CacheOK
    <2>. QED
        BY <2>1, FS_EmptySet
<1>4. toExamine \in Nat
    <2>. HIDE DEF n
    <2>1. \E x \in {maxExamined, n} : \A y \in {maxExamined, n} : x =< y
        BY <1>3
    <2>2. toExamine \in {maxExamined, n}
        BY <2>1 DEF Min
    <2>. QED
        BY <1>3, <2>2
<1>. HIDE DEF K, toExamine, n
<1>5. /\ CacheOK(cache') /\ WithinLimits(cache')
      /\ Stored(cache') = Stored(cache) \ K
    <2>1. CacheOK(cache) /\ WithinLimits(cache)
        BY DEF Inv
    <2>2. LeftAfter(RemoveStoredKeys(cache, K, K, {}), cache, K)
        BY <1>2, <2>1, RemoveOK
    <2>3. WithinLimits(RemoveStoredKeys(cache, K, K, {}))
        BY <1>2, <2>1, RemoveWithinLimits
    <2>. QED
        BY <1>1, <2>2, <2>3 DEF LeftAfter
<1>6. sweepCursor' \in Nat
    <2>1. CASE Stored(cache') = {}
        BY <1>1, <2>1
    <2>2. CASE Stored(cache') # {}
        <3>1. n # 0
            BY <1>3, <1>5, <2>2
        <3>2. sweepCursor \in Nat
            BY DEF Inv, TypeOK
        <3>3. (sweepCursor + toExamine) % n \in Nat
            BY <1>3, <1>4, <3>1, <3>2
        <3>. QED
            BY <1>1, <2>2, <3>3
    <2>. QED
        BY <2>1, <2>2
<1>7. reply' \in ReplyType /\ reply'.outcome # "cannotFree"
    BY <1>1 DEF Inv, TypeOK, NoLateRejection
<1>. QED
    BY <1>1, <1>5, <1>6, <1>7, InvFromParts DEF Inv, TypeOK

LEMMA NextInv == Inv /\ [Next]_vars => Inv'
<1> SUFFICES ASSUME Inv, [Next]_vars
             PROVE  Inv'
    OBVIOUS
<1>1. CASE \E k \in Keys, v \in Values : RejectTooLarge(k, v)
    BY <1>1, RejectInv
<1>2. CASE \E k \in Keys, v \in Values, ex \in Exs, t \in ClockReadings : Set(k, v, ex, t)
    BY <1>2, SetInv
<1>3. CASE \E k \in Keys : Get(k)
    BY <1>3, GetInv
<1>4. CASE \E k \in Keys : Delete(k)
    BY <1>4, DeleteInv
<1>5. CASE \E k \in Keys : Exists(k)
    BY <1>5, ExistsInv
<1>6. CASE \E k \in Keys, t \in ClockReadings : Ttl(k, t)
    BY <1>6, TtlInv
<1>7. CASE PurgeAll
    <2>1. Cardinality(Keys) \in Nat
        BY KeysAssumption, FS_CardinalityType
    <2>. QED
        BY <1>7, <2>1, PurgeExpiredInv DEF PurgeAll
<1>8. CASE SweeperTick
    BY <1>8, PurgeExpiredInv, LimitsAssumption DEF SweeperTick
<1>9. CASE StartSweeper \/ StopSweeper
    BY <1>9, InvFromParts DEF StartSweeper, StopSweeper, Inv, TypeOK, NoLateRejection
<1>10. CASE Tick
    <2>1. now' \in Nat
        BY <1>10, ClockNat DEF Tick, Inv, TypeOK
    <2>. QED
        BY <1>10, <2>1, InvFromParts DEF Tick, Inv, TypeOK, NoLateRejection
<1>11. CASE UNCHANGED vars
    BY <1>11, InvFromParts DEF vars, Inv, TypeOK, NoLateRejection
<1>. QED
    BY <1>1, <1>2, <1>3, <1>4, <1>5, <1>6, <1>7, <1>8, <1>9, <1>10, <1>11 DEF Next, Foreground

-----------------------------------------------------------------------------
(* What a method leaves of the entries, of their order and of the count of evictions.  *)

\* d is c without the keys of K, in the order in which they were.
Without(d, c, K) ==
    /\ Stored(d) = Stored(c) \ K
    /\ \A j \in Stored(d) : d.entries[j] = c.entries[j]
    /\ d.lru = Unlink(c.lru, K)

LEMMA RemoveViews ==
    ASSUME NEW c, CacheOK(c), NEW K, NEW expired, NEW evicted
    PROVE  LET d == RemoveStoredKeys(c, K, expired, evicted)
           IN  Without(d, c, K) /\ d.evictions = c.evictions + Cardinality(evicted)
BY DEF RemoveStoredKeys, Restrict, Stored, Without

\* Keys that expired are counted as expirations and never as evictions.
LEMMA ExpireViews ==
    ASSUME NEW c, CacheOK(c), NEW K
    PROVE  Without(ExpireKeys(c, K), c, K) /\ ExpireKeys(c, K).evictions = c.evictions
<1>. DEFINE d == RemoveStoredKeys(c, K, K, {})
<1>1. Without(d, c, K) /\ d.evictions = c.evictions + Cardinality({})
    BY RemoveViews, Zenon
<1>2. ExpireKeys(c, K) = d
    BY DEF ExpireKeys
<1>. HIDE DEF d
<1>3. Cardinality({}) = 0 /\ c.evictions \in Nat
    BY FS_EmptySet DEF CacheOK, CacheType
<1>4. d.evictions = c.evictions
    BY <1>1, <1>3
<1>. QED
    BY <1>1, <1>2, <1>4

\* #getLiveEntry takes at most the key it is asked for.
LEMMA PurgeViews ==
    ASSUME NEW c, CacheOK(c), NEW k, NEW t
    PROVE  /\ Without(PurgeKey(c, k, t), c, ExpiredKeys(c, t) \cap {k})
           /\ PurgeKey(c, k, t).evictions = c.evictions
BY ExpireViews DEF PurgeKey

\* What #ensureCapacity meets: all entries but the expired one of the written key, and, but for
\* that key, in the order in which they were.
Prepared(c, b, k, t) ==
    /\ Stored(c) = Stored(b) \ (ExpiredKeys(b, t) \cap {k})
    /\ \A j \in Stored(c) : c.entries[j] = b.entries[j]
    /\ c.evictions = b.evictions
    /\ \A i, j : i # k /\ j # k => (<<i, j>> \in c.lru <=> <<i, j>> \in b.lru)

LEMMA PreparedViews ==
    ASSUME NEW b, CacheOK(b), WithinLimits(b), NEW k \in Keys, NEW t
    PROVE  Prepared(TouchResized(PurgeKey(b, k, t), k), b, k, t)
<1>. DEFINE p == PurgeKey(b, k, t)
            c == TouchResized(p, k)
            K == ExpiredKeys(b, t) \cap {k}
<1>1. Without(p, b, K) /\ p.evictions = b.evictions /\ CacheOK(p)
    BY PurgeViews, PurgeOK
<1>. HIDE DEF p
<1>2. \A i, j : i # k /\ j # k => (<<i, j>> \in p.lru <=> <<i, j>> \in b.lru)
    BY <1>1, UnlinkPairs DEF Without
<1>3. /\ c.entries = p.entries /\ c.evictions = p.evictions
      /\ c.lru = Touch(p.lru, k) \/ c.lru = p.lru
    BY <1>1 DEF TouchResized, CacheOK, CacheType
<1>. HIDE DEF c
<1>4. \A i, j : i # k /\ j # k => (<<i, j>> \in c.lru <=> <<i, j>> \in p.lru)
    BY <1>3, AddLastPairs DEF Touch
<1>5. /\ Stored(c) = Stored(b) \ K
      /\ \A j \in Stored(c) : c.entries[j] = b.entries[j]
    BY <1>1, <1>3 DEF Without, Stored
<1>. QED
    <2>1. Prepared(c, b, k, t)
        BY <1>1, <1>2, <1>3, <1>4, <1>5 DEF Prepared
    <2>. QED
        BY <2>1 DEF c, p

\* What set leaves: the victims are gone, the written key is at the head.
Wrote(d, c, V, k, entry, t) ==
    /\ Stored(d) = (Stored(c) \ V) \cup {k}
    /\ d.entries[k] = entry
    /\ \A j \in Stored(c) \ V : j # k => d.entries[j] = c.entries[j]
    /\ d.lru = AddLast(Unlink(c.lru, V), k)
    /\ d.evictions = c.evictions + Cardinality(V \ ExpiredKeys(c, t))
    /\ d.memoryBytes = c.memoryBytes - BytesOf(c.entries, V) - OldSizeBytes(c, k)
                           + entry.sizeBytes

LEMMA WriteViews ==
    ASSUME NEW c, CacheOK(c), WithinLimits(c), NEW k, NEW entry,
           NEW V \in SUBSET Stored(c), k \notin V, NEW t
    PROVE  Wrote(WriteEntry(EvictKeys(c, V, t), k, entry), c, V, k, entry, t)
<1>. DEFINE e == EvictKeys(c, V, t)
            d == WriteEntry(e, k, entry)
<1>1. /\ Without(e, c, V)
      /\ e.evictions = c.evictions + Cardinality(V \ ExpiredKeys(c, t))
    BY RemoveViews DEF EvictKeys
<1>2. CacheOK(e) /\ e.memoryBytes = c.memoryBytes - BytesOf(c.entries, V)
    BY EvictOK
<1>. HIDE DEF e
<1>3. /\ d.entries = [j \in Stored(e) \cup {k} |-> IF j = k THEN entry ELSE e.entries[j]]
      /\ d.lru = AddLast(e.lru, k) /\ d.evictions = e.evictions
      /\ d.memoryBytes = e.memoryBytes - OldSizeBytes(e, k) + entry.sizeBytes
    BY <1>2 DEF WriteEntry, CacheOK, CacheType
<1>. HIDE DEF d
<1>4. OldSizeBytes(e, k) = OldSizeBytes(c, k)
    BY <1>1 DEF OldSizeBytes, Without
<1>5. /\ Stored(d) = (Stored(c) \ V) \cup {k}
      /\ d.entries[k] = entry
      /\ \A j \in Stored(c) \ V : j # k => d.entries[j] = c.entries[j]
    BY <1>1, <1>3 DEF Stored, Without
<1>6. d.lru = AddLast(Unlink(c.lru, V), k)
    BY <1>1, <1>3 DEF Without
<1>. QED
    <2>1. Wrote(d, c, V, k, entry, t)
        BY <1>1, <1>2, <1>3, <1>4, <1>5, <1>6 DEF Wrote
    <2>. QED
        BY <2>1 DEF d, e

\* Of a whole set: from the cache it found, over what #ensureCapacity met, to what it leaves.
LEMMA SetViews ==
    ASSUME Inv, NEW k \in Keys, NEW v \in Values, NEW ex \in Exs, NEW t \in ClockReadings,
           NEW c, NEW V, NEW entry, SetDone(k, v, ex, t, c, V, entry)
    PROVE  Prepared(c, cache, k, t) /\ Wrote(cache', c, V, k, entry, t)
<1>1. CacheOK(cache) /\ WithinLimits(cache)
    BY DEF Inv
<1>2. Prepared(TouchResized(PurgeKey(cache, k, t), k), cache, k, t)
    BY <1>1, PreparedViews
<1>3. c = TouchResized(PurgeKey(cache, k, t), k)
    BY Zenon DEF SetDone
<1>4. CacheOK(c) /\ WithinLimits(c) /\ V \in SUBSET Stored(c) /\ k \notin V
    BY Zenon DEF SetDone
<1>5. Wrote(WriteEntry(EvictKeys(c, V, t), k, entry), c, V, k, entry, t)
    BY <1>4, WriteViews
<1>6. cache' = WriteEntry(EvictKeys(c, V, t), k, entry)
    BY Zenon DEF SetDone
<1>. QED
    BY <1>2, <1>3, <1>5, <1>6, Zenon

-----------------------------------------------------------------------------
(* LruEviction, method by method.                                          *)

\* A step by which only expired keys, or the deleted one, leave the store loses no live entry.
LEMMA NothingLost ==
    ASSUME \A j \in Stored(cache) \ Stored(cache') :
               \/ HasExpired(cache.entries[j], now)
               \/ reply'.outcome = "deleted" /\ reply'.key = j
    PROVE  LruEvictionStep
BY DEF LruEvictionStep, LiveLosses

\* The keys #ensureCapacity evicts are older than all it leaves.
LEMMA VictimsAreOldest ==
    ASSUME NEW c, CacheOK(c), NEW k, NEW size, NEW V, IsVictimSet(c, k, size, V),
           NEW i \in V, NEW j \in Stored(c) \ V
    PROVE  <<i, j>> \in c.lru
<1>1. V \subseteq Members(c.lru) /\ \A p \in c.lru : p[2] \in V => p[1] \in V
    BY DEF IsVictimSet, Prefixes, IsPrefix
<1>2. <<j, i>> \notin c.lru
    BY <1>1
<1>3. IsTotalOrder(c.lru) /\ Members(c.lru) = Stored(c)
    BY DEF CacheOK
<1>. QED
    BY <1>1, <1>2, <1>3 DEF IsTotalOrder

\* Without its last victim #ensureCapacity would have gone on: a limit was still exceeded.
LEMMA LastVictimNeeded ==
    ASSUME NEW c, CacheOK(c), NEW k, NEW size \in Nat, NEW V, IsVictimSet(c, k, size, V), V # {}
    PROVE  \E y \in V :
              \/ /\ k \notin Stored(c) /\ MaxEntries # Null
                 /\ Cardinality(Stored(c) \ V) + 1 >= MaxEntries
              \/ /\ MaxMemoryBytes # Null
                 /\ c.memoryBytes - BytesOf(c.entries, V) - OldSizeBytes(c, k) + size
                        + c.entries[y].sizeBytes > MaxMemoryBytes
<1>1. IsTotalOrder(c.lru) /\ Members(c.lru) = Stored(c) /\ CacheType(c)
    BY DEF CacheOK
<1>2. V \in SUBSET Stored(c) /\ \A p \in c.lru : p[2] \in V => p[1] \in V
    BY <1>1 DEF IsVictimSet, Prefixes, IsPrefix
<1>3. IsFiniteSet(V)
    BY <1>1, <1>2, StoredFinite
<1>4. PICK y \in V : \A x \in V : <<x, y>> \in c.lru
    BY <1>1, <1>2, <1>3, LastOfSome
<1>. DEFINE W == V \ {y}
<1>5. W \in Prefixes(c.lru)
    <2>1. ASSUME NEW p \in c.lru, p[2] \in W
          PROVE  p[1] \in W
        <3>1. p[1] \in V /\ <<p[2], y>> \in c.lru
            BY <1>2, <1>4, <2>1
        <3>2. p = <<p[1], p[2]>> /\ p[1] \in Members(c.lru) /\ p[2] \in Members(c.lru)
            BY <1>1, OrderPairs
        <3>3. CASE p[1] = y
            <4>1. p[2] = y
                BY <1>1, <3>1, <3>2, <3>3 DEF IsTotalOrder
            <4>. QED
                BY <2>1, <4>1
        <3>. QED
            BY <3>1, <3>3
    <2>. QED
        BY <1>1, <1>2, <2>1 DEF Prefixes, IsPrefix
<1>6. ~(V \subseteq W)
    BY <1>4
<1>7. ~(EntriesFit(c, k, W) /\ MemoryFits(c, k, size, W))
    BY <1>5, <1>6 DEF IsVictimSet, StopsEvicting
<1>8. CASE ~EntriesFit(c, k, W)
    <2>1. k \notin Stored(c) /\ MaxEntries # Null /\ ~(Cardinality(Stored(c) \ W) < MaxEntries)
        BY <1>8 DEF EntriesFit
    <2>2. Stored(c) \ V \in SUBSET Stored(c)
        OBVIOUS
    <2>3. IsFiniteSet(Stored(c) \ V) /\ Cardinality(Stored(c) \ V) \in Nat
        BY <1>1, <2>2, StoredFinite
    <2>4. Stored(c) \ W = (Stored(c) \ V) \cup {y} /\ y \notin Stored(c) \ V
        BY <1>2
    <2>5. Cardinality(Stored(c) \ W) = Cardinality(Stored(c) \ V) + 1
        BY <2>3, <2>4, FS_AddElement
    <2>6. MaxEntries \in Nat
        BY <2>1, LimitsAssumption
    <2>7. Cardinality(Stored(c) \ V) + 1 >= MaxEntries
        BY <2>1, <2>3, <2>5, <2>6
    <2>. QED
        BY <2>1, <2>7
<1>9. CASE ~MemoryFits(c, k, size, W)
    <2>1. /\ MaxMemoryBytes # Null
          /\ ~(c.memoryBytes - BytesOf(c.entries, W) - OldSizeBytes(c, k) + size <= MaxMemoryBytes)
        BY <1>9 DEF MemoryFits
    <2>2. /\ IsFiniteSet(W) /\ Sized(c.entries, W) /\ W \in SUBSET Stored(c)
          /\ IsFiniteSet({y}) /\ Sized(c.entries, {y})
        <3>1. W \in SUBSET Stored(c) /\ {y} \in SUBSET Stored(c)
            BY <1>2
        <3>. QED
            BY <1>1, <3>1, StoredFinite, Zenon
    <2>3. /\ BytesOf(c.entries, W \cup {y}) = BytesOf(c.entries, W) + BytesOf(c.entries, {y})
          /\ BytesOf(c.entries, W) \in Nat
        <3>1. W \cap {y} = {}
            OBVIOUS
        <3>. HIDE DEF W
        <3>. QED
            BY <2>2, <3>1, BytesAdd, Zenon
    <2>4. W \cup {y} = V
        OBVIOUS
    <2>5. c.entries[y].sizeBytes \in Nat
        BY <2>2 DEF Sized
    <2>6. BytesOf(c.entries, {y}) = c.entries[y].sizeBytes
        BY <2>5, BytesOfOne
    <2>7. c.memoryBytes \in Nat /\ OldSizeBytes(c, k) \in Nat /\ MaxMemoryBytes \in Nat
        BY <1>1, <2>1, LimitsAssumption DEF CacheType, OldSizeBytes, Stored, Entry
    <2>. HIDE DEF W
    <2>8. c.memoryBytes - BytesOf(c.entries, V) - OldSizeBytes(c, k) + size
              + c.entries[y].sizeBytes > MaxMemoryBytes
        BY <2>1, <2>3, <2>4, <2>5, <2>6, <2>7
    <2>. QED
        BY <2>1, <2>8
<1>. QED
    BY <1>7, <1>8, <1>9

\* set: what it loses it evicted, oldest first, and none too many.
LEMMA SetEvictsLru ==
    ASSUME Inv, NEW k \in Keys, NEW v \in Values, NEW ex \in Exs, NEW t \in ClockReadings,
           Set(k, v, ex, t)
    PROVE  LruEvictionStep
<1>1. PICK c, V, entry : SetDone(k, v, ex, t, c, V, entry)
    BY SetFacts
<1>2. /\ CacheOK(c) /\ WithinLimits(c) /\ entry \in Entry /\ V \in SUBSET Stored(c) /\ k \notin V
      /\ IsVictimSet(c, k, entry.sizeBytes, V)
      /\ reply'.outcome = "stored" /\ reply'.key = k
    BY <1>1 DEF SetDone, Reply
<1>3. now' = t
    BY DEF Set
<1>4. /\ Stored(c) = Stored(cache) \ (ExpiredKeys(cache, t) \cap {k})
      /\ \A j \in Stored(c) : c.entries[j] = cache.entries[j]
      /\ c.evictions = cache.evictions
      /\ \A i, j : i # k /\ j # k => (<<i, j>> \in c.lru <=> <<i, j>> \in cache.lru)
    <2>1. Prepared(c, cache, k, t)
        BY <1>1, SetViews
    <2>. QED
        BY <2>1 DEF Prepared
<1>5. /\ Stored(cache') = (Stored(c) \ V) \cup {k}
      /\ cache'.evictions = c.evictions + Cardinality(V \ ExpiredKeys(c, t))
      /\ cache'.memoryBytes = c.memoryBytes - BytesOf(c.entries, V) - OldSizeBytes(c, k)
                                  + entry.sizeBytes
    <2>1. Wrote(cache', c, V, k, entry, t)
        BY <1>1, SetViews
    <2>. QED
        BY <2>1 DEF Wrote
<1>. DEFINE lost == LiveLosses
<1>6. lost \subseteq V \ ExpiredKeys(c, t)
    BY <1>2, <1>3, <1>4, <1>5 DEF LiveLosses, ExpiredKeys
<1>. HIDE DEF lost
<1>. SUFFICES ASSUME lost # {}
              PROVE  /\ cache'.evictions >= cache.evictions + Cardinality(lost)
                     /\ \A i \in lost, j \in Stored(cache) \cap Stored(cache') :
                           j # k => <<i, j>> \in cache.lru
                     /\ \E y \in Stored(cache) \ Stored(cache') : WouldOverflow(y)
    BY <1>2 DEF LruEvictionStep, lost
<1>7. cache'.evictions >= cache.evictions + Cardinality(lost)
    <2>1. V \ ExpiredKeys(c, t) \in SUBSET Stored(c) /\ CacheType(c)
        BY <1>2 DEF CacheOK
    <2>2. /\ IsFiniteSet(V \ ExpiredKeys(c, t))
          /\ Cardinality(V \ ExpiredKeys(c, t)) \in Nat
        BY <2>1, StoredFinite, Zenon
    <2>3. IsFiniteSet(lost) /\ Cardinality(lost) <= Cardinality(V \ ExpiredKeys(c, t))
        BY <1>6, <2>2, FS_Subset
    <2>4. Cardinality(lost) \in Nat
        BY <2>3, FS_CardinalityType
    <2>5. c.evictions \in Nat
        BY <2>1 DEF CacheType
    <2>. QED
        BY <1>4, <1>5, <2>2, <2>3, <2>4, <2>5
<1>8. ASSUME NEW i \in lost, NEW j \in Stored(cache) \cap Stored(cache'), j # k
      PROVE  <<i, j>> \in cache.lru
    <2>1. i \in V /\ j \in Stored(c) \ V /\ i # k
        BY <1>2, <1>4, <1>5, <1>6, <1>8
    <2>2. <<i, j>> \in c.lru
        BY <1>2, <2>1, VictimsAreOldest
    <2>. QED
        BY <1>4, <1>8, <2>1, <2>2
<1>9. \E y \in Stored(cache) \ Stored(cache') : WouldOverflow(y)
    <2>1. entry.sizeBytes \in Nat /\ V # {}
        BY <1>2, <1>6 DEF Entry
    <2>2. PICK y \in V :
              \/ /\ k \notin Stored(c) /\ MaxEntries # Null
                 /\ Cardinality(Stored(c) \ V) + 1 >= MaxEntries
              \/ /\ MaxMemoryBytes # Null
                 /\ c.memoryBytes - BytesOf(c.entries, V) - OldSizeBytes(c, k) + entry.sizeBytes
                        + c.entries[y].sizeBytes > MaxMemoryBytes
        BY <1>2, <2>1, LastVictimNeeded
    <2>3. y \in Stored(cache) \ Stored(cache') /\ c.entries[y] = cache.entries[y]
        BY <1>2, <1>4, <1>5
    <2>4. CASE /\ k \notin Stored(c) /\ MaxEntries # Null
               /\ Cardinality(Stored(c) \ V) + 1 >= MaxEntries
        <3>1. Stored(c) \ V \in SUBSET Stored(c) /\ CacheType(c)
            BY <1>2 DEF CacheOK
        <3>2. IsFiniteSet(Stored(c) \ V) /\ Cardinality(Stored(c) \ V) \in Nat
            BY <3>1, StoredFinite, Zenon
        <3>3. Cardinality(Stored(cache')) = Cardinality(Stored(c) \ V) + 1
            BY <1>5, <2>4, <3>2, FS_AddElement
        <3>4. MaxEntries \in Nat
            BY <2>4, LimitsAssumption
        <3>5. Cardinality(Stored(cache')) + 1 > MaxEntries
            BY <2>4, <3>2, <3>3, <3>4
        <3>6. WouldOverflow(y)
            BY <2>4, <3>5 DEF WouldOverflow
        <3>. QED
            BY <2>3, <3>6
    <2>5. CASE /\ MaxMemoryBytes # Null
               /\ c.memoryBytes - BytesOf(c.entries, V) - OldSizeBytes(c, k) + entry.sizeBytes
                      + c.entries[y].sizeBytes > MaxMemoryBytes
        <3>1. WouldOverflow(y)
            BY <1>5, <2>3, <2>5 DEF WouldOverflow
        <3>. QED
            BY <2>3, <3>1
    <2>. QED
        BY <2>2, <2>4, <2>5
<1>. QED
    BY <1>7, <1>8, <1>9

\* The other methods and the sweeper take expired keys, and delete its own.
LEMMA OthersLoseNothing ==
    ASSUME Inv, Next, ~ \E k \in Keys, v \in Values, ex \in Exs, t \in ClockReadings : Set(k, v, ex, t)
    PROVE  LruEvictionStep
<1>0. CacheOK(cache) /\ WithinLimits(cache)
    BY DEF Inv
<1>1. ASSUME NEW k
      PROVE  LET c == PurgeKey(cache, k, now)
             IN  /\ CacheOK(c)
                 /\ \A j \in Stored(cache) \ Stored(c) : HasExpired(cache.entries[j], now)
    <2>1. CacheOK(PurgeKey(cache, k, now))
        BY <1>0, PurgeOK
    <2>2. Without(PurgeKey(cache, k, now), cache, ExpiredKeys(cache, now) \cap {k})
        BY <1>0, PurgeViews
    <2>. QED
        BY <2>1, <2>2 DEF Without, ExpiredKeys
<1>2. CASE \E k \in Keys, v \in Values : RejectTooLarge(k, v)
    BY <1>2, NothingLost DEF RejectTooLarge
<1>3. CASE \E k \in Keys : Get(k)
    <2>1. PICK k \in Keys : Get(k)
        BY <1>3
    <2> DEFINE c == PurgeKey(cache, k, now)
               d == [c EXCEPT !.lru = Touch(@, k)]
    <2>2. /\ CacheOK(c)
          /\ \A j \in Stored(cache) \ Stored(c) : HasExpired(cache.entries[j], now)
        BY <1>1
    <2>3. cache' = d
        BY <2>1 DEF Get
    <2>. HIDE DEF c
    <2>4. Stored(d) = Stored(c)
        BY <2>1, <2>2, TouchOK
    <2>. HIDE DEF d
    <2>. QED
        BY <2>2, <2>3, <2>4, NothingLost
<1>4. CASE \E k \in Keys : Delete(k)
    <2>1. PICK k \in Keys : Delete(k)
        BY <1>4
    <2> DEFINE c == PurgeKey(cache, k, now)
               d == RemoveStoredKeys(c, {k} \cap Stored(c), {}, {})
    <2>2. /\ CacheOK(c)
          /\ \A j \in Stored(cache) \ Stored(c) : HasExpired(cache.entries[j], now)
        BY <1>1
    <2>3. cache' = d /\ reply'.outcome = "deleted" /\ reply'.key = k
        BY <2>1 DEF Delete, Reply
    <2>. HIDE DEF c
    <2>4. Stored(d) = Stored(c) \ ({k} \cap Stored(c))
        BY <2>2, RemoveViews DEF Without
    <2>. HIDE DEF d
    <2>. QED
        BY <2>2, <2>3, <2>4, NothingLost
<1>5. CASE \/ \E k \in Keys : Exists(k)
           \/ \E k \in Keys, t \in ClockReadings : Ttl(k, t)
    <2>1. PICK k \in Keys : cache' = PurgeKey(cache, k, now)
        BY <1>5 DEF Exists, Ttl
    <2>. QED
        BY <1>1, <2>1, NothingLost
<1>6. CASE PurgeAll \/ SweeperTick
    <2>1. PICK n : PurgeExpired(n)
        BY <1>6 DEF PurgeAll, SweeperTick
    <2>2. PICK K \in SUBSET ExpiredKeys(cache, now) : cache' = ExpireKeys(cache, K)
        BY <2>1 DEF PurgeExpired
    <2>3. Stored(cache') = Stored(cache) \ K
        BY <1>0, <2>2, ExpireViews DEF Without
    <2>. QED
        BY <2>2, <2>3, NothingLost DEF ExpiredKeys
<1>7. CASE StartSweeper \/ StopSweeper \/ Tick
    BY <1>7, NothingLost DEF StartSweeper, StopSweeper, Tick
<1>. QED
    BY <1>2, <1>3, <1>4, <1>5, <1>6, <1>7 DEF Next, Foreground

-----------------------------------------------------------------------------
(* What a caller can see of a cache record at a reading of the clock: the  *)
(* substitutions of PromisedCache, as functions of both.                   *)

Seen(c, t) ==
    [k \in Stored(c) \ ExpiredKeys(c, t) |->
        [value |-> c.entries[k].value, expiresAt |-> c.entries[k].expiresAt]]

SeenOrder(c, t) == Unlink(c.lru, ExpiredKeys(c, t))

\* The entries of f that time t puts to an end.
DeadAt(f, t) == {k \in DOMAIN f : f[k].expiresAt # Null /\ t >= f[k].expiresAt}

\* That an expired key leaves cannot be seen.
LEMMA ExpiryUnseen ==
    ASSUME NEW c, CacheOK(c), NEW d, NEW t, NEW K \in SUBSET ExpiredKeys(c, t), Without(d, c, K)
    PROVE  Seen(d, t) = Seen(c, t) /\ SeenOrder(d, t) = SeenOrder(c, t)
<1>1. /\ Stored(d) = Stored(c) \ K /\ d.lru = Unlink(c.lru, K)
      /\ \A j \in Stored(d) : d.entries[j] = c.entries[j]
    BY DEF Without
<1>2. ExpiredKeys(d, t) = ExpiredKeys(c, t) \ K
    BY <1>1 DEF ExpiredKeys
<1>3. Stored(d) \ ExpiredKeys(d, t) = Stored(c) \ ExpiredKeys(c, t)
    BY <1>1, <1>2
<1>4. Seen(d, t) = Seen(c, t)
    BY <1>1, <1>3 DEF Seen
<1>5. K \cup ExpiredKeys(d, t) = ExpiredKeys(c, t)
    BY <1>2
<1>6. SeenOrder(d, t) = SeenOrder(c, t)
    BY <1>1, <1>5, UnlinkTwice DEF SeenOrder
<1>. QED
    BY <1>4, <1>6

\* All that the passing of time does is that entries expire.
LEMMA TimePasses ==
    ASSUME NEW c, CacheOK(c), NEW s \in Nat, NEW t \in Nat, s <= t
    PROVE  /\ Seen(c, t) = Restrict(Seen(c, s), DOMAIN Seen(c, s) \ DeadAt(Seen(c, s), t))
           /\ SeenOrder(c, t) = Unlink(SeenOrder(c, s), DeadAt(Seen(c, s), t))
<1>. DEFINE f == Seen(c, s)
            dead == DeadAt(f, t)
<1>1. /\ DOMAIN f = Stored(c) \ ExpiredKeys(c, s)
      /\ \A k \in DOMAIN f : f[k].value = c.entries[k].value /\ f[k].expiresAt = c.entries[k].expiresAt
    BY DEF Seen
<1>2. \A k \in Stored(c) : c.entries[k].expiresAt # Null => c.entries[k].expiresAt \in Nat
    BY DEF CacheOK, CacheType, Stored, Entry
<1>. HIDE DEF f
<1>3. ExpiredKeys(c, s) \subseteq ExpiredKeys(c, t)
    BY <1>2 DEF ExpiredKeys, HasExpired
<1>4. dead = ExpiredKeys(c, t) \ ExpiredKeys(c, s)
    BY <1>1 DEF ExpiredKeys, HasExpired, DeadAt
<1>5. DOMAIN f \ dead = Stored(c) \ ExpiredKeys(c, t)
    BY <1>1, <1>3, <1>4
<1>. HIDE DEF dead
<1>6. \A k \in DOMAIN f : f[k] = [value |-> c.entries[k].value, expiresAt |-> c.entries[k].expiresAt]
    BY DEF f, Seen
<1>7. Seen(c, t) = Restrict(f, DOMAIN f \ dead)
    BY <1>5, <1>6 DEF Seen, Restrict
<1>8. ExpiredKeys(c, s) \cup dead = ExpiredKeys(c, t)
    BY <1>3, <1>4
<1>9. SeenOrder(c, t) = Unlink(SeenOrder(c, s), dead)
    BY <1>8, UnlinkTwice DEF SeenOrder
<1>. QED
    BY <1>7, <1>9 DEF f, dead

\* What is seen has not expired, so no more of it ends at the same instant.
LEMMA NoneDead ==
    ASSUME NEW c, NEW t
    PROVE  DeadAt(Seen(c, t), t) = {}
BY DEF DeadAt, Seen, ExpiredKeys, HasExpired

-----------------------------------------------------------------------------
(* The refinement of TtlCache, method by method, where the clock does not  *)
(* step back.                                                              *)

\* TtlCache has the operations on orders from KeyOrder, as CacheStore does.
LEMMA PromiseOrders ==
    /\ \A order, S : Promise!Unlink(order, S) = Unlink(order, S)
    /\ \A order : Promise!Members(order) = Members(order)
    /\ \A order, k : Promise!AddLast(order, k) = AddLast(order, k)
    /\ \A order, k : Promise!Touch(order, k) = Touch(order, k)
    /\ \A order : Promise!Prefixes(order) = Prefixes(order)
    /\ \A f, S : Promise!Restrict(f, S) = Restrict(f, S)
<1>1. /\ \A order, S : Promise!Unlink(order, S) = Unlink(order, S)
      /\ \A order : Promise!Members(order) = Members(order)
    BY DEF Promise!Unlink, Unlink, Promise!Members, Members
<1>2. \A order, k : Promise!AddLast(order, k) = AddLast(order, k)
    BY <1>1 DEF Promise!AddLast, AddLast
<1>3. \A order, k : Promise!Touch(order, k) = Touch(order, k)
    BY <1>1, <1>2 DEF Promise!Touch, Touch
<1>4. \A order : Promise!Prefixes(order) = Prefixes(order)
    BY <1>1 DEF Promise!Prefixes, Prefixes, Promise!IsPrefix, IsPrefix
<1>5. \A f, S : Promise!Restrict(f, S) = Restrict(f, S)
    BY DEF Promise!Restrict, Restrict
<1>. QED
    BY <1>1, <1>2, <1>3, <1>4, <1>5

\* The store begins empty, as the promise does.
LEMMA InitPromised == Init => Promise!Init
<1>. SUFFICES ASSUME Init
              PROVE  Promise!Init
    OBVIOUS
<1>1. LiveKeys = {} /\ cache.lru = {} /\ now = 0
    BY DEF Init, LiveKeys, Stored
<1>2. Unlink(cache.lru, ExpiredKeys(cache, now)) = {}
    BY <1>1 DEF Unlink
<1>3. reply = [outcome |-> "none", key |-> Null, ok |-> FALSE, value |-> Null, seconds |-> 0]
    BY DEF Init, Reply
<1>. QED
    BY <1>1, <1>2, <1>3 DEF Promise!Init

\* A step after which the caller sees what it saw before.
LEMMA SameSeen ==
    ASSUME Seen(cache', now') = Seen(cache, now), SeenOrder(cache', now') = SeenOrder(cache, now),
           now' = now, reply' = reply
    PROVE  UNCHANGED Promise!vars
BY DEF Promise!vars, Seen, SeenOrder, LiveKeys

\* #getLiveEntry leaves what is seen alone, and its key is in the Map iff it is seen.
LEMMA PurgeUnseen ==
    ASSUME NEW c, CacheOK(c), NEW k, NEW t
    PROVE  LET d == PurgeKey(c, k, t)
           IN  /\ Seen(d, t) = Seen(c, t) /\ SeenOrder(d, t) = SeenOrder(c, t)
               /\ k \in Stored(d) <=> k \in DOMAIN Seen(c, t)
               /\ k \in Stored(d) => /\ d.entries[k].value = Seen(c, t)[k].value
                                     /\ d.entries[k].expiresAt = Seen(c, t)[k].expiresAt
<1>. DEFINE d == PurgeKey(c, k, t)
<1>1. Without(d, c, ExpiredKeys(c, t) \cap {k})
    BY PurgeViews
<1>. HIDE DEF d
<1>2. Seen(d, t) = Seen(c, t) /\ SeenOrder(d, t) = SeenOrder(c, t)
    <2>1. ExpiredKeys(c, t) \cap {k} \in SUBSET ExpiredKeys(c, t)
        OBVIOUS
    <2>. QED
        BY <1>1, <2>1, ExpiryUnseen
<1>3. k \in Stored(d) <=> k \in Stored(c) \ ExpiredKeys(c, t)
    BY <1>1 DEF Without, ExpiredKeys
<1>4. k \in Stored(d) => d.entries[k] = c.entries[k]
    BY <1>1 DEF Without
<1>. QED
    BY <1>2, <1>3, <1>4 DEF Seen, d

\* set refused by its first check.
LEMMA RejectPromised ==
    ASSUME NEW k \in Keys, NEW v \in Values, RejectTooLarge(k, v)
    PROVE  Promise!Refuse(k, v)
BY DEF RejectTooLarge, TooLarge, Reply, Promise!Refuse, Promise!Answer, LiveKeys

\* get.
LEMMA GetPromised ==
    ASSUME Inv, NEW k \in Keys, Get(k)
    PROVE  Promise!Read(k)
<1>. DEFINE c == PurgeKey(cache, k, now)
            d == [c EXCEPT !.lru = Touch(@, k)]
<1>1. CacheOK(c)
    BY PurgeOK DEF Inv
<1>2. /\ Seen(c, now) = Seen(cache, now) /\ SeenOrder(c, now) = SeenOrder(cache, now)
      /\ k \in Stored(c) <=> k \in DOMAIN Seen(cache, now)
      /\ k \in Stored(c) => c.entries[k].value = Seen(cache, now)[k].value
    <2>1. CacheOK(cache)
        BY DEF Inv
    <2>. QED
        BY <2>1, PurgeUnseen
<1>3. /\ cache' = d /\ now' = now
      /\ IF k \in Stored(c)
         THEN reply' = Reply("value", k, TRUE, c.entries[k].value, 0)
         ELSE reply' = Reply("value", k, FALSE, Null, 0)
    BY DEF Get
<1>. HIDE DEF c
<1>4. Stored(d) = Stored(c) /\ d.entries = c.entries /\ d.lru = Touch(c.lru, k)
    BY <1>1, TouchOK
<1>. HIDE DEF d
<1>5. ExpiredKeys(d, now) = ExpiredKeys(c, now)
    BY <1>4 DEF ExpiredKeys
<1>6. Seen(d, now) = Seen(c, now)
    BY <1>4, <1>5 DEF Seen
<1>7. SeenOrder(d, now) = Touch(SeenOrder(c, now), k)
    <2>1. IsTotalOrder(c.lru) /\ Members(c.lru) = Stored(c)
        BY <1>1 DEF CacheOK
    <2>2. CASE k \notin ExpiredKeys(c, now)
        BY <1>4, <1>5, <2>1, <2>2, UnlinkTouch DEF SeenOrder
    <2>3. CASE k \in ExpiredKeys(c, now)
        <3>1. k \in Stored(c) /\ k \notin DOMAIN Seen(c, now)
            BY <2>3 DEF ExpiredKeys, Seen
        <3>. QED
            BY <1>2, <3>1
    <2>. QED
        BY <2>2, <2>3
<1>8. Seen(cache', now') = Seen(cache, now) /\ SeenOrder(cache', now') = Touch(SeenOrder(cache, now), k)
    BY <1>2, <1>3, <1>6, <1>7
<1>9. IF k \in DOMAIN Seen(cache, now)
      THEN Promise!Answer("value", k, TRUE, Seen(cache, now)[k].value)
      ELSE Promise!Answer("value", k, FALSE, Null)
    BY <1>2, <1>3 DEF Promise!Answer, Reply
<1>. QED
    BY <1>3, <1>8, <1>9, PromiseOrders DEF Promise!Read, Promise!Present, Seen, SeenOrder, LiveKeys

\* delete.
LEMMA DeletePromised ==
    ASSUME Inv, NEW k \in Keys, Delete(k)
    PROVE  Promise!Remove(k)
<1>. DEFINE c == PurgeKey(cache, k, now)
            K == {k} \cap Stored(c)
            d == RemoveStoredKeys(c, K, {}, {})
            f == Restrict(Seen(cache, now), DOMAIN Seen(cache, now) \ {k})
<1>1. CacheOK(c)
    BY PurgeOK DEF Inv
<1>2. /\ Seen(c, now) = Seen(cache, now) /\ SeenOrder(c, now) = SeenOrder(cache, now)
      /\ k \in Stored(c) <=> k \in DOMAIN Seen(cache, now)
    <2>1. CacheOK(cache)
        BY DEF Inv
    <2>. QED
        BY <2>1, PurgeUnseen
<1>3. cache' = d /\ now' = now /\ reply' = Reply("deleted", k, k \in Stored(c), Null, 0)
    BY DEF Delete
<1>. HIDE DEF c
<1>4. Without(d, c, K)
    BY <1>1, RemoveViews
<1>. HIDE DEF d
<1>5. Stored(d) = Stored(c) \ {k} /\ \A j \in Stored(d) : d.entries[j] = c.entries[j]
    BY <1>4 DEF Without
<1>6. ExpiredKeys(d, now) = ExpiredKeys(c, now) \ {k}
    BY <1>5 DEF ExpiredKeys
<1>7. Seen(d, now) = f
    <2>1. DOMAIN Seen(c, now) \ {k} = Stored(d) \ ExpiredKeys(d, now)
        BY <1>5, <1>6 DEF Seen
    <2>2. \A j \in Stored(d) \ ExpiredKeys(d, now) :
              Seen(c, now)[j] = [value |-> d.entries[j].value, expiresAt |-> d.entries[j].expiresAt]
        BY <1>5, <1>6 DEF Seen
    <2>. QED
        BY <1>2, <2>1, <2>2 DEF Restrict, Seen
<1>8. SeenOrder(d, now) = Unlink(SeenOrder(cache, now), {k})
    <2>1. IsTotalOrder(c.lru) /\ Members(c.lru) = Stored(c)
        BY <1>1 DEF CacheOK
    <2>2. d.lru = Unlink(c.lru, K)
        BY <1>4 DEF Without
    <2>3. SeenOrder(d, now) = Unlink(c.lru, K \cup ExpiredKeys(d, now))
        BY <2>2, UnlinkTwice DEF SeenOrder
    <2>4. Unlink(SeenOrder(c, now), {k}) = Unlink(c.lru, ExpiredKeys(c, now) \cup {k})
        BY UnlinkTwice DEF SeenOrder
    <2>5. (K \cup ExpiredKeys(d, now)) \cap Members(c.lru)
              = (ExpiredKeys(c, now) \cup {k}) \cap Members(c.lru)
        BY <1>6, <2>1
    <2>. QED
        BY <1>2, <2>1, <2>3, <2>4, <2>5, UnlinkListed
<1>. HIDE DEF K, f
<1>9. DeadAt(f, now) = {}
    BY <1>7, NoneDead
<1>10. f = Restrict(f, DOMAIN f \ DeadAt(f, now))
    BY <1>7, <1>9 DEF Restrict, Seen
<1>11. SeenOrder(d, now) = Unlink(Unlink(SeenOrder(cache, now), {k}), DeadAt(f, now))
    <2>1. {k} \cup DeadAt(f, now) = {k}
        BY <1>9
    <2>. QED
        BY <1>8, <2>1, UnlinkTwice
<1>12. /\ now' = now
       /\ Seen(cache', now') = Restrict(f, DOMAIN f \ DeadAt(f, now))
       /\ SeenOrder(cache', now') = Unlink(Unlink(SeenOrder(cache, now), {k}), DeadAt(f, now))
    BY <1>3, <1>7, <1>10, <1>11
<1>13. Promise!Answer("deleted", k, k \in DOMAIN Seen(cache, now), Null)
    BY <1>2, <1>3 DEF Promise!Answer, Reply
<1>. QED
    BY <1>12, <1>13, PromiseOrders
    DEF Promise!Remove, Promise!Become, Promise!Present, Seen, SeenOrder, LiveKeys, DeadAt, f

\* exists.
LEMMA ExistsPromised ==
    ASSUME Inv, NEW k \in Keys, Exists(k)
    PROVE  Promise!Test(k)
<1>. DEFINE c == PurgeKey(cache, k, now)
<1>1. /\ Seen(c, now) = Seen(cache, now) /\ SeenOrder(c, now) = SeenOrder(cache, now)
      /\ k \in Stored(c) <=> k \in DOMAIN Seen(cache, now)
    <2>1. CacheOK(cache)
        BY DEF Inv
    <2>. QED
        BY <2>1, PurgeUnseen
<1>2. cache' = c /\ now' = now /\ reply' = Reply("exists", k, k \in Stored(c), Null, 0)
    BY DEF Exists
<1>. HIDE DEF c
<1>3. /\ Seen(cache', now') = Seen(cache, now) /\ SeenOrder(cache', now') = SeenOrder(cache, now)
      /\ now' = now
    BY <1>1, <1>2
<1>4. Promise!Answer("exists", k, k \in DOMAIN Seen(cache, now), Null)
    BY <1>1, <1>2 DEF Promise!Answer, Reply
<1>. QED
    BY <1>3, <1>4 DEF Promise!Test, Promise!Present, Seen, SeenOrder, LiveKeys

\* Time that passes while a method runs, or between methods.
LEMMA Becomes ==
    ASSUME CacheOK(cache'), NEW t \in Nat, now \in Nat, now <= t, now' = t
    PROVE  /\ now' = t
           /\ Seen(cache', now') = Restrict(Seen(cache', now),
                                            DOMAIN Seen(cache', now) \ DeadAt(Seen(cache', now), t))
           /\ SeenOrder(cache', now') = Unlink(SeenOrder(cache', now), DeadAt(Seen(cache', now), t))
BY TimePasses

\* Whole seconds left: no fewer when asked earlier.
LEMMA WholeSeconds ==
    ASSUME NEW a \in Int, NEW b \in Nat, a <= b, NEW m \in Nat \ {0}
    PROVE  a \div m \in Int /\ b \div m \in Nat /\ a \div m <= b \div m
<1>. DEFINE p == a \div m
            q == b \div m
<1>1. p \in Int /\ q \in Int /\ a = m * p + (a % m) /\ b = m * q + (b % m)
    OBVIOUS
<1>2. a % m \in 0..(m - 1) /\ b % m \in 0..(m - 1)
    OBVIOUS
<1>. HIDE DEF p, q
<1>3. p <= q
    <2>. SUFFICES ASSUME p >= q + 1 PROVE FALSE
        BY <1>1
    <2>1. m * p >= m * (q + 1)
        BY <1>1
    <2>2. m * (q + 1) = m * q + m
        BY <1>1
    <2>3. m * p \in Int /\ m * q \in Int /\ m * (q + 1) \in Int
        BY <1>1
    <2>. QED
        BY <1>1, <1>2, <2>1, <2>2, <2>3
<1>4. q >= 0
    <2>. SUFFICES ASSUME q <= -1 PROVE FALSE
        BY <1>1
    <2>1. m * q <= -m
        BY <1>1
    <2>2. m * q \in Int
        BY <1>1
    <2>. QED
        BY <1>1, <1>2, <2>1, <2>2
<1>. QED
    BY <1>1, <1>3, <1>4 DEF p, q

\* The clock readings of a method are not before the method began.
LEMMA ReadingsForward ==
    ASSUME MonotoneClock, now \in Nat
    PROVE  ClockReadings = Promise!Readings /\ \A t \in ClockReadings : t \in Nat /\ now <= t
<1>1. ClockReadings = now..MaxTime
    BY DEF ClockReadings
<1>. QED
    BY <1>1, ClockAssumption DEF Promise!Readings

\* ttl, whose second reading of the clock may be later than its first.
LEMMA TtlPromised ==
    ASSUME Inv, MonotoneClock, NEW k \in Keys, NEW t \in ClockReadings, Ttl(k, t)
    PROVE  Promise!TimeLeft(k, t)
<1>. DEFINE c == PurgeKey(cache, k, now)
            f == Seen(cache, now)
            n == TtlSeconds(c, k, t)
<1>1. CacheOK(c) /\ now \in Nat
    BY PurgeOK DEF Inv, TypeOK
<1>2. t \in Nat /\ now <= t
    BY <1>1, ReadingsForward
<1>3. /\ Seen(c, now) = f /\ SeenOrder(c, now) = SeenOrder(cache, now)
      /\ k \in Stored(c) <=> k \in DOMAIN f
      /\ k \in Stored(c) => c.entries[k].expiresAt = f[k].expiresAt
    <2>1. CacheOK(cache)
        BY DEF Inv
    <2>. QED
        BY <2>1, PurgeUnseen
<1>4. cache' = c /\ now' = t /\ reply' = Reply("ttl", k, k \in Stored(c), Null, n)
    BY DEF Ttl
<1>5. \/ k \notin DOMAIN f /\ n = -2
      \/ k \in DOMAIN f /\ f[k].expiresAt = Null /\ n = -1
      \/ /\ k \in DOMAIN f /\ f[k].expiresAt # Null
         /\ n \in 0..((f[k].expiresAt - now) \div MsPerSecond)
    <2>1. CASE k \notin DOMAIN f
        BY <1>3, <2>1 DEF TtlSeconds
    <2>2. CASE k \in DOMAIN f /\ f[k].expiresAt = Null
        BY <1>3, <2>2 DEF TtlSeconds
    <2>3. CASE k \in DOMAIN f /\ f[k].expiresAt # Null
        <3> DEFINE e == f[k].expiresAt
                   a == (e - t) \div MsPerSecond
                   b == (e - now) \div MsPerSecond
        <3>1. e \in Nat /\ e = c.entries[k].expiresAt
            BY <1>1, <1>3, <2>3 DEF CacheOK, CacheType, Stored, Entry
        <3>2. ~(now >= e)
            BY <2>3 DEF Seen, ExpiredKeys, HasExpired
        <3>3. n = Max({0, a})
            BY <1>3, <2>3, <3>1 DEF TtlSeconds
        <3>. HIDE DEF e, f
        <3>4. e - t \in Int /\ e - now \in Nat /\ e - t <= e - now /\ MsPerSecond \in Nat \ {0}
            BY <1>1, <1>2, <3>1, <3>2, ClockAssumption
        <3>5. a \in Int /\ b \in Nat /\ a <= b
            BY <3>4, WholeSeconds
        <3>. HIDE DEF a, b, n
        <3>6. \E x \in {0, a} : \A y \in {0, a} : x >= y
            BY <3>5
        <3>7. Max({0, a}) \in {0, a} /\ Max({0, a}) >= 0
            BY <3>6 DEF Max
        <3>8. n \in 0..b
            BY <3>3, <3>5, <3>7
        <3>. QED
            BY <2>3, <3>8 DEF b, e
    <2>. QED
        BY <2>1, <2>2, <2>3
<1>. HIDE DEF c, n
<1>6. CacheOK(cache')
    BY <1>1, <1>4
<1>7. Seen(cache', now) = f /\ SeenOrder(cache', now) = SeenOrder(cache, now)
    BY <1>3, <1>4
<1>. HIDE DEF f
<1>8. /\ now' = t
      /\ Seen(cache', now') = Restrict(f, DOMAIN f \ DeadAt(f, t))
      /\ SeenOrder(cache', now') = Unlink(SeenOrder(cache, now), DeadAt(f, t))
    <2>1. /\ Seen(cache', now') = Restrict(Seen(cache', now),
                                      DOMAIN Seen(cache', now) \ DeadAt(Seen(cache', now), t))
          /\ SeenOrder(cache', now') = Unlink(SeenOrder(cache', now), DeadAt(Seen(cache', now), t))
        BY <1>1, <1>2, <1>4, <1>6, Becomes
    <2>. QED
        BY <1>4, <1>7, <2>1
<1>9. Promise!Answer("ttl", k, k \in DOMAIN f, Null) /\ reply'.seconds = n
    BY <1>3, <1>4 DEF Promise!Answer, Reply
<1>. QED
    BY <1>5, <1>8, <1>9, PromiseOrders
    DEF Promise!TimeLeft, Promise!Become, Promise!Present, Seen, SeenOrder, LiveKeys, DeadAt, f

\* Time that passes between methods.
LEMMA TickPromised ==
    ASSUME Inv, MonotoneClock, Tick
    PROVE  \E t \in Promise!Readings : Promise!Pass(t)
<1>. DEFINE f == Seen(cache, now)
<1>1. CacheOK(cache) /\ now \in Nat /\ cache' = cache /\ reply' = reply /\ now' \in ClockReadings
    BY DEF Inv, TypeOK, Tick
<1>2. now' \in Nat /\ now <= now' /\ now' \in Promise!Readings
    BY <1>1, ReadingsForward
<1>3. PICK t \in Promise!Readings : now' = t /\ t \in Nat /\ now <= t
    BY <1>2
<1>4. /\ Seen(cache, t) = Restrict(f, DOMAIN f \ DeadAt(f, t))
      /\ SeenOrder(cache, t) = Unlink(SeenOrder(cache, now), DeadAt(f, t))
    BY <1>1, <1>3, TimePasses
<1>. HIDE DEF f
<1>5. /\ Seen(cache', now') = Restrict(f, DOMAIN f \ DeadAt(f, t))
      /\ SeenOrder(cache', now') = Unlink(SeenOrder(cache, now), DeadAt(f, t))
    BY <1>1, <1>3, <1>4
<1>6. Promise!Pass(t)
    BY <1>1, <1>3, <1>5, PromiseOrders
    DEF Promise!Pass, Promise!Become, Promise!Present, Seen, SeenOrder, LiveKeys, DeadAt, f
<1>. QED
    BY <1>6

\* purgeExpired and the sweeper's ticks cannot be seen, wherever the cursor is.
LEMMA PurgeExpiredUnseen ==
    ASSUME Inv, NEW n, PurgeExpired(n)
    PROVE  UNCHANGED Promise!vars
<1>1. PICK K \in SUBSET ExpiredKeys(cache, now) : cache' = ExpireKeys(cache, K)
    BY DEF PurgeExpired
<1>2. now' = now /\ reply' = reply
    BY DEF PurgeExpired
<1>3. CacheOK(cache)
    BY DEF Inv
<1>4. Without(ExpireKeys(cache, K), cache, K)
    BY <1>3, ExpireViews
<1>5. /\ Seen(ExpireKeys(cache, K), now) = Seen(cache, now)
      /\ SeenOrder(ExpireKeys(cache, K), now) = SeenOrder(cache, now)
    BY <1>3, <1>4, ExpiryUnseen
<1>. QED
    BY <1>1, <1>2, <1>5, SameSeen

\* What set leaves, as seen at the moment it began, is the write of the promise with some of the
\* least recently used entries lost.
LEMMA SetSeen ==
    ASSUME Inv, NEW k \in Keys, NEW v \in Values, NEW ex \in Exs, NEW t \in ClockReadings,
           NEW c, NEW V, NEW entry, SetDone(k, v, ex, t, c, V, entry),
           NEW lost, lost = V \ ExpiredKeys(cache, now)
    PROVE  /\ k \notin lost
           /\ lost \in Prefixes(AddLast(SeenOrder(cache, now), k))
           /\ lost # {} => MaxEntries # Null \/ MaxMemoryBytes # Null
           /\ Seen(cache', now) =
                  [j \in (DOMAIN Seen(cache, now) \cup {k}) \ lost |->
                      IF j = k THEN [value |-> v, expiresAt |-> ExpiryTime(ex)]
                               ELSE Seen(cache, now)[j]]
           /\ SeenOrder(cache', now) = Unlink(AddLast(SeenOrder(cache, now), k), lost)
<1>. DEFINE E == ExpiredKeys(cache, now)
            D == ExpiredKeys(cache', now)
<1>1. /\ CacheOK(c) /\ WithinLimits(c) /\ V \in SUBSET Stored(c) /\ k \notin V
      /\ IsVictimSet(c, k, entry.sizeBytes, V) /\ entry.sizeBytes \in Nat
      /\ entry.value = v /\ entry.expiresAt = ExpiryTime(ex)
    <2>1. /\ CacheOK(c) /\ WithinLimits(c) /\ V \in SUBSET Stored(c) /\ k \notin V
          /\ IsVictimSet(c, k, entry.sizeBytes, V) /\ entry \in Entry
          /\ entry = [value |-> v, expiresAt |-> ExpiryTime(ex), sizeBytes |-> EntrySizeBytes[k, v]]
        BY Zenon DEF SetDone
    <2>2. entry.value = v /\ entry.expiresAt = ExpiryTime(ex)
        BY <2>1
    <2>. QED
        BY <2>1, <2>2 DEF Entry
<1>2. Prepared(c, cache, k, t) /\ Wrote(cache', c, V, k, entry, t)
    BY SetViews
<1>3. /\ Stored(c) = Stored(cache) \ (ExpiredKeys(cache, t) \cap {k})
      /\ \A j \in Stored(c) : c.entries[j] = cache.entries[j]
      /\ \A i, j : i # k /\ j # k => (<<i, j>> \in c.lru <=> <<i, j>> \in cache.lru)
    BY <1>2 DEF Prepared
<1>4. /\ Stored(cache') = (Stored(c) \ V) \cup {k}
      /\ cache'.entries[k] = entry
      /\ \A j \in Stored(c) \ V : j # k => cache'.entries[j] = c.entries[j]
      /\ cache'.lru = AddLast(Unlink(c.lru, V), k)
    BY <1>2 DEF Wrote
<1>5. CacheOK(cache) /\ now \in Nat
    BY DEF Inv, TypeOK
<1>6. /\ IsTotalOrder(cache.lru) /\ Members(cache.lru) = Stored(cache)
      /\ IsTotalOrder(c.lru) /\ Members(c.lru) = Stored(c)
    BY <1>1, <1>5 DEF CacheOK
<1>7. ~HasExpired(entry, now)
    <2>1. CASE ex = Null
        BY <1>1, <2>1 DEF HasExpired, ExpiryTime
    <2>2. CASE ex # Null
        <3>1. ex \in Nat \ {0} /\ MsPerSecond \in Nat \ {0}
            BY <2>2, ClockAssumption
        <3>2. ex * MsPerSecond \in Nat \ {0}
            BY <3>1
        <3>3. entry.expiresAt = now + ex * MsPerSecond
            BY <1>1, <2>2 DEF ExpiryTime
        <3>. QED
            BY <1>5, <3>2, <3>3 DEF HasExpired
    <2>. QED
        BY <2>1, <2>2
<1>8. /\ k \notin D
      /\ \A j : j # k => (j \in D <=> j \in E /\ j \notin V)
    <2>1. \A j : j # k => (j \in Stored(c) <=> j \in Stored(cache))
        BY <1>3
    <2>2. \A j \in Stored(c) \ V : j # k => cache'.entries[j] = cache.entries[j]
        BY <1>3, <1>4
    <2>. QED
        BY <1>4, <1>7, <2>1, <2>2 DEF ExpiredKeys
<1>9. /\ DOMAIN Seen(cache, now) = Stored(cache) \ E
      /\ \A j \in Stored(cache) \ E : Seen(cache, now)[j] =
             [value |-> cache.entries[j].value, expiresAt |-> cache.entries[j].expiresAt]
    BY DEF Seen
<1>. HIDE DEF E, D
<1>10. lost = V \ E /\ k \notin lost
    BY <1>1 DEF E
<1>11. lost # {} => MaxEntries # Null \/ MaxMemoryBytes # Null
    BY <1>1, LastVictimNeeded
<1>12. Seen(cache', now) =
           [j \in (DOMAIN Seen(cache, now) \cup {k}) \ lost |->
               IF j = k THEN [value |-> v, expiresAt |-> ExpiryTime(ex)] ELSE Seen(cache, now)[j]]
    <2>1. Stored(cache') \ D = ((Stored(cache) \ E) \cup {k}) \ lost
        BY <1>1, <1>3, <1>4, <1>8, <1>10
    <2>2. \A j \in Stored(cache') \ D :
              [value |-> cache'.entries[j].value, expiresAt |-> cache'.entries[j].expiresAt]
                  = IF j = k THEN [value |-> v, expiresAt |-> ExpiryTime(ex)] ELSE Seen(cache, now)[j]
        BY <1>1, <1>3, <1>4, <1>8, <1>9, <2>1
    <2>3. Seen(cache', now) =
              [j \in Stored(cache') \ D |->
                  [value |-> cache'.entries[j].value, expiresAt |-> cache'.entries[j].expiresAt]]
        BY DEF Seen, D
    <2>. QED
        BY <1>9, <2>1, <2>2, <2>3
<1>. DEFINE o == Unlink(Unlink(c.lru, V), D)
            p == Unlink(Unlink(cache.lru, E), lost)
<1>13. AddLast(o, k) = AddLast(p, k)
    <2>1. IsTotalOrder(o) /\ IsTotalOrder(p)
        BY <1>6, UnlinkOrder
    <2>2. ASSUME NEW i, NEW j, i # k, j # k
          PROVE  <<i, j>> \in o <=> <<i, j>> \in p
        <3>1. <<i, j>> \in o <=> <<i, j>> \in c.lru /\ i \notin V /\ j \notin V /\ i \notin D /\ j \notin D
            BY UnlinkPairs
        <3>2. <<i, j>> \in p <=> /\ <<i, j>> \in cache.lru
                                 /\ i \notin E /\ j \notin E /\ i \notin lost /\ j \notin lost
            BY UnlinkPairs
        <3>. QED
            BY <1>3, <1>8, <1>10, <2>2, <3>1, <3>2
    <2>. HIDE DEF o, p
    <2>. QED
        BY <2>1, <2>2, AddLastSame
<1>14. SeenOrder(cache', now) = Unlink(AddLast(SeenOrder(cache, now), k), lost)
    <2>1. IsTotalOrder(Unlink(c.lru, V)) /\ IsTotalOrder(Unlink(cache.lru, E))
        BY <1>6, UnlinkOrder
    <2>2. SeenOrder(cache', now) = AddLast(o, k)
        BY <1>4, <1>8, <2>1, UnlinkAddLast DEF SeenOrder, D
    <2>3. Unlink(AddLast(SeenOrder(cache, now), k), lost) = AddLast(p, k)
        BY <1>10, <2>1, UnlinkAddLast DEF SeenOrder, E
    <2>. QED
        BY <1>13, <2>2, <2>3
<1>15. lost \in Prefixes(AddLast(SeenOrder(cache, now), k))
    <2> DEFINE q == Unlink(cache.lru, E)
    <2>1. IsTotalOrder(q) /\ Members(q) = Stored(cache) \ E /\ SeenOrder(cache, now) = q
        BY <1>6, UnlinkOrder, UnlinkMembers DEF SeenOrder, E
    <2>2. IsTotalOrder(AddLast(q, k)) /\ Members(AddLast(q, k)) = (Stored(cache) \ E) \cup {k}
        BY <2>1, AddLastOrder, AddLastMembers
    <2>3. lost \subseteq Members(AddLast(q, k))
        BY <1>1, <1>3, <1>10, <2>2
    <2>4. ASSUME NEW r \in AddLast(q, k), r[2] \in lost
          PROVE  r[1] \in lost
        <3>1. r = <<r[1], r[2]>>
            BY <2>2, OrderPairs
        <3>2. r[2] # k /\ r[2] \in V
            BY <1>10, <2>4
        <3>3. <<r[1], r[2]>> \in q /\ r[1] # k
            BY <3>1, <3>2, AddLastPairs
        <3>4. <<r[1], r[2]>> \in cache.lru /\ r[1] \notin E
            BY <3>3, UnlinkPairs
        <3>5. <<r[1], r[2]>> \in c.lru
            BY <1>3, <3>2, <3>3, <3>4
        <3>6. \A w \in c.lru : w[2] \in V => w[1] \in V
            BY <1>1 DEF IsVictimSet, Prefixes, IsPrefix
        <3>7. r[1] \in V
            BY <3>2, <3>5, <3>6
        <3>. QED
            BY <1>10, <3>4, <3>7
    <2>. HIDE DEF q
    <2>. QED
        BY <2>1, <2>3, <2>4 DEF Prefixes, IsPrefix
<1>. QED
    BY <1>10, <1>11, <1>12, <1>14, <1>15

\* set: the write, and then the time that passed while it ran.
LEMMA SetPromised ==
    ASSUME Inv, MonotoneClock, NEW k \in Keys, NEW v \in Values, NEW ex \in Exs,
           NEW t \in ClockReadings, Set(k, v, ex, t)
    PROVE  Promise!Write(k, v, ex, t)
<1>1. PICK c, V, entry : SetDone(k, v, ex, t, c, V, entry)
    BY SetFacts
<1>2. PICK lost : lost = V \ ExpiredKeys(cache, now)
    OBVIOUS
<1> DEFINE order == AddLast(SeenOrder(cache, now), k)
           f == [j \in (DOMAIN Seen(cache, now) \cup {k}) \ lost |->
                    IF j = k THEN [value |-> v, expiresAt |-> ExpiryTime(ex)]
                             ELSE Seen(cache, now)[j]]
<1>3. /\ k \notin lost /\ lost \in Prefixes(order)
      /\ lost # {} => MaxEntries # Null \/ MaxMemoryBytes # Null
      /\ Seen(cache', now) = f
      /\ SeenOrder(cache', now) = Unlink(order, lost)
    BY <1>1, <1>2, SetSeen
<1>. HIDE DEF f, order
<1>4. now \in Nat /\ t \in Nat /\ now <= t
    BY ReadingsForward DEF Inv, TypeOK
<1>5. now' = t /\ CacheOK(cache')
    <2>1. Inv'
        BY SetInv
    <2>. QED
        BY <2>1 DEF Inv, Set
<1>6. /\ now' = t
      /\ Seen(cache', now') = Restrict(f, DOMAIN f \ DeadAt(f, t))
      /\ SeenOrder(cache', now') = Unlink(Unlink(order, lost), DeadAt(f, t))
    <2>1. /\ Seen(cache', now') = Restrict(Seen(cache', now),
                                      DOMAIN Seen(cache', now) \ DeadAt(Seen(cache', now), t))
          /\ SeenOrder(cache', now') = Unlink(SeenOrder(cache', now), DeadAt(Seen(cache', now), t))
        BY <1>4, <1>5, Becomes
    <2>. QED
        BY <1>3, <1>5, <2>1
<1>7. reply' = Reply("stored", k, TRUE, v, 0)
    BY <1>1, Zenon DEF SetDone
<1>8. Promise!Answer("stored", k, TRUE, v)
    BY <1>7 DEF Promise!Answer, Reply
<1>9. Promise!Become(f, Unlink(order, lost), t)
    BY <1>6, PromiseOrders DEF Promise!Become, Seen, SeenOrder, LiveKeys, DeadAt
<1>. QED
    BY <1>3, <1>8, <1>9, PromiseOrders
    DEF Promise!Write, Promise!Present, Seen, SeenOrder, LiveKeys, ExpiryTime, f, order

\* Every step of the store is a step of the promise or cannot be seen.
LEMMA NextPromised ==
    ASSUME Inv, MonotoneClock, [Next]_vars
    PROVE  [Promise!Next]_(Promise!vars)
<1>0. now \in Nat
    BY DEF Inv, TypeOK
<1>1. CASE \E k \in Keys, v \in Values : RejectTooLarge(k, v)
    BY <1>1, RejectPromised DEF Promise!Next
<1>2. CASE \E k \in Keys, v \in Values, ex \in Exs, t \in ClockReadings : Set(k, v, ex, t)
    BY <1>0, <1>2, SetPromised, ReadingsForward DEF Promise!Next
<1>3. CASE \E k \in Keys : Get(k)
    BY <1>3, GetPromised DEF Promise!Next
<1>4. CASE \E k \in Keys : Delete(k)
    BY <1>4, DeletePromised DEF Promise!Next
<1>5. CASE \E k \in Keys : Exists(k)
    BY <1>5, ExistsPromised DEF Promise!Next
<1>6. CASE \E k \in Keys, t \in ClockReadings : Ttl(k, t)
    BY <1>0, <1>6, TtlPromised, ReadingsForward DEF Promise!Next
<1>7. CASE PurgeAll \/ SweeperTick
    BY <1>7, PurgeExpiredUnseen DEF PurgeAll, SweeperTick
<1>8. CASE StartSweeper \/ StopSweeper \/ UNCHANGED vars
    <2>1. cache' = cache /\ now' = now /\ reply' = reply
        BY <1>8 DEF StartSweeper, StopSweeper, vars
    <2>. QED
        BY <2>1, SameSeen
<1>9. CASE Tick
    BY <1>9, TickPromised DEF Promise!Next
<1>. QED
    BY <1>1, <1>2, <1>3, <1>4, <1>5, <1>6, <1>7, <1>8, <1>9 DEF Next, Foreground

-----------------------------------------------------------------------------

\* Every reachable state satisfies the inductive invariant: the cache record stays in order and
\* within its limits through every method, sweep and movement of the clock.
THEOREM Safety == Spec => []Inv
<1>1. Init => Inv
    BY InitInv
<1>2. Inv /\ [Next]_vars => Inv'
    BY NextInv
<1>. QED
    BY <1>1, <1>2, PTL DEF Spec

\* Every variable keeps its type; memoryBytes never becomes negative and the cursor never leaves Nat.
THEOREM TypeCorrect == Spec => []TypeOK
<1>1. Inv => TypeOK
    BY DEF Inv
<1>. QED
    BY <1>1, Safety, PTL

\* The LRU list and the Map always hold the same keys (no key is lost to the eviction loop, none dangles).
THEOREM LruTracksStoreHolds == Spec => []LruTracksStore
<1>1. Inv => LruTracksStore
    BY DEF Inv, CacheOK, LruTracksStore
<1>. QED
    BY <1>1, Safety, PTL

\* #memoryBytes is the sum of the sizes of the stored entries.
THEOREM MemoryAccountingHolds == Spec => []MemoryAccounting
<1>1. Inv => MemoryAccounting
    BY DEF Inv, CacheOK, MemoryAccounting
<1>. QED
    BY <1>1, Safety, PTL

\* The configured limits on entries and bytes hold after every method, for any sizes of entries.
THEOREM CapacityHolds == Spec => []CapacityRespected
<1>1. Inv => CapacityRespected
    BY DEF Inv, WithinLimits, CapacityRespected
<1>. QED
    BY <1>1, Safety, PTL

\* The throw at the end of #ensureCapacity is dead code: no write is refused after it evicted others.
THEOREM NoLateRejectionHolds == Spec => []NoLateRejection
<1>1. Inv => NoLateRejection
    BY DEF Inv
<1>. QED
    BY <1>1, Safety, PTL

\* Eviction is LRU and no earlier than needed: whatever a step loses, it lost for a write, it is
\* counted, it is older than all that stays, and it could not all have been kept.
THEOREM LruEvictionHolds == Spec => LruEviction
<1>1. Inv /\ [Next]_vars => [LruEvictionStep]_vars
    BY SetEvictsLru, OthersLoseNothing
<1>. QED
    BY <1>1, Safety, PTL DEF Spec, LruEviction

\* The store keeps its promise: where the clock does not step back, no caller can tell it from a
\* map whose entries vanish the instant they expire and that loses, to a write and when limited,
\* only its least recently used entries.
THEOREM PromiseKept == MonotoneClock => (Spec => PromisedCache)
<1>. SUFFICES ASSUME MonotoneClock
              PROVE  Spec => PromisedCache
    OBVIOUS
<1>1. Init => Promise!Init
    BY InitPromised
<1>2. Inv /\ [Next]_vars => [Promise!Next]_(Promise!vars)
    BY NextPromised
<1>. QED
    BY <1>1, <1>2, Safety, PTL DEF Spec, PromisedCache, Promise!Spec
=============================================================================
