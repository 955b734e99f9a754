------------------------ MODULE CacheStoreProperties ------------------------
(***************************************************************************)
(* What must hold of CacheStore.                                           *)
(***************************************************************************)
EXTENDS CacheStore

\* LruTracksStore: the LRU list and the Map always hold exactly the same keys, each once and
\* in a total order, through every way a key can leave (delete, lazy expiry, sweep, eviction)
\* - else peekLru would name a key the store lacks and #ensureCapacity would spin or stop short.
LruTracksStore ==
    /\ IsTotalOrder(cache.lru) /\ Members(cache.lru) = Stored(cache)
    /\ IsTotalOrder(cache.mapOrder) /\ Members(cache.mapOrder) = Stored(cache)

\* MemoryAccounting: the running counter #memoryBytes, patched by every method, is the sum of
\* the sizes of the entries actually stored.
MemoryAccounting == cache.memoryBytes = BytesOf(cache.entries, Stored(cache))

\* CapacityRespected: no sequence of methods leaves the store above a configured limit.
CapacityRespected ==
    /\ MaxEntries # Null => Cardinality(Stored(cache)) <= MaxEntries
    /\ MaxMemoryBytes # Null => cache.memoryBytes <= MaxMemoryBytes

\* NoLateRejection: set never reaches the second throw of #ensureCapacity, which would reject
\* the write after other entries had been evicted for it: an entry that passed the first size
\* check always fits once every other key is gone.
NoLateRejection == reply.outcome # "cannotFree"

\* LruEviction: a live entry is lost, other than by delete, only to a write that stored another
\* key, only as one of the least recently used (every surviving entry but the written one is
\* younger), and only when keeping some lost entry would exceed a limit.
LiveLosses ==
    {k \in Stored(cache) \ Stored(cache') :
        ~HasExpired(cache.entries[k], now) /\ ~HasExpired(cache.entries[k], now')}

WouldOverflow(k) ==
    \/ MaxEntries # Null /\ Cardinality(Stored(cache')) + 1 > MaxEntries
    \/ MaxMemoryBytes # Null
          /\ cache'.memoryBytes + cache.entries[k].sizeBytes > MaxMemoryBytes

LruEvictionStep ==
    LET lost == LiveLosses \ (IF reply'.outcome = "deleted" THEN {reply'.key} ELSE {})
    IN  lost # {} =>
            /\ reply'.outcome = "stored"
            /\ cache'.evictions >= cache.evictions + Cardinality(lost)
            /\ \A k \in lost, j \in Stored(cache) \cap Stored(cache') :
                  j # reply'.key => <<k, j>> \in cache.lru
            /\ \E k \in Stored(cache) \ Stored(cache') : WouldOverflow(k)

LruEviction == [][LruEvictionStep]_vars

\* PromisedCache: the store implements TtlCache.  No caller ever reads a value that was
\* overwritten, deleted, evicted or has expired, loses one that is still due, or can tell lazy
\* expiry, the sweeper and eviction of an expired key apart.
LiveKeys == Stored(cache) \ ExpiredKeys(cache, now)

Promise == INSTANCE TtlCache WITH
    live <- [k \in LiveKeys |-> [value |-> cache.entries[k].value,
                                 expiresAt |-> cache.entries[k].expiresAt]],
    recency <- Unlink(cache.lru, ExpiredKeys(cache, now)),
    clock <- now,
    Limited <- MaxEntries # Null \/ MaxMemoryBytes # Null

PromisedCache == Promise!Spec

\* SweeperDrains: once callers go quiet with the sweeper running, every expired entry is
\* eventually reclaimed, however the round-robin cursor was displaced by earlier methods and
\* by the sweeper's own removals.
Background == SweeperTick \/ Tick

SweeperDrains ==
    <>[](sweeping) /\ <>[][Background]_vars => <>[](ExpiredKeys(cache, now) = {})
=============================================================================
