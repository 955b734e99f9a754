----------------------------- MODULE CacheStore -----------------------------
(***************************************************************************)
(* packages/cache-core/src/cache-store.js: one in-memory store with TTLs,  *)
(* an LRU list, limits on entries and bytes, and a background sweeper.     *)
(*                                                                         *)
(* Every method runs to completion on Node's event loop, so a method is    *)
(* one action.  The clock is not part of that: it moves between methods    *)
(* (Tick) and between the reads that one method makes of it.               *)
(***************************************************************************)
EXTENDS KeyOrder, FiniteSetsExt, Functions

CONSTANTS
    Keys, Values,
    EntrySizeBytes,   \* entrySizeBytes(key, value): UTF-8 bytes of both
    Null,             \* JavaScript's null: "no expiry", "no limit"
    MaxEntries,       \* options.maxEntries, or Null
    MaxMemoryBytes,   \* options.maxMemoryBytes, or Null
    MaxExamined,      \* options.sweeper.maxExamined
    Exs,              \* the EX arguments, in seconds, and Null for none
    MsPerSecond,      \* 1000 in the code
    MonotoneClock,    \* FALSE: Date.now may step back
    MaxTime,          \* bound: the clock stays in 0..MaxTime
    MaxCount          \* bound: no method starts once the counters sum to it

ASSUME KeysAssumption == IsFiniteSet(Keys) /\ Null \notin Keys
ASSUME SizesAssumption == EntrySizeBytes \in [Keys \X Values -> Nat \ {0}]
ASSUME LimitsAssumption ==
    /\ MaxEntries # Null => MaxEntries \in Nat \ {0}
    /\ MaxMemoryBytes # Null => MaxMemoryBytes \in Nat \ {0}
    /\ MaxExamined \in Nat \ {0}
ASSUME ClockAssumption ==
    /\ Exs \subseteq (Nat \ {0}) \cup {Null}
    /\ MsPerSecond \in Nat \ {0}
    /\ MonotoneClock \in BOOLEAN
    /\ MaxTime \in Nat
    /\ MaxCount \in Nat
ASSUME NullAssumption == Null \notin Int /\ Null \notin Values

VARIABLES
    cache,        \* what #removeStoredKey and set keep in step; see CacheType
    hits, misses,
    sweepCursor, sweeping,
    now,          \* what this.now() returns
    reply         \* what the last method returned or threw

vars == <<cache, hits, misses, sweepCursor, sweeping, now, reply>>

Entry == [value : Values, expiresAt : Nat \cup {Null}, sizeBytes : Nat \ {0}]

\* lru and mapOrder are the orders of the LruList and of the Map's own keys.
CacheType(c) ==
    /\ DOMAIN c = {"entries", "lru", "mapOrder", "memoryBytes", "expirations", "evictions"}
    /\ DOMAIN c.entries \subseteq Keys
    /\ c.entries \in [DOMAIN c.entries -> Entry]
    /\ c.lru \subseteq Keys \X Keys
    /\ c.mapOrder \subseteq Keys \X Keys
    /\ c.memoryBytes \in Nat /\ c.expirations \in Nat /\ c.evictions \in Nat

Outcomes == {"none", "stored", "tooLarge", "cannotFree", "value", "deleted", "exists", "ttl"}

ReplyType == [outcome : Outcomes, key : Keys \cup {Null}, ok : BOOLEAN,
              value : Values \cup {Null}, seconds : Int]

\* The invariant of types.
TypeOK ==
    /\ CacheType(cache)
    /\ hits \in Nat /\ misses \in Nat
    /\ sweepCursor \in Nat /\ sweeping \in BOOLEAN
    /\ now \in Nat
    /\ reply \in ReplyType

Reply(outcome, k, ok, value, seconds) ==
    [outcome |-> outcome, key |-> k, ok |-> ok, value |-> value, seconds |-> seconds]

Init ==
    /\ cache = [entries |-> [k \in {} |-> Null], lru |-> {}, mapOrder |-> {},
                memoryBytes |-> 0, expirations |-> 0, evictions |-> 0]
    /\ hits = 0 /\ misses = 0
    /\ sweepCursor = 0
    /\ sweeping \in BOOLEAN          \* options.sweeper given or not
    /\ now = 0
    /\ reply = Reply("none", Null, FALSE, Null, 0)

-----------------------------------------------------------------------------
(* The parts of the methods, as functions of the cache c.                  *)

Stored(c) == DOMAIN c.entries

\* The bytes that keys K occupy: an entry of n bytes is n cells <<k, 1>> ... <<k, n>>.
CellsOf(entries, K) == UNION {{k} \X (1..entries[k].sizeBytes) : k \in K}

BytesOf(entries, K) == Cardinality(CellsOf(entries, K))

HasExpired(entry, t) == entry.expiresAt # Null /\ t >= entry.expiresAt

ExpiredKeys(c, t) == {k \in Stored(c) : HasExpired(c.entries[k], t)}

\* Mutant: the key stays in the LRU list.
ForgetLruRemove(c, K, expired, evicted) ==
    [entries     |-> Restrict(c.entries, Stored(c) \ K),
     lru         |-> c.lru,
     mapOrder    |-> Unlink(c.mapOrder, K),
     memoryBytes |-> c.memoryBytes - BytesOf(c.entries, K),
     expirations |-> c.expirations + Cardinality(expired),
     evictions   |-> c.evictions + Cardinality(evicted)]

\* Mutant: the bytes of removed keys are not given back.
ForgetMemoryRemove(c, K, expired, evicted) ==
    [entries     |-> Restrict(c.entries, Stored(c) \ K),
     lru         |-> Unlink(c.lru, K),
     mapOrder    |-> Unlink(c.mapOrder, K),
     memoryBytes |-> c.memoryBytes,
     expirations |-> c.expirations + Cardinality(expired),
     evictions   |-> c.evictions + Cardinality(evicted)]

\* #removeStoredKey for each key of K; expired and evicted are those it counts.
RemoveStoredKeys(c, K, expired, evicted) ==
    [entries     |-> Restrict(c.entries, Stored(c) \ K),
     lru         |-> Unlink(c.lru, K),
     mapOrder    |-> Unlink(c.mapOrder, K),
     memoryBytes |-> c.memoryBytes - BytesOf(c.entries, K),
     expirations |-> c.expirations + Cardinality(expired),
     evictions   |-> c.evictions + Cardinality(evicted)]

ExpireKeys(c, K) == RemoveStoredKeys(c, K, K, {})

\* #getLiveEntry's effect: the key goes when it has expired at t.
PurgeKey(c, k, t) == ExpireKeys(c, ExpiredKeys(c, t) \cap {k})

OldSizeBytes(c, k) == IF k \in Stored(c) THEN c.entries[k].sizeBytes ELSE 0

\* Mutants: the loop over entries stops one late, or also runs for an overwritten key.
EntriesFitOffByOne(c, k, V) ==
    k \notin Stored(c) /\ MaxEntries # Null => Cardinality(Stored(c) \ V) <= MaxEntries

EntriesFitAlways(c, k, V) ==
    MaxEntries # Null => Cardinality(Stored(c) \ V) < MaxEntries

\* The conditions of the two loops of #ensureCapacity, once keys V are gone.
EntriesFit(c, k, V) ==
    k \notin Stored(c) /\ MaxEntries # Null => Cardinality(Stored(c) \ V) < MaxEntries

MemoryFits(c, k, size, V) ==
    MaxMemoryBytes # Null =>
        c.memoryBytes - BytesOf(c.entries, V) - OldSizeBytes(c, k) + size <= MaxMemoryBytes

\* #evictOne returns false: nothing is left to evict but the key being written.
NoVictim(c, k, V) ==
    LET rest == Unlink(c.lru, V) IN Members(rest) = {} \/ IsFirst(k, rest)

StopsEvicting(c, k, size, V) ==
    (EntriesFit(c, k, V) /\ MemoryFits(c, k, size, V)) \/ NoVictim(c, k, V)

\* The keys #ensureCapacity removes: it evicts from the tail until it stops.
IsVictimSet(c, k, size, V) ==
    /\ V \in Prefixes(c.lru)
    /\ StopsEvicting(c, k, size, V)
    /\ \A W \in Prefixes(c.lru) : StopsEvicting(c, k, size, W) => V \subseteq W

\* Mutant: the resized key stays where it was in the LRU list.
NoTouch(c, k) == c

\* "Prefer evicting other keys when resizing an existing entry."
TouchResized(c, k) ==
    IF k \in Stored(c) /\ MaxMemoryBytes # Null THEN [c EXCEPT !.lru = Touch(@, k)] ELSE c

\* #evictOne counts a victim as an expiration when it has expired.
EvictKeys(c, V, t) ==
    RemoveStoredKeys(c, V, V \cap ExpiredKeys(c, t), V \ ExpiredKeys(c, t))

\* Mutant: the bytes of the new entry are not added.
ForgetMemoryWrite(c, k, entry) ==
    [c EXCEPT !.entries = [j \in Stored(c) \cup {k} |-> IF j = k THEN entry ELSE @[j]],
              !.lru = AddLast(@, k),
              !.mapOrder = IF k \in Stored(c) THEN @ ELSE AddLast(@, k),
              !.memoryBytes = @ - OldSizeBytes(c, k)]

\* The tail of set: an overwritten key keeps its place in the Map.
WriteEntry(c, k, entry) ==
    [c EXCEPT !.entries = [j \in Stored(c) \cup {k} |-> IF j = k THEN entry ELSE @[j]],
              !.lru = AddLast(@, k),
              !.mapOrder = IF k \in Stored(c) THEN @ ELSE AddLast(@, k),
              !.memoryBytes = @ - OldSizeBytes(c, k) + entry.sizeBytes]

ExpiryTime(ex) == IF ex = Null THEN Null ELSE now + ex * MsPerSecond

-----------------------------------------------------------------------------
(* The methods.  A method that reads the clock again sees t.               *)

ClockReadings == (IF MonotoneClock THEN now ELSE 0)..MaxTime

MayCall == hits + misses + cache.expirations + cache.evictions < MaxCount

TooLarge(k, v) == MaxMemoryBytes # Null /\ EntrySizeBytes[k, v] > MaxMemoryBytes

RejectTooLarge(k, v) ==
    /\ MayCall
    /\ TooLarge(k, v)
    /\ reply' = Reply("tooLarge", k, FALSE, v, 0)
    /\ UNCHANGED <<cache, hits, misses, sweepCursor, sweeping, now>>

Set(k, v, ex, t) ==
    LET size  == EntrySizeBytes[k, v]
        entry == [value |-> v, expiresAt |-> ExpiryTime(ex), sizeBytes |-> size]
        c     == TouchResized(PurgeKey(cache, k, t), k)
    IN  /\ MayCall
        /\ ~TooLarge(k, v)
        /\ \E V \in SUBSET Members(c.lru) :
              /\ IsVictimSet(c, k, size, V)
              /\ IF MemoryFits(c, k, size, V)
                 THEN /\ cache' = WriteEntry(EvictKeys(c, V, t), k, entry)
                      /\ reply' = Reply("stored", k, TRUE, v, 0)
                 ELSE /\ cache' = EvictKeys(c, V, t)
                      /\ reply' = Reply("cannotFree", k, FALSE, v, 0)
        /\ now' = t
        /\ UNCHANGED <<hits, misses, sweepCursor, sweeping>>

Get(k) ==
    LET c == PurgeKey(cache, k, now)
    IN  /\ MayCall
        /\ cache' = [c EXCEPT !.lru = Touch(@, k)]
        /\ IF k \in Stored(c)
           THEN /\ hits' = hits + 1 /\ UNCHANGED misses
                /\ reply' = Reply("value", k, TRUE, c.entries[k].value, 0)
           ELSE /\ misses' = misses + 1 /\ UNCHANGED hits
                /\ reply' = Reply("value", k, FALSE, Null, 0)
        /\ UNCHANGED <<sweepCursor, sweeping, now>>

Delete(k) ==
    LET c == PurgeKey(cache, k, now)
    IN  /\ MayCall
        /\ cache' = RemoveStoredKeys(c, {k} \cap Stored(c), {}, {})
        /\ reply' = Reply("deleted", k, k \in Stored(c), Null, 0)
        /\ UNCHANGED <<hits, misses, sweepCursor, sweeping, now>>

Exists(k) ==
    /\ MayCall
    /\ cache' = PurgeKey(cache, k, now)
    /\ reply' = Reply("exists", k, k \in Stored(cache'), Null, 0)
    /\ UNCHANGED <<hits, misses, sweepCursor, sweeping, now>>

\* Mutant: the time left is not clamped at 0.
TtlSecondsUnclamped(c, k, t) ==
    IF k \notin Stored(c) THEN -2
    ELSE IF c.entries[k].expiresAt = Null THEN -1
    ELSE (c.entries[k].expiresAt - t) \div MsPerSecond

\* ttl's answers: -2 missing, -1 no expiry, else whole seconds, never below 0.
TtlSeconds(c, k, t) ==
    IF k \notin Stored(c) THEN -2
    ELSE IF c.entries[k].expiresAt = Null THEN -1
    ELSE Max({0, (c.entries[k].expiresAt - t) \div MsPerSecond})

Ttl(k, t) ==
    /\ MayCall
    /\ cache' = PurgeKey(cache, k, now)
    /\ reply' = Reply("ttl", k, k \in Stored(cache'), Null, TtlSeconds(cache', k, t))
    /\ now' = t
    /\ UNCHANGED <<hits, misses, sweepCursor, sweeping>>

\* The keys whose index is one of sweepCursor, ..., sweepCursor + toExamine - 1, modulo the size.
ExaminedKeys(toExamine) ==
    {k \in Stored(cache) :
        (Index(cache.mapOrder, k) - sweepCursor) % Cardinality(Stored(cache)) < toExamine}

\* Mutant: the cursor stays where it was.
StuckCursor(toExamine) == sweepCursor

NextCursor(toExamine) == (sweepCursor + toExamine) % Cardinality(Stored(cache))

PurgeExpired(maxExamined) ==
    LET toExamine == Min({maxExamined, Cardinality(Stored(cache))})
        expired   == ExaminedKeys(toExamine) \cap ExpiredKeys(cache, now)
    IN  /\ cache' = ExpireKeys(cache, expired)
        /\ sweepCursor' = IF Stored(cache') = {} THEN 0 ELSE NextCursor(toExamine)
        /\ UNCHANGED <<hits, misses, sweeping, now, reply>>

\* purgeExpired() without maxExamined looks at every key.
PurgeAll == MayCall /\ PurgeExpired(Cardinality(Keys))

SweeperTick == sweeping /\ PurgeExpired(MaxExamined)

StartSweeper ==
    /\ MayCall
    /\ sweeping' = TRUE
    /\ UNCHANGED <<cache, hits, misses, sweepCursor, now, reply>>

StopSweeper ==
    /\ MayCall
    /\ sweeping' = FALSE
    /\ UNCHANGED <<cache, hits, misses, sweepCursor, now, reply>>

Tick ==
    /\ now' \in ClockReadings
    /\ UNCHANGED <<cache, hits, misses, sweepCursor, sweeping, reply>>

Foreground ==
    \/ \E k \in Keys, v \in Values : RejectTooLarge(k, v)
    \/ \E k \in Keys, v \in Values, ex \in Exs, t \in ClockReadings : Set(k, v, ex, t)
    \/ \E k \in Keys : Get(k)
    \/ \E k \in Keys : Delete(k)
    \/ \E k \in Keys : Exists(k)
    \/ \E k \in Keys, t \in ClockReadings : Ttl(k, t)
    \/ PurgeAll
    \/ StartSweeper
    \/ StopSweeper

Next == Foreground \/ SweeperTick \/ Tick

Spec == Init /\ [][Next]_vars

\* setInterval keeps firing while the process lives, so the sweeper is weakly fair.
FairSpec == Spec /\ WF_vars(SweeperTick)
=============================================================================
