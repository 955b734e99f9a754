# Formal models of Universal-distributed-cache-system

TLA+ models of the cache in this repository, the TLC runs that check them and
the TLAPS proofs about them. Paths below are relative to `src/`.

The system is a set of cache nodes in Node.js. Each node keeps an in-memory
store and answers a line protocol over TCP. A client picks the node that owns a
key from a consistent-hash ring; that node, the key's primary, executes the
command, answers, and then copies writes to the key's other replicas in the
background. Nothing is persisted, and nothing repairs a copy that missed a
write.

## 1. Inventory

| Component | State | Operations | What makes it correct |
|---|---|---|---|
| `CacheStore` (`packages/cache-core/src/cache-store.js`) | Map of entries, LRU list, `#memoryBytes`, counters, sweep cursor, timer | `set`, `get`, `delete`, `exists`, `ttl`, `purgeExpired`, `startSweeper`, `stopSweeper` | map, list and byte counter stay in step; limits hold; only least recently used entries are evicted; an expired value is never served |
| `LruList` (`lru-list.js`) | head, tail, nodes with `prev`/`next`, map to nodes | `add`, `touch`, `remove`, `evictLru`, `peekLru`, `peekMru` | the pointers of all nodes describe one order, and it is the order of use |
| `HashRing` (`packages/hashing/src/hash-ring.js`) | sorted ring entries (immutable) | `lookup`, `lookupReplicaIndices` | the nearest distinct nodes clockwise; a change of members moves as little as possible |
| `CacheClient` (`packages/client/src/cache-client.js`) | socket, queue, command in flight, connection attempt, flags | `connect`, `close`, commands, reconnection, timers, socket events | each command gets its own answer, is executed at most once, and always settles |
| `ClusterClient` (`cluster-client.js`) | one `CacheClient` per node, closed flag | `connect`, `close`, `ping`, keyed calls, routing by ring or modulo, error wrapping | a write goes to the primary, which copies it; an acknowledged write is never undone by an older one |
| `ReplicationEngine` (`packages/replication/src/`) | `#pending`, one `CacheClient` per peer, `ReplicationStats` | `replicateSet`, `replicateDel`, `close` | exact bookkeeping; bounded; copies converge |
| Protocol codec (`packages/protocol/src/codec.js`) | none | format and parse | a command is understood as it was meant, by the primary and by replicas |
| `CacheServer`, command handler (`apps/cache-node/src/`) | sockets, per-connection buffer, closing flag, engine | `listen`, `close`, data, idle timeout, dispatch | lines are cut out of the stream exactly; fans a write out at the primary only, and for every write it answers; `close()` always ends |
| Configuration, CLI, benchmarks, examples | none beyond start-up | | |

How they interact: `ClusterClient` calls `CacheClient` calls; a `CacheClient`
talks to one `CacheServer` over TCP; the server parses the line (codec), executes
it (store) and, if the ring says it is the primary, hands it to the
`ReplicationEngine`, which uses a `CacheClient` per peer to send `REPL` lines to
their servers. Everything in a process runs on one event loop: a synchronous
method is atomic, and interleaving happens at `await`s, timers and socket events.

The hard parts: the clock moving between and within methods of the store; a
counter patched in four places; a queue drained by an async loop that shares its
connection attempt with `connect()`; answers that carry no number and are matched
to commands by position only; lines on lost connections that may arrive late or
never; crash and restart of nodes; fan-outs that overtake each other.
`PROJECT.json` lists each such hazard with its line, and the properties that
would catch it.

## 2. Modules

| Module | Models | Checked by | Proofs |
|---|---|---|---|
| `KeyOrder` | the order an `LruList` or a `Map` keeps, as a total order on keys | through the others | `KeyOrderProofs` |
| `LruList` | `lru-list.js`, pointer by pointer, next to the `KeyOrder` it stands for | `lru_list` | `LruListProofs` |
| `CacheStore`, `CacheStoreProperties` | `cache-store.js` | `cache_capacity`, `cache_promise` | `CacheStoreProofs` |
| `TtlCache` | abstract specification: what a `CacheStore` promises its callers | refined in `cache_promise` | `CacheStoreProofs` |
| `HashRing` | `hash-ring.js`, iteration by iteration | `hash_ring` | `HashRingProofs` |
| `CacheClient` | `cache-client.js`, with the network and the server's end | `cache_client`, `cache_client_close` | `CacheClientProofs` |
| `Replication` | `packages/replication`, dispatch, crash and restart | `replication_fan_out`, `replication_order` | `ReplicationProofs` |
| `Protocol` | `codec.js` from caller to primary to replica | `protocol`, `protocol_empty_key` | `ClusterClientProofs` |
| `CacheServer` | `server.js`: its life cycle, connections and framing | `cache_server` | `CacheServerProofs` |
| `ClusterClient` | `cluster-client.js` with the nodes' dispatch and fan-out, each process with a configuration of its own | `cluster_client` | `ClusterClientProofs` |

`MC...` modules only give constants their values for TLC. Definitions under a
comment `Mutant:` are not part of a model: each is what some definition would be
after a plausible bug, and shows that the property named with it in
`PROJECT.json` notices that bug.

### CacheStore, KeyOrder, TtlCache

One action is one method, since methods run to completion. `cache` holds what
`set` and `#removeStoredKey` have to keep in step. An entry's value and sizes
are abstract (`EntrySizeBytes`); UTF-8 does not appear. Eviction is a loop in the
code and one step in the model: the victims are the least prefix of the LRU order
after which the loop stops (`IsVictimSet`). The clock (`now`) moves between
methods and also between the two reads of one method (`ttl`, `set`); with
`MonotoneClock = FALSE` it also steps back, as `Date.now` may. `reply` is the
last method's result.

`LruList` has the list's nodes, head and tail. `order` is a history variable,
changed by KeyOrder's operators and never read by the list's own steps;
`LinkedInOrder` says that every pointer is what that order requires. This is what
entitles CacheStore to use a KeyOrder where the code has a linked list.

`TtlCache` has no list, no counter, no sweeper and no expired entries: an entry
vanishes the instant it expires, and a write to a limited cache may lose a prefix
of the least recently used. `PromisedCache` maps CacheStore onto it by hiding the
entries that have expired and are still stored.

### HashRing

The ring is an immutable array; `hashFn` is any function from labels to
`0..MaxHash`, chosen in the initial state, so that collisions between nodes, and
between a label and the key, happen. One action is one iteration of the binary
search or of the walk. A changed cluster is a new ring (`NewRing`), and the last
answer of the old one is kept to compare with.

### CacheClient

One action is one callback of the event loop: a user call, a timer, a socket
event, or one segment of `#processNext` between two awaits. `pump` is the program
counter of `#processNext` and `#drainQueue`, `connector` that of `connect()`'s
loop of attempts. While `#processNext` can run on as a microtask, no timer or
socket event comes in between, but user code may, because it also runs in
microtasks. A connection (`conns`) has lines on their way up and down, the
server's half-close or reset, and outlives the client's interest in it: the
server may still execute a line that arrives on a connection the client has
destroyed. Answers carry the number of the command they answer, which the client
never looks at. A command that ends with the server's `ERR` line has the outcome of a server error;
in the code that is a rejection for the typed commands, while `executeRaw` resolves with the line. The
properties make no difference between the two.

Not modelled: lines that are no response (`PROTOCOL_ERROR`), errors reported to
the write callback, lines split over several data events.

### Replication

A node's store is reduced to the sequence of writes it took since it started, as
only which write came last matters. A `CacheClient` is reduced to what decides
order and outcome: connected or not, the queue, the item `#processNext` holds
(waiting for a connection, sent, or answered), and the fan-outs that wait in
`await client.connect()`. The two retry loops are independent: either may get the
connection while the other is in its delay. `LoseConnection` stands for the
command timeout and for any loss of the connection; the line may be executed
later (`late`) or never. `Restart` empties a node and breaks its connections.
`Refused` is the set of SETs too large for a node's limits. The configuration's
ring enters as `ReplicaIndices`, the client's routing as `Writers`.

### Protocol

A string is the sequence of its words, `<<>>` is the empty string, and a line is
the words `split(/\s+/)` finds. That is all that decides how a line is read: a key
or value made of several words, or none, moves the words after it. The words are a
constant, and so are `Upper` (`toUpperCase`) and `NumberOf` (`Number` with the test for a
positive integer): any functions that leave the protocol's own words as they are and
read a number back that was printed. Raw lines, which the CLI sends, have up to `MaxRaw`
words. `NulWords` are the words with a NUL in them: `codec.js:10` and `limits.js` allow them in
keys and values and `formatCommand` sends them, but `parseCommand` refuses every line with one
(`codec.js:54-56`). `LegalCallsArrive` therefore says of a legal call that it is understood as it
was meant, or, if it contains a NUL, answered by an error.

### CacheServer

One action is one method up to its next await, or one event of a socket, the
`net.Server` or a timer. Every call of `listen()` has a `net.Server` of its own,
and every call of `close()` a program counter (`closes`), because both overlap in
the code: `#server` is taken away at once, while the old `net.Server` goes on
listening until the replication engine has closed. A connection's `sock` is `open`,
`ended` (after `socket.end()`) or `closed`. A client may leave its side open for ever,
and in that state lines are still read and executed; the first answer to one is a
write after `end()`, an error that destroys the socket. `stream` is what the client sends,
`read` how much of it has arrived; a chunk is any piece of the rest. The data
handler's loop is one operator (`Responses`): the answers to the complete lines of
the buffer. A line is found by its place among the line feeds (`LineEnd`, `LineLength`), the
answered lines are counted off in order (`Asking`, `Nth`), and `Rest` is what stays in the buffer.

`close()` is not called while `listen()` is under way: `bin/cache-node.js` installs its
signal handlers after `listen()` has returned.

### ClusterClient

The composition of routing clients and nodes. One key is enough, since keys share
nothing but queues. What a process was configured with is a `Setup`: per configuration
the order of the nodes on its ring (`walk`; what `HashRing` computes, for any order), and
which configuration each client and node has. A `CacheClient` is its queue: the first request
is connecting, on the wire, or executed with its answer on the way; a lost connection may
leave a line behind that arrives `late`. A node's engine is the set of writes it is fanning out
(`pending`, whose size is `#pending`): a primary hands a write to the other replicas
(`handed`), unless `MaxPending` are under way, when it drops the write and counts it
(`dropped`). `Settle` ends a fan-out; its `REPL` lines arrive in any order, at any time or never, which
covers everything `Replication` says about connections. `Refused` are the writes whose value is too
large for a node: it answers `ERR` (`SERVER_ERROR`) and, as primary, fans the write out all the same
(`Refuse`). `Close` keeps the
behaviour of `cache_client_close` (section 4): a command that is still connecting goes on.

`AcknowledgedIsHandedOn` says what an `OK` stands for where the processes agree: the write was handed to
exactly the key's other replicas, or it was dropped and counted, and then it was handed to nobody and
at least `MaxPending` other writes had been handed on. The client cannot tell the two apart.

Where setups differ, writes are lost to the replicas. `README.md:78-83` shows the cluster CLI
with a list of plain addresses, whose ring is built from labels like `127.0.0.1:6371`, next to
servers started with `n1@127.0.0.1:6371` (`README.md:112-118`), whose ring is built from
`n1`. Such a client finds another primary for most keys, and that node answers `OK`
and replicates nothing. `AcknowledgedIsHandedOn` and `AcknowledgedIsNotUndone` are therefore
about setups that agree; `TakenOnce` is about all.

## 3. Runs

| Run | Bounds | Shows |
|---|---|---|
| `cache_capacity` | 3 keys, 3 sizes (one fits nowhere), both limits, clock 0..1 stepping back, counters to 2 | the list, the map and the byte counter agree; limits hold; eviction is LRU and only when needed; the late `ENTRY_TOO_LARGE` is unreachable |
| `cache_promise` | 3 keys of which 2 fit, clock 0..2, one key examined per tick | CacheStore implements TtlCache; with quiet callers the sweeper reclaims every expired entry |
| `lru_list` | all lists over 5 keys | pointers and order agree; the tail is the oldest key |
| `hash_ring` | 3 nodes, 2 labels each, 3 hashes, every hash function and key | answers are the nearest nodes; remapping is minimal |
| `cache_client` | 3 commands, 2 attempts per loop | answers go to their own command, FIFO, at most once, every command settles |
| `cache_client_close` | 2 commands | **violated**: see findings |
| `replication_fan_out` | 3 nodes, 3 writes of one key, 2 pending, one restart each of the primary and one replica | the bookkeeping is exact, nothing is applied twice, fan-outs settle, one connection keeps replicas in agreement |
| `replication_order` | 2 nodes, 2 keys, 4 writes | **violated**: see findings |
| `protocol` | keys and values of 0 to 2 words, some of them EX, SET or numbers; all raw lines of up to 5 of 8 words; one word has a NUL in it | legal calls arrive, or are refused for a NUL; replicas understand what the primary understood |
| `protocol_empty_key` | the same | **violated**: see findings |
| `cache_server` | 2 connections (one sends a blank line and two commands, or a line that is too long and a command; the other nothing), lines of up to 2 bytes, 2 calls of `listen`, 2 of `close`, 2 engines | framing is exact for every way to cut the stream; no answered write misses the engine; `close()` settles; idle connections go |
| `cluster_client` | 3 nodes, factor 2, 2 clients, 2 writes, 1 of which a node refuses, 1 pending fan-out, 1 `ping` or `connect` of one client, 1 restart of one node, one client closes; all processes agree, or hardly any | no CacheClient is left or made after `close()`; acknowledged writes are handed on, or counted as dropped, and never undone; no node takes a write twice |

Why these bounds are enough. The store needs three keys for an order with a
middle, and for a write to displace two entries. In `cache_promise` only two of
three keys fit, which lets the sweeper's cursor meet a shrinking store but not skip over a third key. Five keys give the list a
removal at the head, at the tail, between two inner nodes and of the only node.
Three hashes for six labels and a key force ties of every kind and the wrap;
three nodes make a replica set smaller than the cluster. The client needs one command
in flight on a dead connection, one waiting for the next connection and one
queued after it. Two peers let one of them fail; three writes with room for two
pending reach the limit while another is queued behind a lost connection.
Two calls of `close` and of `listen` make every overlap: a second server while the first
waits, an engine replaced in between, a timer of one call that meets sockets of another's server.
With a line limit of two bytes, a line of three is too long in a buffer of four, which is not too large;
each stream as a whole, in one chunk, is too much input; and two commands, or a blank line and one, fit
in a chunk. Two writes and room for one pending fan-out make the primary drop the second. Two
clients and three nodes with factor 2 give a primary, a replica and a node that is neither, and in the
setup without agreement two nodes that take themselves for the primary.

Fairness. CacheStore: the interval timer ticks (`SweeperTick`); nothing is assumed of time or of callers.
CacheClient: the event loop runs its microtasks, a connection attempt ends (with
success, error or the connect timeout), delays and command timers fire; nothing
is assumed of the server or the network, so every command must settle even if
the server never answers. Replication: the same, per client; peers need not
execute anything. CacheServer: `listen()` and the engine's close call back (the engine's does because
its clients' do, see CacheClient), the timer of `close()` fires, and `server.close()` calls back when the last connection is
gone; nothing is assumed of clients. `IdleConnectionsGo` names the fairness of the idle timers in its own
premise, as only it needs them. `CHECK_DEADLOCK FALSE` appears where a system may stop: no
more commands, writes or calls are left within the bounds.

`FanOutsSettle` is stated for users who stop writing, which the bound on writes
enforces.

## 4. Findings

- **A newer write can overtake an older one on its way to a replica**
  (`replication_order`). `#fanOut` waits for `connect()` before it queues its
  line (`replication-engine.js:117`). After a lost connection, an older write can
  sit in the delay of `connect()`'s loop while the queue's loop reconnects; a newer
  write then goes straight to the queue. Both succeed, and the replica keeps the older value. The
  documentation promises eventual consistency (`docs/replication.md:3`); no
  write failed here. On a pair's first connection this cannot happen
  (`ConvergesOnOneConnection`, which is also proved), as long as the primary's own store
  refused none of the writes: a primary fans out a SET that it refused as too large for
  itself (`RefusedNone`).
- **`close()` does not stop the command that is connecting**
  (`cache_client_close`). The queue and the command in flight are rejected with
  "client is closed", but a command that waits for its connection goes on: the
  closed client connects, sends it, and keeps the socket
  (`cache-client.js:150-160`, `340`).
- **An empty key is not rejected** (`protocol_empty_key`). `set('', 'v')` is
  formatted as `SET  v` and stores key `v`; `docs/requirements.md:48` says an
  empty key is rejected with an error.

## 5. Proofs

Every safety property of the passing runs is proved, for every value of the constants
that meets the assumptions named in the modules, and so for any number of keys, nodes,
commands, writes, restarts and connections. The assumptions say what the code's own
validation ensures (positive limits and sizes, at least one node), what sensible options are
where the code does not validate them (`CacheClient` takes any `maxReconnectAttempts`, the model at
least one; so with `maxPending` and `maxLineBytes`), or what the notation needs (`Null` is none of the keys). Each module proves an inductive invariant `Inv` in
three steps (`Init`, each action, `Next`) and takes the properties from it.

**`KeyOrderProofs`.** What `Unlink`, `AddLast` and `Touch` do to a total order, alone and
one after the other; finite sets have a greatest element (`GreatestFacts`,
`LastOfSome`) and a rank for each (`RankFacts`). All other modules but two build on it.

**`LruListProofs`** (`Null \notin Keys`). `TypeOK /\ LinkedInOrder` is inductive. Three
layers: what removing or appending a key does to neighbours and ends in a total order; what
`#unlink`, `remove` and the insertion at the head do to each field of each node; and that
these agree (`RemovedLinked`, `PushLinked`). `touch` is a removal followed by an insertion of
the same key, and adding a key that was moved is adding a new one (`AddLastAgain`).

**`CacheStoreProofs`** (a finite set of keys, positive sizes and limits).
- *Invariants.* None is inductive alone: that the byte counter never goes negative needs
  `MemoryAccounting`; that `#ensureCapacity` makes room needs the list to hold every stored
  key and the resized key to be its last. Lemmas follow the code's helpers (removal of keys,
  purge, touch, eviction, write), and each method is a composition of them. The size of a
  set of entries is the cardinality of a finite set of cells, because a sum over a set would
  need induction over data.
- *`LruEviction`.* The victims are a least prefix. `LastVictimNeeded`: without the last of
  them a limit was still exceeded, or a smaller prefix would have done.
- *The refinement of `TtlCache`.* `Seen` and `SeenOrder` are what callers may notice: the
  entries that have not expired, and their order. A purge changes neither (`PurgeUnseen`), time
  passing takes exactly the expired ones out (`TimePasses`), and eviction loses a prefix of what is
  seen. On these, each method has a lemma that it keeps TtlCache's promise; sweeps and
  purges are stutters. `MonotoneClock` is a hypothesis: an expired entry that a clock stepping
  back brought to life again is something `TtlCache` does not promise against.

**`HashRingProofs`** (`NodesAssumption`, `ParametersAssumption`; any hash function). `Inv` has the
ring (`RingOK`: the entries are the sorted labels), the call and the previous answer. In the
search, everything before `lo` is below the key's hash and nothing from `hi` on is (`Separates`).
In the walk, the labels met come before all others clockwise (`MetFacts`), so a node met for
the first time is the nearest of those that are left. `WalkComesRound` says that a walk that met all
entries met all nodes, which is why the walk's own bound never cuts an answer short.
`MinimalRemap` follows from what an answer is, not from the steps: two rings rank their common nodes alike
(`SameRanking`), and a ring of fewer nodes keeps the others in place (`SmallerRingKeeps`).

**`CacheClientProofs`** (`ClientAssumption`). Answers carry no number, so that an answer is
the command's own needs a chain of parts: one live connection, the others carrying only lines
nobody waits for (`OneConnection`); commands leave in order and once (`LeaveInOrder`,
`WrittenOnce`); the socket carries nothing but the item's line or its answer, and after that
possibly `ERR idle timeout` (`SocketServesItem`); at most one answer is therefore due, and it is
the item's (`ResolvedByOwn`). `ExecutedInTurn` strengthens `AnsweredInOrder` to the command in
flight. `TypeOK` includes that a number for a new connection is always free, which is a counting argument
over the lines that dead connections still carry. The action property `FailureIsOwn` (events of stale
sockets fail nothing) is proved from the same invariant.

**`ReplicationProofs`** (`ClusterAssumption`, `BoundsAssumption`). `Inv` ties three pieces of
state together: what a client holds is pending and unknown to the peer until its line is
executed (`ClientHoldsPending`), a late line belongs to a fan-out that was given up
(`LateLinesAreGivenUp`), and every fan-out began at the key's primary (`TasksArePrimarys`).
Hence `TakenAtMostOnce`, `SucceededIsTaken`, and the exact counters. A second
invariant, `OrderInv`, is about the first connection of a pair: a client is `Steady` (it waits, is
connected and busy, or closed), what it holds is in the order of the writes (`InOrder`), and
what the peer took of this primary comes before it (`Ordered`). `ConvergesOnOneConnection`
follows. `OrderInv` claims nothing once a connection was lost, and `replication_order` shows
that it could not: that is where writes overtake each other.

**`CacheServerProofs`** (`ServerAssumption`). The key lemma, `ChunkFacts`, is about the data
handler: answering a buffer and then a chunk put behind its rest gives the answers to both
together, and leaves the same rest. It rests on where line feeds are in a sequence cut in two
(`NthFacts`, `CutLines`). With it `FramingIsExact` is inductive. `AnsweredWritesAreHandedOver` needs that an
open connection of a server that replicates is served with an engine (`ServedWithEngine`), as `close()`
ends the sockets in the step that takes the engine away, and that the new engine of a
`listen()` is none of those closed before (`EnginesInOrder`).

**`ClusterClientProofs`** (`ClusterAssumption`). A write is sent to one node (`OneTarget`), is nowhere
until it is executed (`UnexecutedWrites`), and no REPL line is for a node that has the write
(`LinesAreNew`): hence `TakenOnce`, in every setup. In setups that agree, no REPL line goes to the primary
(`PrimaryGetsNoLine`), so what the primary took last is no write that was acknowledged
before the one it executes (`ExecutedIsSafe`); this gives `AcknowledgedIsNotUndone`. For
`AcknowledgedIsHandedOn`, the writes an engine is fanning out have been handed to the replicas
(`PendingIsHandedOn`), so an engine at its limit has handed on that many others (`Dispatched`); later steps
take none of this back (`HandedOnStays`).

The same module proves `Protocol`'s properties, since its lines are those of `ClusterClient`'s
writes, from Protocol's own assumption (`WordsAssumption`). The two specifications share no variable, and
Protocol's names (`CodecSpec`, `NoEx`) are chosen so that both can be extended together. `RoundTrip`:
parsing what was formatted gives a legal call back, unless a word of it has a NUL
(`PlainWords`, `NulIsRefused`). The four forms of a SET are told apart by their
number of words, so a value that reads `EX` does no harm (`SetFormatted`, `SetParsed`). `ParsedShape`: whatever line
is parsed, a mutation has a key of one word and a value of at most one, so that it survives
being formatted and parsed once more (`ReplicaReads`), even if the line was no legal call.

Model-checked only:
- liveness (`SweeperDrains`, `CommandsSettle`, `FanOutsSettle`, `CloseSettles`,
  `IdleConnectionsGo`), which needs fairness and `ENABLED`, out of this prover's reach;
- the three runs that expect a violation.

## 6. Not modelled

Validation of options and arguments (stateless), UTF-8 lengths, carriage returns,
encoding of answers, `hashKey` itself (any function stands in its place),
the arithmetic of modulo routing (any node may be named), CLI, benchmarks and examples. The error
`PROTOCOL_ERROR` does not occur in the models: a server writes no line that `parseResponse` refuses, and
no answer of a kind its command does not have. Heartbeats, failover and quorums are
announced in the documentation and not in the code.

## 7. Plan

Done: all modules of section 2 and their runs, and a proof of every safety property the passing
runs check, of the action properties among them, and of the refinement of `TtlCache`.

Left: lines split over several data events at the client, as at the server (where the
framing of section 5 would apply to responses); the round robin of the sweeper under
traffic, for which no bound holds (`PROJECT.json`, hazards).
