---------------------------- MODULE Replication ----------------------------
(***************************************************************************)
(* packages/replication and the dispatch of commands in apps/cache-node:    *)
(* the primary of a key executes a SET or DEL, answers its client, and fans *)
(* the command out to the key's other replicas, one CacheClient per peer.   *)
(*                                                                         *)
(* A node's store is the sequence of the writes it took since it started:   *)
(* what it then expires or evicts is CacheStore's business.  A CacheClient  *)
(* is its connection, its queue and its two retry loops (the one of         *)
(* connect() and the one of the queue); CacheClient.tla has the rest.       *)
(***************************************************************************)
EXTENDS Integers, Sequences, FiniteSets, Functions

CONSTANTS
    Nodes, Keys,
    Commands,         \* what is written: a SET with a value, or a DEL
    Refused,          \* Refused[n]: the SETs too large for n's store
    ReplicaIndices,   \* lookupReplicaIndices(key, replicationFactor): HashRing
    Writers,          \* which nodes take user writes for a key: the primary, for ClusterClient
    MaxPending,       \* options.maxPending
    MaxWrites,        \* bound: user writes
    MaxRestarts       \* bound: MaxRestarts[n] restarts of node n

Writes == 1..MaxWrites
None == 0          \* no write

\* isPrimaryForKey and replicaPeerIndices
Primary(k) == ReplicaIndices[k][1]
Peers(k, n) == Range(ReplicaIndices[k]) \ {n}

\* The primaries, each with the peers it has a CacheClient for.
Pairs == UNION {{Primary(k)} \X Peers(k, Primary(k)) : k \in Keys}

ASSUME ClusterAssumption ==
    /\ IsFiniteSet(Nodes) /\ IsFiniteSet(Keys)
    /\ ReplicaIndices \in [Keys -> Seq(Nodes)]
    /\ \A k \in Keys : ReplicaIndices[k] # <<>>
    /\ Writers \in [Keys -> SUBSET Nodes]
    /\ Refused \in [Nodes -> SUBSET Commands]
ASSUME BoundsAssumption ==
    /\ MaxPending \in Nat \ {0}
    /\ MaxWrites \in Nat \ {0}
    /\ MaxRestarts \in [Nodes -> Nat]

VARIABLES
    issued,     \* the user writes so far: node, key, command
    applied,    \* per node, the writes its store took since the process started
    engine,     \* per node, its ReplicationEngine
    client,     \* per pair, the engine's CacheClient for the peer
    late,       \* per pair, writes on lost connections, not yet executed
    task,       \* per write and peer, how its replication stands
    lost,       \* per pair, whether it ever lost a connection
    restarts    \* per node, its crashes so far

vars == <<issued, applied, engine, client, late, task, lost, restarts>>

Statuses == {"none", "pending", "succeeded", "failed", "dropped", "forgotten"}

Engine == [pending : Nat, closed : BOOLEAN, dropped : Nat,
           attempted : [Nodes -> Nat], succeeded : [Nodes -> Nat], failed : [Nodes -> Nat]]

\* request: what became of the item's line: not written, on the wire, or executed with
\* OK, INT or ERR on its way back.
Client == [connected : BOOLEAN, closed : BOOLEAN, waiting : Seq(Writes), queue : Seq(Writes),
           item : Writes \cup {None}, request : {"none", "sent", "OK", "ERR"}]

TypeOK ==
    /\ issued \in Seq([node : Nodes, key : Keys, command : Commands])
    /\ applied \in [Nodes -> Seq(Writes)]
    /\ engine \in [Nodes -> Engine]
    /\ client \in [Pairs -> Client]
    /\ \A c \in Pairs :
         client[c].request # "none" => client[c].connected /\ client[c].item # None
    /\ late \in [Pairs -> SUBSET Writes]
    /\ task \in [Writes \X Nodes -> Statuses]
    /\ lost \in [Pairs -> BOOLEAN]
    /\ restarts \in [Nodes -> Nat]

NewEngine ==
    [pending |-> 0, closed |-> FALSE, dropped |-> 0, attempted |-> [p \in Nodes |-> 0],
     succeeded |-> [p \in Nodes |-> 0], failed |-> [p \in Nodes |-> 0]]

NewClient ==
    [connected |-> FALSE, closed |-> FALSE, waiting |-> <<>>, queue |-> <<>>,
     item |-> None, request |-> "none"]

Init ==
    /\ issued = <<>>
    /\ applied = [n \in Nodes |-> <<>>]
    /\ engine = [n \in Nodes |-> NewEngine]
    /\ client = [c \in Pairs |-> NewClient]
    /\ late = [c \in Pairs |-> {}]
    /\ task = [t \in Writes \X Nodes |-> "none"]
    /\ lost = [c \in Pairs |-> FALSE]
    /\ restarts = [n \in Nodes |-> 0]

-----------------------------------------------------------------------------
(* Helpers                                                                 *)

\* The store executes write w: a refused SET throws before it changes anything.
Execute(n, w, history) ==
    IF history[w].command \in Refused[n] THEN applied[n] ELSE Append(applied[n], w)

\* Mutant: pop() in place of shift().
Pop(c) ==
    IF c.item = None /\ c.queue # <<>> /\ ~c.closed
      THEN [c EXCEPT !.item = c.queue[Len(c.queue)],
                     !.queue = SubSeq(c.queue, 1, Len(c.queue) - 1)] ELSE c

\* #processNext takes the next line.
Shift(c) ==
    IF c.item = None /\ c.queue # <<>> /\ ~c.closed
      THEN [c EXCEPT !.item = Head(c.queue), !.queue = Tail(c.queue)] ELSE c

\* #processNext writes its line once there is a connection.
WriteItem(c) ==
    IF c.item # None /\ c.connected THEN [c EXCEPT !.request = "sent"] ELSE c

\* #processNext goes on until it has to wait: for a connection, or for an answer.
Pump(c) == IF c.request = "none" THEN WriteItem(Shift(c)) ELSE c

\* The awaits of connect() return: every fan-out that waited queues its line, in order.
Flush(c) == Pump([c EXCEPT !.waiting = <<>>, !.queue = @ \o c.waiting])

\* Fan-out of w to one peer: connect(), then executeRaw.
Enqueue(c, w) ==
    IF c.connected THEN Pump([c EXCEPT !.queue = Append(@, w)])
                   ELSE [c EXCEPT !.waiting = Append(@, w)]

Open(w, t) == \E p \in Nodes : t[<<w, p>>] = "pending"

\* Mutant: one peer's answer ends the fan-out.
FinishedByFirst(W, t) == Cardinality(W)

\* The fan-outs of W that have just seen their last peer settle.
Finished(W, t) == Cardinality({w \in W : ~Open(w, t)})

\* The fan-outs of writes W from n to p settle: recordSuccess or recordFailure, and
\* #pending goes down for those that were waiting for this peer only.
Settle(n, p, W, status) ==
    LET t == [x \in Writes \X Nodes |-> IF x[1] \in W /\ x[2] = p THEN status ELSE task[x]]
    IN  /\ task' = t
        /\ engine' = [engine EXCEPT
              ![n].pending = @ - Finished(W, t),
              ![n].succeeded[p] = @ + IF status = "succeeded" THEN Cardinality(W) ELSE 0,
              ![n].failed[p] = @ + IF status = "failed" THEN Cardinality(W) ELSE 0]

-----------------------------------------------------------------------------
(* A user's SET or DEL at node n: dispatchCommand                          *)

AtLimit(n) == engine[n].pending >= MaxPending

\* What becomes of write w at the key's peers.
Fate(k, n, w, status) ==
    [x \in Writes \X Nodes |-> IF x[1] = w /\ x[2] \in Peers(k, n) THEN status ELSE task[x]]

\* #schedule, with the synchronous part of #fanOut.
Schedule(n, k, w) ==
    \/ /\ engine[n].closed \/ (~AtLimit(n) /\ Peers(k, n) = {})
       /\ UNCHANGED <<engine, client, task>>
    \/ /\ ~engine[n].closed /\ AtLimit(n)
       /\ engine' = [engine EXCEPT ![n].dropped = @ + 1]
       /\ task' = Fate(k, n, w, "dropped")
       /\ UNCHANGED client
    \/ /\ ~engine[n].closed /\ ~AtLimit(n) /\ Peers(k, n) # {}
       /\ engine' = [engine EXCEPT
             ![n].pending = @ + 1,
             ![n].attempted = [p \in Nodes |-> IF p \in Peers(k, n) THEN @[p] + 1 ELSE @[p]]]
       /\ task' = Fate(k, n, w, "pending")
       /\ client' = [c \in Pairs |->
             IF c[1] = n /\ c[2] \in Peers(k, n) THEN Enqueue(client[c], w) ELSE client[c]]

\* Execute, answer the user, and fan out if this node is the key's primary, whether or
\* not the store refused the write.
UserWrite(n, k, command) ==
    LET w == Len(issued) + 1
    IN  /\ w \in Writes
        /\ n \in Writers[k]
        /\ issued' = Append(issued, [node |-> n, key |-> k, command |-> command])
        /\ applied' = [applied EXCEPT ![n] = Execute(n, w, issued')]
        /\ IF Primary(k) = n THEN Schedule(n, k, w) ELSE UNCHANGED <<engine, client, task>>
        /\ UNCHANGED <<late, lost, restarts>>

-----------------------------------------------------------------------------
(* The CacheClient of node n for peer p                                    *)

\* connect()'s own loop gets the connection; the queue's loop, if it waits, shares it.
ConnectForWaiting(n, p) ==
    LET c == client[<<n, p>>]
    IN  /\ ~c.connected /\ c.waiting # <<>> /\ ~c.closed
        /\ client' = [client EXCEPT ![<<n, p>>] = Flush([c EXCEPT !.connected = TRUE])]
        /\ UNCHANGED <<issued, applied, engine, late, task, lost, restarts>>

\* The queue's loop gets the connection while connect()'s loop, if any, sits in its delay.
ConnectForQueue(n, p) ==
    LET c == client[<<n, p>>]
    IN  /\ ~c.connected /\ c.item # None
        /\ client' = [client EXCEPT ![<<n, p>>] = Pump([c EXCEPT !.connected = TRUE])]
        /\ UNCHANGED <<issued, applied, engine, late, task, lost, restarts>>

\* connect()'s loop ends its delay and finds the connection there.
WaitingResumes(n, p) ==
    LET c == client[<<n, p>>]
    IN  /\ c.connected /\ c.waiting # <<>> /\ ~c.closed
        /\ client' = [client EXCEPT ![<<n, p>>] = Flush(c)]
        /\ UNCHANGED <<issued, applied, engine, late, task, lost, restarts>>

\* connect()'s loop runs out of attempts, or ends on a closed client, where executeRaw throws.
WaitingFails(n, p) ==
    LET c == client[<<n, p>>]
    IN  /\ c.waiting # <<>> /\ (~c.connected \/ c.closed)
        /\ Settle(n, p, Range(c.waiting), "failed")
        /\ client' = [client EXCEPT ![<<n, p>>].waiting = <<>>]
        /\ UNCHANGED <<issued, applied, late, lost, restarts>>

\* The queue's loop runs out of attempts for the item it holds.
ItemFails(n, p) ==
    LET c == client[<<n, p>>]
    IN  /\ ~c.connected /\ c.item # None
        /\ Settle(n, p, {c.item}, "failed")
        /\ client' = [client EXCEPT ![<<n, p>>] = Pump([c EXCEPT !.item = None])]
        /\ UNCHANGED <<issued, applied, late, lost, restarts>>

\* Peer p reads the REPL line and executes it: no fan-out of its own.
PeerExecutes(n, p) ==
    LET w == client[<<n, p>>].item
    IN  /\ client[<<n, p>>].request = "sent"
        /\ applied' = [applied EXCEPT ![p] = Execute(p, w, issued)]
        /\ client' = [client EXCEPT ![<<n, p>>].request =
                        IF issued[w].command \in Refused[p] THEN "ERR" ELSE "OK"]
        /\ UNCHANGED <<issued, engine, late, task, lost, restarts>>

\* Mutant: any answer counts as a success.
AnyAnswerOf(c) == "succeeded"

AnswerOf(c) == IF c.request = "OK" THEN "succeeded" ELSE "failed"

\* The answer arrives; the queue goes on.
Answer(n, p) ==
    LET c == client[<<n, p>>]
    IN  /\ c.request \in {"OK", "ERR"}
        /\ Settle(n, p, {c.item}, AnswerOf(c))
        /\ client' = [client EXCEPT ![<<n, p>>] =
                        Pump([c EXCEPT !.item = None, !.request = "none"])]
        /\ UNCHANGED <<issued, applied, late, lost, restarts>>

\* The line of a lost connection may still reach the peer, or never.
MayLinger(c) == IF c.request = "sent" THEN {{}, {c.item}} ELSE {{}}

\* Mutant: a line that got no answer is sent again.
FailAndResend(c) ==
    Pump([c EXCEPT !.connected = FALSE, !.item = None, !.request = "none",
                   !.queue = IF c.request = "none" THEN @ ELSE <<c.item>> \o @])

\* Mutant: the queue does not go on after a failure.
DisconnectAndStop(c) ==
    [c EXCEPT !.connected = FALSE, !.request = "none",
              !.item = IF c.request = "none" THEN @ ELSE None]

\* Mutant: the answer is still waited for.
DisconnectHalf(c) ==
    Pump([c EXCEPT !.connected = FALSE, !.item = IF c.request = "none" THEN @ ELSE None])

\* The item fails and the connection is gone.
Disconnect(c) ==
    Pump([c EXCEPT !.connected = FALSE, !.request = "none",
                   !.item = IF c.request = "none" THEN @ ELSE None])

\* The command timeout, or a lost connection: the item fails, its line may be late.
\* A closed client ignores the loss of its connection, but not the timeout.
LoseConnection(n, p) ==
    LET c == client[<<n, p>>]
    IN  /\ c.connected /\ (c.closed => c.request # "none")
        /\ lost' = [lost EXCEPT ![<<n, p>>] = TRUE]
        /\ \E rest \in MayLinger(c) : late' = [late EXCEPT ![<<n, p>>] = @ \cup rest]
        /\ client' = [client EXCEPT ![<<n, p>>] = Disconnect(c)]
        /\ IF c.request = "none" THEN UNCHANGED <<engine, task>>
                                 ELSE Settle(n, p, {c.item}, "failed")
        /\ UNCHANGED <<issued, applied, restarts>>

\* A line on a lost connection arrives after all.
LateArrival(n, p, w) ==
    /\ w \in late[<<n, p>>]
    /\ late' = [late EXCEPT ![<<n, p>>] = @ \ {w}]
    /\ applied' = [applied EXCEPT ![p] = Execute(p, w, issued)]
    /\ UNCHANGED <<issued, engine, client, task, lost, restarts>>

-----------------------------------------------------------------------------
(* Nodes                                                                   *)

\* engine.close(), from CacheServer.close: each client rejects its queue and the command in
\* flight, but not the item that waits for a connection, nor connect()'s loop.
CloseEngine(n) ==
    LET Rejected(c) == Range(c.queue) \cup IF c.request = "none" THEN {} ELSE {c.item}
        RejectedFor(p) == IF <<n, p>> \in Pairs THEN Rejected(client[<<n, p>>]) ELSE {}
        t == [x \in Writes \X Nodes |->
                IF x[1] \in RejectedFor(x[2]) THEN "failed" ELSE task[x]]
        Ended == {w \in Writes : Open(w, task) /\ ~Open(w, t)}
    IN  /\ ~engine[n].closed
        /\ \E c \in Pairs : c[1] = n      \* other engines never have anything to do
        /\ task' = t
        /\ engine' = [engine EXCEPT
              ![n].closed = TRUE,
              ![n].pending = @ - Cardinality(Ended),
              ![n].failed = [p \in Nodes |-> @[p] + Cardinality(RejectedFor(p))]]
        /\ client' = [c \in Pairs |->
              IF c[1] = n
                THEN [client[c] EXCEPT !.closed = TRUE, !.connected = FALSE, !.queue = <<>>,
                                       !.item = IF client[c].request = "none" THEN @ ELSE None,
                                       !.request = "none"]
                ELSE client[c]]
        /\ \E rest \in [{c \in Pairs : c[1] = n} -> SUBSET Writes] :
             /\ \A c \in DOMAIN rest : rest[c] \in MayLinger(client[c])
             /\ late' = [c \in Pairs |-> late[c] \cup IF c[1] = n THEN rest[c] ELSE {}]
        /\ UNCHANGED <<issued, applied, lost, restarts>>

\* The process of node n dies and starts anew: its store, its engine and its clients are
\* empty, and the connections other nodes have to it are lost.
Restart(n) ==
    LET Cut(c) == c[2] = n /\ c[1] # n /\ client[c].connected
        FailedAt(m) == IF <<m, n>> \in Pairs /\ Cut(<<m, n>>) /\ client[<<m, n>>].request # "none"
                         THEN {client[<<m, n>>].item} ELSE {}
        t == [x \in Writes \X Nodes |->
                IF task[x] = "pending" /\ issued[x[1]].node = n THEN "forgotten"
                ELSE IF x[2] = n /\ \E m \in Nodes : x[1] \in FailedAt(m) THEN "failed"
                ELSE task[x]]
    IN  /\ restarts[n] < MaxRestarts[n]
        /\ restarts' = [restarts EXCEPT ![n] = @ + 1]
        /\ applied' = [applied EXCEPT ![n] = <<>>]
        /\ task' = t
        /\ engine' = [m \in Nodes |->
              IF m = n THEN NewEngine
              ELSE [engine[m] EXCEPT !.pending = @ - Finished(FailedAt(m), t),
                                     !.failed[n] = @ + Cardinality(FailedAt(m))]]
        /\ client' = [c \in Pairs |-> IF c[1] = n THEN NewClient
                                      ELSE IF Cut(c) THEN Disconnect(client[c]) ELSE client[c]]
        /\ lost' = [c \in Pairs |-> lost[c] \/ Cut(c)]
        /\ \E rest \in [{c \in Pairs : c[1] = n} -> SUBSET Writes] :
             /\ \A c \in DOMAIN rest : rest[c] \in MayLinger(client[c])
             /\ late' = [c \in Pairs |-> IF c[2] = n THEN {}
                                       ELSE IF c[1] = n THEN late[c] \cup rest[c] ELSE late[c]]
        /\ UNCHANGED issued

-----------------------------------------------------------------------------

ClientStep(n, p) ==
    \/ ConnectForWaiting(n, p)
    \/ ConnectForQueue(n, p)
    \/ WaitingResumes(n, p)
    \/ WaitingFails(n, p)
    \/ ItemFails(n, p)
    \/ PeerExecutes(n, p)
    \/ Answer(n, p)
    \/ LoseConnection(n, p)

Next ==
    \/ \E n \in Nodes, k \in Keys, command \in Commands : UserWrite(n, k, command)
    \/ \E c \in Pairs : ClientStep(c[1], c[2])
    \/ \E c \in Pairs, w \in Writes : LateArrival(c[1], c[2], w)
    \/ \E n \in Nodes : CloseEngine(n)
    \/ \E n \in Nodes : Restart(n)

Spec == Init /\ [][Next]_vars

\* Timers fire: a loop of attempts ends, with a connection or without, and a command is
\* answered or times out.  Nothing makes the peer answer or the network deliver.
Fairness ==
    \A c \in Pairs :
        /\ WF_vars(ConnectForWaiting(c[1], c[2]) \/ WaitingResumes(c[1], c[2])
                     \/ WaitingFails(c[1], c[2]))
        /\ WF_vars(ConnectForQueue(c[1], c[2]) \/ ItemFails(c[1], c[2]))
        /\ WF_vars(Answer(c[1], c[2])
                     \/ (client[c].request # "none" /\ LoseConnection(c[1], c[2])))

FairSpec == Spec /\ Fairness

-----------------------------------------------------------------------------
(* Properties                                                              *)

\* #pending is the number of fan-outs that some peer still holds open, over every way a peer
\* can settle, and stays within maxPending; the counters of ReplicationStats balance
\* (replication-engine.js:84-102, 109-129).
PendingTracksFanOuts ==
    \A n \in Nodes :
        LET Mine == {w \in DOMAIN issued : issued[w].node = n}
        IN  /\ engine[n].pending = Cardinality({w \in Mine : Open(w, task)})
            /\ engine[n].pending <= MaxPending
            /\ \A p \in Nodes :
                 engine[n].attempted[p] = engine[n].succeeded[p] + engine[n].failed[p]
                   + Cardinality({w \in Mine : task[<<w, p>>] = "pending"})

\* A write that recordSuccess counted for a peer was taken by that peer's store, unless the
\* peer has restarted: an ERR, a timeout or another command's answer never counts.
SucceededIsTaken ==
    \A w \in DOMAIN issued, p \in Nodes :
        (task[<<w, p>>] = "succeeded" /\ restarts[p] = 0) => w \in Range(applied[p])

\* However connections fail, a node takes a write at most once: nothing resends a line whose
\* fate is unknown (cache-client.js:348-386).
TakenAtMostOnce ==
    \A n \in Nodes : \A i, j \in DOMAIN applied[n] : applied[n][i] = applied[n][j] => i = j

WritesOf(k) == {w \in DOMAIN issued : issued[w].key = k}

\* The write that decides what node n holds for key k.
LastTaken(n, k) ==
    LET At == {i \in DOMAIN applied[n] : issued[applied[n][i]].key = k}
    IN  IF At = {} THEN None ELSE applied[n][CHOOSE i \in At : \A j \in At : j <= i]

\* Every write of the key reached the peer, as far as the primary can tell.
AllSucceeded(k, p) == \A w \in WritesOf(k) : task[<<w, p>>] = "succeeded"

NoRestarts == \A n \in Nodes : restarts[n] = 0

\* The primary took what it fanned out: it fans out a SET its own store refused, too, and a
\* peer with a higher limit then keeps it.
RefusedNone(k) == \A w \in WritesOf(k) : issued[w].command \notin Refused[Primary(k)]

\* Eventual consistency where nothing went wrong: once all writes of a key are counted as
\* succeeded at a peer, over the one connection the two ever had, the peer holds what the
\* primary holds, if that refused none of them.
ConvergesOnOneConnection ==
    NoRestarts =>
        \A k \in Keys : \A p \in Peers(k, Primary(k)) :
            (~lost[<<Primary(k), p>>] /\ AllSucceeded(k, p) /\ RefusedNone(k))
              => LastTaken(p, k) = LastTaken(Primary(k), k)

\* Eventual consistency as docs/replication.md:3 has it, in its mildest form: if no write of
\* the key failed or was dropped, the copies agree in the end.
ReplicasConverge ==
    NoRestarts =>
        \A k \in Keys : \A p \in Peers(k, Primary(k)) :
            AllSucceeded(k, p) => LastTaken(p, k) = LastTaken(Primary(k), k)

\* Once users stop writing (MaxWrites), every slot of #pending is given back for good: no lost
\* wake-up of the queue, no fan-out without an end.
FanOutsSettle == <>[](\A n \in Nodes : engine[n].pending = 0)
=============================================================================
