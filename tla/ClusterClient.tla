--------------------------- MODULE ClusterClient ---------------------------
(***************************************************************************)
(* packages/client/src/cluster-client.js: clients that route a key to one   *)
(* node of a cluster, and the nodes, which decide by themselves whether to  *)
(* copy the write to others.  Each process has a configuration of its own:  *)
(* node ids and virtual nodes, and with them a ring.                        *)
(*                                                                         *)
(* There is one key, as keys do not interact.  A CacheClient is its queue   *)
(* of requests, the first of which is connecting, on the wire, or executed  *)
(* with its answer on the way (CacheClient.tla has the rest).               *)
(***************************************************************************)
EXTENDS Integers, Sequences, FiniteSets, Functions

CONSTANTS
    Nodes, Clients,
    Configs,      \* configurations of the cluster
    Null,         \* no replication at a node, no index given to a client
    Setups,       \* what the processes may be started with, see Setup
    Factor,       \* replicationFactor, capped at the number of nodes
    MaxPending,   \* fan-outs an engine has under way at most
    Refused,      \* the calls whose value is too large for a node: pairs
    MaxWrites,     \* bound: set and del, of all clients
    MaxBroadcasts, \* bound: ping() and connect(), of all clients
    Broadcasters,  \* bound: the clients that call ping() and connect()
    Closers,       \* bound: the clients that call close()
    Restarting,    \* bound: the nodes that restart
    MaxRestarts    \* bound: restarts of all nodes

\* What lookupReplicaIndices may return for all nodes: HashRing.tla.
Orders == {order \in [1..Cardinality(Nodes) -> Nodes] : IsInjective(order)}

\* walk: the nodes clockwise from the key, on the ring of each configuration.
\* route: the index modulo routing or lookupNodeIndex names, or Null for the ring.
Setup == [walk : [Configs -> Orders], client : [Clients -> Configs],
          node : [Nodes -> Configs \cup {Null}], route : [Clients -> Nodes \cup {Null}]]

ASSUME ClusterAssumption ==
    /\ IsFiniteSet(Nodes) /\ Nodes # {}
    /\ Null \notin Nodes /\ Null \notin Configs
    /\ Setups \subseteq Setup
    /\ Closers \cup Broadcasters \subseteq Clients /\ Restarting \subseteq Nodes
    /\ Factor \in 1..Cardinality(Nodes)
    /\ MaxPending \in Nat /\ MaxWrites \in Nat /\ MaxBroadcasts \in Nat /\ MaxRestarts \in Nat

Calls == 1..(MaxWrites + MaxBroadcasts)

VARIABLES
    setup,
    clients,   \* per ClusterClient, the nodes #clients has a CacheClient for
    closed,    \* #closed
    call,      \* the calls, in the order they are made
    request,   \* per call and node, how the CacheClient's command stands
    applied,   \* per node, the writes its store took since the process started
    handed,    \* per write, the peers a primary's fan-out was for
    dropped,   \* the writes that an engine counted as dropped
    pending,   \* per node, the writes whose fan-out its engine has under way: #pending
    repl,      \* REPL lines under way: write and peer
    restarts

serverVars == <<applied, handed, dropped, pending, repl, restarts>>
clientVars == <<clients, closed>>
vars == <<setup, clientVars, call, request, serverVars>>

\* SET is any write of the key.  Reads change nothing.
Kinds == {"SET", "PING", "connect"}

\* seen: for a write, the writes that were acknowledged when it was made.
CallType == [by : Clients, kind : Kinds, seen : SUBSET Calls,
             outcome : {"pending", "OK", "NODE_UNAVAILABLE", "SERVER_ERROR", "CLIENT_CLOSED",
                        "CONNECT_TIMEOUT", "CONNECTION_ERROR"}]

\* late: given up, but its line may still arrive, and changes something.
RequestStates == {"none", "asked", "executed", "late", "done"}

\* After close() there is no CacheClient left open, and none is made.
TypeOK ==
    /\ setup \in Setups
    /\ clients \in [Clients -> SUBSET Nodes]
    /\ closed \in [Clients -> BOOLEAN]
    /\ \A c \in Clients : closed[c] => clients[c] = {}
    /\ call \in Seq(CallType) /\ Len(call) <= MaxWrites + MaxBroadcasts
    /\ request \in [Calls -> [Nodes -> RequestStates]]
    /\ applied \in [Nodes -> Seq(Calls)]
    /\ handed \in [Calls -> SUBSET Nodes]
    /\ dropped \subseteq Calls
    /\ pending \in [Nodes -> SUBSET Calls] /\ \A n \in Nodes : Cardinality(pending[n]) <= MaxPending
    /\ repl \subseteq Calls \X Nodes
    /\ restarts \in 0..MaxRestarts

Init ==
    /\ setup \in Setups
    /\ clients = [c \in Clients |-> {}]
    /\ closed = [c \in Clients |-> FALSE]
    /\ call = <<>>
    /\ request = [i \in Calls |-> [n \in Nodes |-> "none"]]
    /\ applied = [n \in Nodes |-> <<>>]
    /\ handed = [i \in Calls |-> {}]
    /\ dropped = {}
    /\ pending = [n \in Nodes |-> {}]
    /\ repl = {}
    /\ restarts = 0

-----------------------------------------------------------------------------
(* Routing                                                                 *)

Ring(config) == setup.walk[config]

\* isPrimaryForKey and replicaPeerIndices, at node n.
IsPrimary(n) == setup.node[n] # Null /\ Ring(setup.node[n])[1] = n

\* Mutant: the filter of the node's own index is missing.
PeersAndSelf(n) == {Ring(setup.node[n])[i] : i \in 1..Factor}

Peers(n) == {Ring(setup.node[n])[i] : i \in 1..Factor} \ {n}

\* Mutant: the second node on the ring.
SecondNodeIndex(c) ==
    IF setup.route[c] # Null THEN setup.route[c]
    ELSE Ring(setup.client[c])[IF Cardinality(Nodes) > 1 THEN 2 ELSE 1]

\* #resolveNodeIndex.  (lookupNodeIndex out of range is an error before anything happens.)
ResolveNodeIndex(c) ==
    IF setup.route[c] # Null THEN setup.route[c] ELSE Ring(setup.client[c])[1]

-----------------------------------------------------------------------------
(* Calls                                                                   *)

\* Commands that wait at the CacheClient of c for n.  connect() has no part in its queue.
Waits(i, c, n) ==
    /\ call[i].by = c /\ call[i].kind # "connect"
    /\ request[i][n] \in {"asked", "executed"}

IsHead(i, n) ==
    Waits(i, call[i].by, n) /\ \A j \in 1..(i - 1) : ~Waits(j, call[i].by, n)

\* Promise.all, or the one promise: what the call comes to when its request at n ends well.
\* A pending call has had no failure.
Resolve(i, n) ==
    IF call[i].outcome = "pending" /\ \A m \in Nodes \ {n} : request[i][m] \in {"none", "done"}
      THEN [call EXCEPT ![i].outcome = "OK"] ELSE call

\* #wrapBackendError; connect() does without.
Wrap(kind, code) ==
    IF kind # "connect" /\ code \in {"CONNECT_TIMEOUT", "CONNECTION_ERROR",
                                     "CONNECTION_CLOSED", "COMMAND_TIMEOUT"}
      THEN "NODE_UNAVAILABLE" ELSE code

\* ... and when it fails, with one of the codes: the first failure decides.
Reject(i, codes) ==
    \E outcome \in {Wrap(call[i].kind, code) : code \in codes} :
        call' = IF call[i].outcome = "pending" THEN [call EXCEPT ![i].outcome = outcome] ELSE call

Acknowledged == {i \in DOMAIN call : call[i].kind = "SET" /\ call[i].outcome = "OK"}

New(c, kind, outcome) ==
    Append(call, [by |-> c, kind |-> kind, outcome |-> outcome,
                  seen |-> IF kind = "SET" THEN Acknowledged ELSE {}])

MayCall(kind) ==
    LET writes == Cardinality({i \in DOMAIN call : call[i].kind = "SET"})
    IN  IF kind = "SET" THEN writes < MaxWrites ELSE Len(call) - writes < MaxBroadcasts

\* Mutant: #assertOpen is missing.
CallUnasserted(c, kind) ==
    LET i == Len(call) + 1
        targets == IF kind = "SET" THEN {ResolveNodeIndex(c)} ELSE Nodes
    IN  /\ MayCall(kind)
        /\ call' = New(c, kind, "pending")
        /\ clients' = [clients EXCEPT ![c] = @ \cup targets]
        /\ request' = [request EXCEPT ![i] = [n \in Nodes |->
              IF n \in targets THEN "asked" ELSE "none"]]
        /\ UNCHANGED <<setup, closed, serverVars>>

\* set or del of the key, ping(), connect(): #withClient and #clientForIndex at each node.
Call(c, kind) ==
    LET i == Len(call) + 1
        targets == IF kind = "SET" THEN {ResolveNodeIndex(c)} ELSE Nodes
    IN  /\ MayCall(kind)
        /\ IF closed[c]
             THEN /\ call' = New(c, kind, "CLIENT_CLOSED")
                  /\ UNCHANGED <<clients, request>>
             ELSE /\ call' = New(c, kind, "pending")
                  /\ clients' = [clients EXCEPT ![c] = @ \cup targets]
                  /\ request' = [request EXCEPT ![i] = [n \in Nodes |->
                        IF n \in targets THEN "asked" ELSE "none"]]
        /\ UNCHANGED <<setup, closed, serverVars>>

\* The attempts to connect are used up, or it may not reconnect (autoReconnect).
CannotConnect(i, n) ==
    /\ request[i][n] = "asked" /\ (call[i].kind # "connect" => IsHead(i, n))
    /\ request' = [request EXCEPT ![i][n] = "done"]
    /\ Reject(i, {"CONNECT_TIMEOUT", "CONNECTION_ERROR"}
                    \cup IF call[i].kind = "connect" THEN {} ELSE {"CONNECTION_CLOSED"})
    /\ UNCHANGED <<setup, clientVars, serverVars>>

\* What is left of the head's request when its connection goes.
Leftover(i, n) ==
    IF request[i][n] = "asked" /\ call[i].kind = "SET" THEN "late" ELSE "done"

\* The command timeout, a lost connection, or an ERR line: the server refuses what it reads, or
\* its idle timeout's line crosses the command, which is executed all the same.
LoseAnswer(i, n) ==
    /\ IsHead(i, n)
    /\ request' = [request EXCEPT ![i][n] = Leftover(i, n)]
    /\ Reject(i, {"COMMAND_TIMEOUT", "CONNECTION_CLOSED", "CONNECTION_ERROR"}
                    \cup IF request[i][n] = "asked" THEN {"SERVER_ERROR"} ELSE {})
    /\ UNCHANGED <<setup, clientVars, serverVars>>

\* The answer arrives.  A PING changes nothing at the node, connect() has no line at all.
Answer(i, n) ==
    /\ CASE call[i].kind = "SET"     -> request[i][n] = "executed"
         [] call[i].kind = "PING"    -> IsHead(i, n)
         [] call[i].kind = "connect" -> request[i][n] = "asked"
    /\ request' = [request EXCEPT ![i][n] = "done"]
    /\ call' = Resolve(i, n)
    /\ UNCHANGED <<setup, clientVars, serverVars>>

\* close() closes every CacheClient: what is queued or on the wire is rejected.  The command
\* that is still connecting goes on, at the nodes `going`.  Up to its return close() awaits
\* microtasks only, in which other calls find #closed set already, and a second close() nothing to do.
Close(c) ==
    /\ ~closed[c]
    /\ \E going \in SUBSET Nodes :
         LET Goes(i, n) == n \in going /\ request[i][n] = "asked" /\ IsHead(i, n)
             Rejected(i, n) == i \in DOMAIN call /\ Waits(i, c, n) /\ ~Goes(i, n)
         IN  /\ \A n \in going : \E i \in DOMAIN call : Waits(i, c, n) /\ Goes(i, n)
             /\ request' = [i \in Calls |-> [n \in Nodes |->
                   IF ~Rejected(i, n) THEN request[i][n]
                   ELSE IF IsHead(i, n) THEN Leftover(i, n) ELSE "done"]]
             /\ call' = [i \in DOMAIN call |->
                   IF call[i].outcome = "pending" /\ \E n \in Nodes : Rejected(i, n)
                     THEN [call[i] EXCEPT !.outcome = "CLIENT_CLOSED"] ELSE call[i]]
    /\ closed' = [closed EXCEPT ![c] = TRUE]
    /\ clients' = [clients EXCEPT ![c] = {}]
    /\ UNCHANGED <<setup, serverVars>>

-----------------------------------------------------------------------------
(* Nodes                                                                   *)

\* The write w at node n: the store takes it, unless it refuses it, and the peers get lines.
Take(n, w, peers) ==
    /\ applied' = IF <<w, n>> \in Refused THEN applied ELSE [applied EXCEPT ![n] = Append(@, w)]
    /\ handed' = [handed EXCEPT ![w] = @ \cup peers]
    /\ repl' = (repl \ {<<w, n>>}) \cup ({w} \X peers)
    /\ UNCHANGED restarts

AtLimit(n) == Cardinality(pending[n]) >= MaxPending

\* dispatchCommand: execute, then, if this node takes itself for the primary, #schedule: whether
\* the store took the write or refused it, but at the limit the engine drops it.
Dispatch(n, w) ==
    LET peers == IF IsPrimary(n) /\ ~AtLimit(n) THEN Peers(n) ELSE {}
    IN  /\ Take(n, w, peers)
        /\ dropped' = IF IsPrimary(n) /\ AtLimit(n) THEN dropped \cup {w} ELSE dropped
        /\ pending' = IF peers = {} THEN pending ELSE [pending EXCEPT ![n] = @ \cup {w}]

\* The line of write i is there.
Arrived(i, n) ==
    /\ call[i].kind = "SET"
    /\ request[i][n] = "late" \/ (request[i][n] = "asked" /\ IsHead(i, n))

Execute(i, n) ==
    /\ Arrived(i, n) /\ <<i, n>> \notin Refused
    /\ request' = [request EXCEPT ![i][n] = IF @ = "late" THEN "done" ELSE "executed"]
    /\ Dispatch(n, i)
    /\ UNCHANGED <<setup, clientVars, call>>

\* The value is too large: ERR.  (One that gets lost is a LoseAnswer before.)
Refuse(i, n) ==
    /\ Arrived(i, n) /\ <<i, n>> \in Refused
    /\ request' = [request EXCEPT ![i][n] = "done"]
    /\ Dispatch(n, i)
    /\ Reject(i, {"SERVER_ERROR"})
    /\ UNCHANGED <<setup, clientVars>>

\* allSettled: each peer of the fan-out has answered or was given up; lines may be under way still.
Settle(n, w) ==
    /\ w \in pending[n]
    /\ pending' = [pending EXCEPT ![n] = @ \ {w}]
    /\ UNCHANGED <<setup, clientVars, call, request, applied, handed, dropped, repl, restarts>>

\* Mutant: a REPL line is dispatched as a user's command is.
ReplicaFansOut(w, n) ==
    /\ <<w, n>> \in repl
    /\ Dispatch(n, w)
    /\ UNCHANGED <<setup, clientVars, call, request>>

\* executeReplCommand: lines arrive in any order, or never.
ReplicaExecutes(w, n) ==
    /\ <<w, n>> \in repl
    /\ Take(n, w, {})
    /\ UNCHANGED <<setup, clientVars, call, request, dropped, pending>>

\* The process of node n starts anew, with a new engine: what was on the wire to the old one is lost.
Restart(n) ==
    /\ restarts < MaxRestarts
    /\ restarts' = restarts + 1
    /\ applied' = [applied EXCEPT ![n] = <<>>]
    /\ pending' = [pending EXCEPT ![n] = {}]
    /\ request' = [i \in Calls |-> [request[i] EXCEPT ![n] = IF @ = "late" THEN "done" ELSE @]]
    /\ UNCHANGED <<setup, clientVars, call, handed, dropped, repl>>

-----------------------------------------------------------------------------

Next ==
    \/ \E c \in Clients, kind \in Kinds : (kind = "SET" \/ c \in Broadcasters) /\ Call(c, kind)
    \/ \E c \in Closers : Close(c)
    \/ \E i \in DOMAIN call, n \in Nodes :
         \/ CannotConnect(i, n)
         \/ LoseAnswer(i, n)
         \/ Execute(i, n)
         \/ Refuse(i, n)
         \/ Answer(i, n)
    \/ \E w \in Calls, n \in Nodes : ReplicaExecutes(w, n) \/ Settle(n, w)
    \/ \E n \in Restarting : Restart(n)

Spec == Init /\ [][Next]_vars

-----------------------------------------------------------------------------
(* Properties                                                              *)

\* All processes have one configuration and the clients route by its ring.
Agreed == \E config \in Configs :
    /\ \A c \in Clients : setup.client[c] = config /\ setup.route[c] = Null
    /\ \A n \in Nodes : setup.node[n] = config

\* Write w was handed to exactly the other replicas of the key; or to nobody because the engine of
\* n was at its limit: then it counted the write as dropped, and had handed on MaxPending others.
HandedOn(w, n) ==
    IF w \in dropped
      THEN /\ handed[w] = {}
           /\ Cardinality({v \in Calls \ {w} : handed[v] = Peers(n)}) >= MaxPending
      ELSE handed[w] = Peers(n)

\* Where client and servers agree, a write that was answered OK was handed to the other replicas,
\* unless the primary's engine had no room (cluster-client.js:301-320, command-handler.js:104-121,
\* replication-engine.js:84-102).
AcknowledgedIsHandedOn ==
    Agreed => \A w \in Acknowledged, n \in Nodes : IsPrimary(n) => HandedOn(w, n)

\* Where they agree, an acknowledged write is never undone by one acknowledged before it was
\* made, whichever client made either, and through timeouts, late lines, close() and restarts:
\* all writes meet at the primary, and no REPL line ever goes there.
AcknowledgedIsNotUndone ==
    Agreed => \A n \in Nodes :
        IsPrimary(n) /\ applied[n] # <<>> =>
            \A w \in Acknowledged : applied[n][Len(applied[n])] \notin call[w].seen

\* However the configurations differ, even when several nodes take themselves for the primary,
\* no node takes a write twice: REPL lines are not handed on (docs/replication.md:33).
TakenOnce ==
    \A n \in Nodes : IsInjective(applied[n])
=============================================================================
