------------------------- MODULE ReplicationProofs -------------------------
(***************************************************************************)
(* The safety of Replication, for any nodes, keys, replica lists, limits   *)
(* and numbers of writes and restarts.                                     *)
(***************************************************************************)
EXTENDS Replication, KeyOrderProofs, SequenceTheorems

-----------------------------------------------------------------------------
(* The inductive invariant                                                 *)

\* Write w waits in a CacheClient of state c, or is in flight there.
Holds(c, w) == w \in Range(c.waiting) \/ w \in Range(c.queue) \/ (w = c.item /\ w # None)

\* It was not executed yet, as far as the client's line decides it.
Unsent(c, w) == Holds(c, w) /\ ~(w = c.item /\ c.request \in {"OK", "ERR"})

\* No write is there twice.
Distinct(c) ==
    /\ IsInjective(c.waiting) /\ IsInjective(c.queue)
    /\ Range(c.waiting) \cap Range(c.queue) = {}
    /\ c.item \notin Range(c.waiting) /\ c.item \notin Range(c.queue)

\* A write's replication to a peer began at the primary of its key, which has a client for it.
TasksArePrimarys ==
    \A w \in Writes, p \in Nodes : task[<<w, p>>] # "none" =>
        /\ w \in DOMAIN issued
        /\ issued[w].node = Primary(issued[w].key)
        /\ p \in Peers(issued[w].key, issued[w].node)

\* What a client holds is pending, and the peer does not have it before it executes the line.
ClientHoldsPending ==
    \A c \in Pairs :
        /\ Distinct(client[c])
        /\ \A w \in Writes : Holds(client[c], w) =>
             w \in DOMAIN issued /\ issued[w].node = c[1] /\ task[<<w, c[2]>>] = "pending"
        /\ \A w \in Writes : Unsent(client[c], w) => w \notin Range(applied[c[2]])
        /\ client[c].request = "OK" => client[c].item \in Range(applied[c[2]])

\* A late line is of a fan-out that failed or is forgotten, and the peer does not have the write.
LateLinesAreGivenUp ==
    \A c \in Pairs : \A w \in late[c] :
        /\ w \in DOMAIN issued /\ issued[w].node = c[1]
        /\ task[<<w, c[2]>>] \notin {"none", "pending"}
        /\ w \notin Range(applied[c[2]])

\* A node takes writes of users, its own or from their primaries.
TakenWereIssued ==
    \A n \in Nodes : \A w \in Range(applied[n]) :
        w \in DOMAIN issued /\ (issued[w].node = n \/ task[<<w, n>>] # "none")

\* The bound UserWrite guards.
IssuedAreWrites == DOMAIN issued \subseteq Writes

Inv ==
    /\ TypeOK
    /\ IssuedAreWrites
    /\ TasksArePrimarys
    /\ ClientHoldsPending
    /\ LateLinesAreGivenUp
    /\ TakenWereIssued
    /\ TakenAtMostOnce
    /\ SucceededIsTaken
    /\ PendingTracksFanOuts

\* Strictly increasing; writes are numbered in the order they were issued.
Increasing(s) == \A i, j \in DOMAIN s : i < j => s[i] < s[j]

\* A client that was never disconnected: it waits for its first connection, is busy, or was closed.
Steady(c) ==
    /\ c.closed => ~c.connected
    /\ ~c.connected => c.item = None /\ c.queue = <<>>
    /\ c.connected => /\ c.waiting = <<>>
                      /\ c.item = None => c.queue = <<>>
                      /\ c.item # None => c.request # "none"

\* What waits is in the order of the writes, after what is on the wire.
InOrder(c) ==
    /\ Increasing(c.waiting) /\ Increasing(c.queue)
    /\ \A w \in Range(c.queue) : c.item < w

\* The writes of node n's users that node p has, and that it took in their order.
From(n, p) == {v \in Range(applied[p]) : issued[v].node = n}

TakenInOrder(n, p) ==
    \A i, j \in DOMAIN applied[p] :
        (i < j /\ issued[applied[p][i]].node = n /\ issued[applied[p][j]].node = n)
          => applied[p][i] < applied[p][j]

\* Lines arrive in the order of the writes, a late one of close() last of all.
Ordered(c) ==
    /\ Steady(client[c]) /\ InOrder(client[c])
    /\ client[c].closed => engine[c[1]].closed
    /\ late[c] # {} => client[c].closed /\ client[c].waiting = <<>>
    /\ \A v, w \in late[c] : v = w
    /\ \A v \in From(c[1], c[2]), w \in Writes :
         Holds(client[c], w) \/ w \in late[c] => v <= w
    /\ TakenInOrder(c[1], c[2])

OneConnectionInOrder == NoRestarts => \A c \in Pairs : ~lost[c] => Ordered(c)

\* A node takes its own users' writes in their order, and all that its store does not refuse.
OwnWritesInOrder ==
    \A n \in Nodes :
        /\ TakenInOrder(n, n)
        /\ restarts[n] = 0 => \A w \in DOMAIN issued :
             issued[w].node = n /\ issued[w].command \notin Refused[n] => w \in Range(applied[n])

OrderInv == OneConnectionInOrder /\ OwnWritesInOrder

-----------------------------------------------------------------------------
(* The queue of a CacheClient                                              *)

\* A client's state between two steps.
Sane(c) ==
    /\ c \in Client
    /\ c.request # "none" => c.connected /\ c.item # None
    /\ Distinct(c)

\* From c to d the client let the writes of W go, in no other way than that.
LetsGo(c, d, W) ==
    /\ Sane(d)
    /\ \A w \in Writes : Holds(d, w) <=> Holds(c, w) /\ w \notin W
    /\ \A w \in Writes : Unsent(d, w) => Unsent(c, w)
    /\ d.request \in {"OK", "ERR"} => d.request = c.request /\ d.item = c.item

LEMMA SeqFacts ==
    ASSUME NEW s \in Seq(Writes)
    PROVE  /\ Len(s) \in Nat /\ DOMAIN s = 1..Len(s)
           /\ Range(s) \subseteq Writes
           /\ \A i \in DOMAIN s : s[i] \in Range(s)
           /\ \A w \in Range(s) : \E i \in DOMAIN s : s[i] = w
BY DEF Range

LEMMA AppendFacts ==
    ASSUME NEW s \in Seq(Writes), NEW w \in Writes
    PROVE  /\ Append(s, w) \in Seq(Writes)
           /\ Range(Append(s, w)) = Range(s) \cup {w}
           /\ IsInjective(s) /\ w \notin Range(s) => IsInjective(Append(s, w))
<1>. DEFINE t == Append(s, w)
<1>1. /\ t \in Seq(Writes) /\ Len(t) = Len(s) + 1 /\ DOMAIN t = 1..Len(s) + 1
      /\ DOMAIN s = 1..Len(s) /\ Len(s) \in Nat
      /\ \A i \in DOMAIN s : t[i] = s[i]
      /\ t[Len(s) + 1] = w
    BY AppendProperties
<1>. HIDE DEF t
<1>2. Range(t) = Range(s) \cup {w}
    <2>1. ASSUME NEW v \in Range(t) PROVE v \in Range(s) \cup {w}
        <3>1. PICK i \in DOMAIN t : t[i] = v
            BY <2>1 DEF Range
        <3>. QED
            BY <1>1, <3>1 DEF Range
    <2>2. ASSUME NEW v \in Range(s) PROVE v \in Range(t)
        <3>1. PICK i \in DOMAIN s : s[i] = v
            BY <2>2 DEF Range
        <3>2. i \in DOMAIN t /\ t[i] = v
            BY <1>1, <3>1
        <3>. QED
            BY <3>2 DEF Range
    <2>3. w \in Range(t)
        <3>1. Len(s) + 1 \in DOMAIN t
            BY <1>1
        <3>. QED
            BY <1>1, <3>1 DEF Range
    <2>. QED
        BY <2>1, <2>2, <2>3
<1>3. ASSUME IsInjective(s), w \notin Range(s) PROVE IsInjective(t)
    <2>1. \A i \in DOMAIN s : s[i] # w
        BY <1>3 DEF Range
    <2>. QED
        BY <1>1, <1>3, <2>1 DEF IsInjective
<1>. QED
    BY <1>1, <1>2, <1>3 DEF t

LEMMA HeadTailFacts ==
    ASSUME NEW s \in Seq(Writes), s # <<>>, IsInjective(s)
    PROVE  /\ Head(s) \in Writes /\ Tail(s) \in Seq(Writes)
           /\ Range(s) = {Head(s)} \cup Range(Tail(s))
           /\ Head(s) \notin Range(Tail(s))
           /\ IsInjective(Tail(s))
<1>. DEFINE t == Tail(s)
<1>1. /\ Len(s) \in Nat /\ Len(s) > 0 /\ DOMAIN s = 1..Len(s) /\ Head(s) = s[1]
      /\ t \in Seq(Writes) /\ Len(t) = Len(s) - 1 /\ DOMAIN t = 1..Len(s) - 1
      /\ \A i \in DOMAIN t : t[i] = s[i + 1] /\ i + 1 \in DOMAIN s
      /\ 1 \in DOMAIN s /\ s[1] \in Writes
      /\ \A i \in DOMAIN s : i # 1 => i - 1 \in DOMAIN t /\ t[i - 1] = s[i]
    BY HeadTailProperties, EmptySeq
<1>. HIDE DEF t
<1>2. \A i \in DOMAIN t : s[1] # t[i]
    BY <1>1 DEF IsInjective
<1>3. IsInjective(t)
    BY <1>1 DEF IsInjective
<1>4. Range(s) = {s[1]} \cup Range(t)
    <2>1. ASSUME NEW v \in Range(s) PROVE v \in {s[1]} \cup Range(t)
        <3>1. PICK i \in DOMAIN s : s[i] = v
            BY <2>1 DEF Range
        <3>2. CASE i = 1
            BY <3>1, <3>2
        <3>3. CASE i # 1
            <4>1. i - 1 \in DOMAIN t /\ t[i - 1] = v
                BY <1>1, <3>1, <3>3
            <4>. QED
                BY <4>1 DEF Range
        <3>. QED
            BY <3>2, <3>3
    <2>2. ASSUME NEW v \in Range(t) PROVE v \in Range(s)
        <3>1. PICK i \in DOMAIN t : t[i] = v
            BY <2>2 DEF Range
        <3>2. i + 1 \in DOMAIN s /\ s[i + 1] = v
            BY <1>1, <3>1
        <3>. QED
            BY <3>2 DEF Range
    <2>3. s[1] \in Range(s)
        BY <1>1 DEF Range
    <2>. QED
        BY <2>1, <2>2, <2>3
<1>5. Head(s) \notin Range(t)
    BY <1>1, <1>2 DEF Range
<1>. QED
    BY <1>1, <1>3, <1>4, <1>5 DEF t

LEMMA ConcatFacts ==
    ASSUME NEW s \in Seq(Writes), NEW t \in Seq(Writes)
    PROVE  /\ s \o t \in Seq(Writes)
           /\ Range(s \o t) = Range(s) \cup Range(t)
           /\ (IsInjective(s) /\ IsInjective(t) /\ Range(s) \cap Range(t) = {})
                => IsInjective(s \o t)
<1>. DEFINE u == s \o t
<1>1. /\ Len(s) \in Nat /\ Len(t) \in Nat /\ DOMAIN s = 1..Len(s) /\ DOMAIN t = 1..Len(t)
      /\ u \in Seq(Writes) /\ DOMAIN u = 1..Len(s) + Len(t)
      /\ \A i \in DOMAIN u : u[i] = IF i <= Len(s) THEN s[i] ELSE t[i - Len(s)]
    BY ConcatProperties
<1>. HIDE DEF u
<1>2. \A i \in DOMAIN s : i \in DOMAIN u /\ u[i] = s[i]
    BY <1>1
<1>3. \A i \in DOMAIN t : i + Len(s) \in DOMAIN u /\ u[i + Len(s)] = t[i]
    BY <1>1
<1>4. ASSUME NEW i \in DOMAIN u
      PROVE  \/ i \in DOMAIN s /\ u[i] = s[i]
             \/ i - Len(s) \in DOMAIN t /\ u[i] = t[i - Len(s)]
    <2>1. i \in Int /\ 1 <= i /\ i <= Len(s) + Len(t)
        BY <1>1
    <2>2. CASE i <= Len(s)
        BY <1>1, <2>1, <2>2
    <2>3. CASE ~(i <= Len(s))
        <3>1. i - Len(s) \in 1..Len(t)
            BY <1>1, <2>1, <2>3
        <3>. QED
            BY <1>1, <2>3, <3>1
    <2>. QED
        BY <2>2, <2>3
<1>5. Range(u) = Range(s) \cup Range(t)
    <2>1. ASSUME NEW v \in Range(u) PROVE v \in Range(s) \cup Range(t)
        <3>1. PICK i \in DOMAIN u : u[i] = v
            BY <2>1 DEF Range
        <3>. QED
            BY <1>4, <3>1 DEF Range
    <2>2. ASSUME NEW v \in Range(s) PROVE v \in Range(u)
        BY <1>2, <2>2 DEF Range
    <2>3. ASSUME NEW v \in Range(t) PROVE v \in Range(u)
        <3>1. PICK i \in DOMAIN t : t[i] = v
            BY <2>3 DEF Range
        <3>2. i + Len(s) \in DOMAIN u /\ u[i + Len(s)] = v
            BY <1>3, <3>1
        <3>. QED
            BY <3>2 DEF Range
    <2>. QED
        BY <2>1, <2>2, <2>3
<1>6. ASSUME IsInjective(s), IsInjective(t), Range(s) \cap Range(t) = {}
      PROVE  IsInjective(u)
    <2>1. \A i \in DOMAIN s, j \in DOMAIN t : s[i] # t[j]
        BY <1>6 DEF Range
    <2>2. ASSUME NEW i \in DOMAIN u, NEW j \in DOMAIN u, u[i] = u[j]
          PROVE  i = j
        <3>0. i \in Int /\ j \in Int
            BY <1>1
        <3>1. CASE i \in DOMAIN s /\ u[i] = s[i]
            BY <1>4, <1>6, <2>1, <2>2, <3>1 DEF IsInjective
        <3>2. CASE i - Len(s) \in DOMAIN t /\ u[i] = t[i - Len(s)]
            <4>1. j - Len(s) \in DOMAIN t /\ u[j] = t[j - Len(s)]
                BY <1>4, <2>1, <2>2, <3>2
            <4>2. i - Len(s) = j - Len(s)
                BY <1>6, <2>2, <3>2, <4>1 DEF IsInjective
            <4>. QED
                BY <1>1, <3>0, <4>2
        <3>. QED
            BY <1>4, <3>1, <3>2
    <2>. QED
        BY <2>2 DEF IsInjective
<1>. QED
    BY <1>1, <1>5, <1>6 DEF u

LEMMA NoneIsNoWrite == None \notin Writes
BY BoundsAssumption DEF None, Writes

LEMMA LetsGoOn ==
    ASSUME NEW c, NEW d, NEW e, NEW W, LetsGo(c, d, W), LetsGo(d, e, {})
    PROVE  LetsGo(c, e, W)
BY DEF LetsGo

LEMMA ShiftFacts ==
    ASSUME NEW c, Sane(c), c.request = "none"
    PROVE  LetsGo(c, Shift(c), {}) /\ Shift(c).request = "none"
<1>1. CASE c.item = None /\ c.queue # <<>> /\ ~c.closed
    <2>. DEFINE d == [c EXCEPT !.item = Head(c.queue), !.queue = Tail(c.queue)]
    <2>1. /\ c \in Client /\ c.queue \in Seq(Writes) /\ IsInjective(c.queue)
          /\ c.waiting \in Seq(Writes)
        BY DEF Sane, Client, Distinct
    <2>2. /\ Head(c.queue) \in Writes /\ Tail(c.queue) \in Seq(Writes)
          /\ Range(c.queue) = {Head(c.queue)} \cup Range(Tail(c.queue))
          /\ Head(c.queue) \notin Range(Tail(c.queue))
          /\ IsInjective(Tail(c.queue))
        BY <1>1, <2>1, HeadTailFacts
    <2>3. /\ d \in Client /\ d.request = "none" /\ d.item = Head(c.queue)
          /\ d.queue = Tail(c.queue) /\ d.waiting = c.waiting
        BY <2>1, <2>2 DEF Client
    <2>. HIDE DEF d
    <2>4. Sane(d)
        BY <2>2, <2>3 DEF Sane, Distinct
    <2>5. \A w \in Writes : Holds(d, w) <=> Holds(c, w)
        BY <1>1, <2>2, <2>3, NoneIsNoWrite DEF Holds
    <2>6. \A w \in Writes : Unsent(d, w) => Unsent(c, w)
        BY <2>5 DEF Unsent
    <2>7. Shift(c) = d
        BY <1>1 DEF Shift, d
    <2>. QED
        BY <2>3, <2>4, <2>5, <2>6, <2>7 DEF LetsGo
<1>2. CASE ~(c.item = None /\ c.queue # <<>> /\ ~c.closed)
    BY <1>2 DEF Shift, LetsGo
<1>. QED
    BY <1>1, <1>2

LEMMA PumpFacts ==
    ASSUME NEW c, Sane(c)
    PROVE  LetsGo(c, Pump(c), {})
<1>0. ASSUME NEW x, Sane(x) PROVE LetsGo(x, x, {})
    BY <1>0 DEF LetsGo
<1>1. CASE c.request = "none"
    <2>. DEFINE d == Shift(c)
                e == WriteItem(d)
    <2>1. LetsGo(c, d, {}) /\ d.request = "none" /\ Sane(d)
        BY <1>1, ShiftFacts DEF LetsGo
    <2>2. Pump(c) = e
        BY <1>1 DEF Pump
    <2>. HIDE DEF d
    <2>3. LetsGo(d, e, {})
        <3>1. CASE d.item # None /\ d.connected
            <4>1. e = [d EXCEPT !.request = "sent"]
                BY <3>1 DEF WriteItem
            <4>2. d \in Client
                BY <2>1 DEF Sane
            <4>. HIDE DEF e
            <4>3. /\ e \in Client /\ e.request = "sent" /\ e.item = d.item /\ e.queue = d.queue
                  /\ e.waiting = d.waiting /\ e.connected = d.connected
                BY <4>1, <4>2 DEF Client
            <4>. QED
                BY <2>1, <3>1, <4>3 DEF LetsGo, Sane, Distinct, Holds, Unsent
        <3>2. CASE ~(d.item # None /\ d.connected)
            BY <1>0, <2>1, <3>2 DEF WriteItem
        <3>. QED
            BY <3>1, <3>2
    <2>. QED
        BY <2>1, <2>2, <2>3, LetsGoOn
<1>2. CASE c.request # "none"
    BY <1>0, <1>2 DEF Pump
<1>. QED
    BY <1>1, <1>2

LEMMA FlushFacts ==
    ASSUME NEW c, Sane(c)
    PROVE  LetsGo(c, Flush(c), {})
<1>. DEFINE q == c.queue \o c.waiting
            d == [c EXCEPT !.waiting = <<>>, !.queue = q]
<1>1. /\ c \in Client /\ c.queue \in Seq(Writes) /\ c.waiting \in Seq(Writes)
    BY DEF Sane, Client
<1>2. q \in Seq(Writes) /\ Range(q) = Range(c.queue) \cup Range(c.waiting) /\ IsInjective(q)
    BY <1>1, ConcatFacts DEF Sane, Distinct
<1>3. Flush(c) = Pump(d)
    BY DEF Flush
<1>4. Range(<<>>) = {} /\ IsInjective(<<>>) /\ <<>> \in Seq(Writes)
    BY DEF Range, IsInjective
<1>. HIDE DEF q
<1>5. /\ d \in Client /\ d.request = c.request /\ d.item = c.item /\ d.connected = c.connected
      /\ d.queue = q /\ d.waiting = <<>>
    BY <1>1, <1>2, <1>4 DEF Client
<1>. HIDE DEF d
<1>6. Sane(d)
    BY <1>2, <1>4, <1>5 DEF Sane, Distinct
<1>7. \A w \in Writes : Holds(d, w) <=> Holds(c, w)
    BY <1>2, <1>4, <1>5 DEF Holds
<1>8. LetsGo(c, d, {})
    BY <1>5, <1>6, <1>7 DEF LetsGo, Unsent
<1>. QED
    BY <1>3, <1>6, <1>8, PumpFacts, LetsGoOn

\* Whatever else the client does, its item is given up, or answered.
LEMMA DropItemFacts ==
    ASSUME NEW c, Sane(c), NEW d, d \in Client,
           d.waiting = c.waiting, d.queue = c.queue, d.item = None, d.request = "none"
    PROVE  LetsGo(c, Pump(d), {c.item})
<1>1. Sane(d)
    <2>1. Range(d.waiting) \subseteq Writes /\ Range(d.queue) \subseteq Writes
        BY SeqFacts DEF Client
    <2>. QED
        BY <2>1, NoneIsNoWrite DEF Sane, Distinct
<1>2. LetsGo(c, d, {c.item})
    BY <1>1, NoneIsNoWrite DEF LetsGo, Holds, Unsent, Sane, Distinct
<1>. QED
    BY <1>1, <1>2, PumpFacts, LetsGoOn

\* The client gets or loses its connection, with no line on the wire.
LEMMA ConnectionFacts ==
    ASSUME NEW c, Sane(c), c.request = "none", NEW b \in BOOLEAN
    PROVE  LetsGo(c, [c EXCEPT !.connected = b], {}) /\ Sane([c EXCEPT !.connected = b])
<1>. DEFINE d == [c EXCEPT !.connected = b]
<1>1. c \in Client
    BY DEF Sane
<1>2. /\ d \in Client /\ d.request = "none" /\ d.item = c.item /\ d.queue = c.queue
      /\ d.waiting = c.waiting
    BY <1>1 DEF Client
<1>. HIDE DEF d
<1>3. Sane(d) /\ LetsGo(c, d, {})
    BY <1>2 DEF LetsGo, Sane, Distinct, Holds, Unsent
<1>. QED
    BY <1>3 DEF d

\* The write a lost connection takes along.
OnTheWire(c) == IF c.request = "none" THEN {} ELSE {c.item}

LEMMA DisconnectFacts ==
    ASSUME NEW c, Sane(c)
    PROVE  /\ LetsGo(c, Disconnect(c), OnTheWire(c))
           /\ Disconnect(c).request \notin {"OK", "ERR"}
<1>1. c \in Client
    BY DEF Sane
<1>2. CASE c.request = "none"
    <2>. DEFINE d == [c EXCEPT !.connected = FALSE]
    <2>1. Disconnect(c) = Pump(d)
        <3>1. [c EXCEPT !.connected = FALSE, !.request = "none", !.item = c.item] = d
            BY <1>1, <1>2 DEF Client
        <3>. QED
            BY <1>2, <3>1 DEF Disconnect
    <2>2. LetsGo(c, d, {}) /\ Sane(d)
        BY <1>2, ConnectionFacts
    <2>3. LetsGo(c, Pump(d), {})
        BY <2>2, PumpFacts, LetsGoOn
    <2>. QED
        BY <1>2, <2>1, <2>3 DEF LetsGo, OnTheWire
<1>3. CASE c.request # "none"
    <2>. DEFINE d == [c EXCEPT !.connected = FALSE, !.request = "none", !.item = None]
    <2>1. Disconnect(c) = Pump(d)
        BY <1>3 DEF Disconnect
    <2>2. /\ d \in Client /\ d.waiting = c.waiting /\ d.queue = c.queue
          /\ d.item = None /\ d.request = "none"
        BY <1>1 DEF Client
    <2>. HIDE DEF d
    <2>3. LetsGo(c, Pump(d), {c.item})
        BY <2>2, DropItemFacts
    <2>4. Pump(d).request \notin {"OK", "ERR"}
        BY <2>2 DEF Pump, WriteItem, Shift
    <2>. QED
        BY <1>3, <2>1, <2>3, <2>4 DEF OnTheWire
<1>. QED
    BY <1>2, <1>3

\* A line joins the queue, or waits for the connection.
LEMMA EnqueueFacts ==
    ASSUME NEW c, Sane(c), NEW w \in Writes, ~Holds(c, w)
    PROVE  LET d == Enqueue(c, w)
           IN  /\ Sane(d)
               /\ \A v \in Writes : Holds(d, v) <=> Holds(c, v) \/ v = w
               /\ \A v \in Writes : Unsent(d, v) => Unsent(c, v) \/ v = w
               /\ d.request \in {"OK", "ERR"} => d.request = c.request /\ d.item = c.item
<1>1. /\ c \in Client /\ c.queue \in Seq(Writes) /\ c.waiting \in Seq(Writes)
      /\ w \notin Range(c.queue) /\ w \notin Range(c.waiting) /\ w # c.item
    BY NoneIsNoWrite DEF Sane, Client, Holds
<1>2. CASE c.connected
    <2>. DEFINE q == Append(c.queue, w)
                d == [c EXCEPT !.queue = q]
    <2>1. q \in Seq(Writes) /\ Range(q) = Range(c.queue) \cup {w} /\ IsInjective(q)
        BY <1>1, AppendFacts DEF Sane, Distinct
    <2>2. Enqueue(c, w) = Pump(d)
        BY <1>2 DEF Enqueue
    <2>. HIDE DEF q
    <2>3. /\ d \in Client /\ d.request = c.request /\ d.item = c.item /\ d.queue = q
          /\ d.waiting = c.waiting /\ d.connected = c.connected
        BY <1>1, <2>1 DEF Client
    <2>. HIDE DEF d
    <2>4. Sane(d)
        BY <1>1, <2>1, <2>3 DEF Sane, Distinct
    <2>5. LetsGo(d, Pump(d), {})
        BY <2>4, PumpFacts
    <2>6. \A v \in Writes : Holds(d, v) <=> Holds(c, v) \/ v = w
        BY <2>1, <2>3 DEF Holds
    <2>. QED
        BY <2>2, <2>3, <2>5, <2>6 DEF LetsGo, Unsent
<1>3. CASE ~c.connected
    <2>. DEFINE q == Append(c.waiting, w)
                d == [c EXCEPT !.waiting = q]
    <2>1. q \in Seq(Writes) /\ Range(q) = Range(c.waiting) \cup {w} /\ IsInjective(q)
        BY <1>1, AppendFacts DEF Sane, Distinct
    <2>2. Enqueue(c, w) = d
        BY <1>3 DEF Enqueue
    <2>. HIDE DEF q
    <2>3. /\ d \in Client /\ d.request = c.request /\ d.item = c.item /\ d.queue = c.queue
          /\ d.waiting = q /\ d.connected = c.connected
        BY <1>1, <2>1 DEF Client
    <2>. HIDE DEF d
    <2>4. Sane(d)
        BY <1>1, <2>1, <2>3 DEF Sane, Distinct
    <2>5. \A v \in Writes : Holds(d, v) <=> Holds(c, v) \/ v = w
        BY <2>1, <2>3 DEF Holds
    <2>. QED
        BY <2>2, <2>3, <2>4, <2>5 DEF Unsent
<1>. QED
    BY <1>2, <1>3

\* What close() rejects, and the client it leaves.
Rejected(c) == Range(c.queue) \cup IF c.request = "none" THEN {} ELSE {c.item}

Shut(c) ==
    [c EXCEPT !.closed = TRUE, !.connected = FALSE, !.queue = <<>>,
              !.item = IF c.request = "none" THEN @ ELSE None,
              !.request = "none"]

LEMMA ShutFacts ==
    ASSUME NEW c, Sane(c)
    PROVE  LetsGo(c, Shut(c), Rejected(c)) /\ Shut(c).request = "none"
<1>. DEFINE d == Shut(c)
<1>1. c \in Client /\ Range(c.queue) \subseteq Writes /\ Range(c.waiting) \subseteq Writes
    BY SeqFacts DEF Sane, Client
<1>2. Range(<<>>) = {} /\ IsInjective(<<>>) /\ <<>> \in Seq(Writes)
    BY DEF Range, IsInjective
<1>3. /\ d \in Client /\ d.request = "none" /\ d.queue = <<>> /\ d.waiting = c.waiting
      /\ d.item = IF c.request = "none" THEN c.item ELSE None
    BY <1>1, <1>2 DEF Client, Shut
<1>. HIDE DEF d
<1>4. Sane(d)
    BY <1>1, <1>2, <1>3, NoneIsNoWrite DEF Sane, Distinct
<1>5. \A w \in Writes : Holds(d, w) <=> Holds(c, w) /\ w \notin Rejected(c)
    BY <1>2, <1>3, NoneIsNoWrite DEF Holds, Rejected, Sane, Distinct
<1>6. \A w \in Writes : Unsent(d, w) => Unsent(c, w)
    BY <1>3, <1>5, NoneIsNoWrite DEF Unsent, Rejected
<1>7. LetsGo(c, d, Rejected(c)) /\ d.request = "none"
    BY <1>3, <1>4, <1>5, <1>6 DEF LetsGo
<1>. QED
    BY <1>7 DEF d

LEMMA NewClientFacts ==
    /\ Sane(NewClient) /\ NewClient.request = "none"
    /\ \A w : ~Holds(NewClient, w)
<1>1. Range(<<>>) = {} /\ IsInjective(<<>>) /\ <<>> \in Seq(Writes)
    BY DEF Range, IsInjective
<1>. QED
    BY <1>1 DEF NewClient, Sane, Client, Distinct, Holds, None

-----------------------------------------------------------------------------
(* The fan-outs of a node                                                  *)

Mine(n) == {w \in DOMAIN issued : issued[w].node = n}

\* Of n's fan-outs, as tasks t have them: the open ones, and those a peer holds open.
OpenOf(n, t) == {w \in Mine(n) : Open(w, t)}
PendingAt(n, q, t) == {w \in Mine(n) : t[<<w, q>>] = "pending"}

\* Those that end when the tasks change to t.
EndedBy(n, t) == {w \in Mine(n) : Open(w, task) /\ ~Open(w, t)}

LEMMA PairFacts ==
    ASSUME NEW c \in Pairs
    PROVE  /\ c = <<c[1], c[2]>> /\ c[1] \in Nodes /\ c[2] \in Nodes /\ c[1] # c[2]
           /\ <<c[1], c[2]>> \in Pairs
<1>1. PICK k \in Keys : c \in {Primary(k)} \X Peers(k, Primary(k))
    BY DEF Pairs
<1>2. ReplicaIndices[k] \in Seq(Nodes) /\ ReplicaIndices[k] # <<>>
    BY ClusterAssumption
<1>3. Primary(k) \in Nodes
    BY <1>2 DEF Primary
<1>4. Peers(k, Primary(k)) \subseteq Nodes \ {Primary(k)}
    BY <1>2 DEF Peers, Range
<1>. QED
    BY <1>1, <1>3, <1>4

LEMMA PrimaryFacts ==
    ASSUME NEW k \in Keys
    PROVE  /\ Primary(k) \in Nodes
           /\ \A n : Peers(k, n) \subseteq Nodes \ {n}
           /\ \A p \in Peers(k, Primary(k)) : <<Primary(k), p>> \in Pairs
<1>1. ReplicaIndices[k] \in Seq(Nodes) /\ ReplicaIndices[k] # <<>>
    BY ClusterAssumption
<1>2. Primary(k) \in Nodes
    BY <1>1 DEF Primary
<1>3. \A n : Peers(k, n) \subseteq Nodes \ {n}
    BY <1>1 DEF Peers, Range
<1>. QED
    BY <1>2, <1>3 DEF Pairs

LEMMA IssuedFacts ==
    ASSUME TypeOK, IssuedAreWrites
    PROVE  /\ DOMAIN issued = 1..Len(issued) /\ Len(issued) \in Nat
           /\ DOMAIN issued \subseteq Writes /\ IsFiniteSet(DOMAIN issued)
           /\ \A w \in DOMAIN issued :
                issued[w] \in [node : Nodes, key : Keys, command : Commands]
<1>1. DOMAIN issued = 1..Len(issued) /\ Len(issued) \in Nat
    BY DEF TypeOK
<1>2. IsFiniteSet(1..Len(issued))
    BY <1>1, FS_Interval
<1>3. \A w \in DOMAIN issued : issued[w] \in [node : Nodes, key : Keys, command : Commands]
    <2>. DEFINE T == [node : Nodes, key : Keys, command : Commands]
    <2>1. issued \in Seq(T)
        BY DEF TypeOK
    <2>. HIDE DEF T
    <2>2. \A w \in DOMAIN issued : issued[w] \in T
        BY <2>1
    <2>. QED
        BY <2>2 DEF T
<1>. QED
    BY <1>1, <1>2, <1>3 DEF IssuedAreWrites

LEMMA MineFacts ==
    ASSUME TypeOK, IssuedAreWrites, NEW n
    PROVE  /\ Mine(n) \subseteq Writes /\ IsFiniteSet(Mine(n))
           /\ \A S \in SUBSET Mine(n) : IsFiniteSet(S) /\ Cardinality(S) \in Nat
<1>1. Mine(n) \subseteq DOMAIN issued
    BY DEF Mine
<1>2. IsFiniteSet(Mine(n))
    BY <1>1, IssuedFacts, FS_Subset
<1>. QED
    BY <1>1, <1>2, IssuedFacts, FS_Subset, FS_CardinalityType

\* The fan-outs of n change from task to t: peer q settles those of R[q].
LEMMA FanOutsSettled ==
    ASSUME TypeOK, IssuedAreWrites, NEW n, NEW t, NEW R,
           \A q \in Nodes : R[q] \subseteq Mine(n),
           \A q \in Nodes : \A w \in R[q] : task[<<w, q>>] = "pending",
           \A q \in Nodes, w \in Mine(n) :
             t[<<w, q>>] = "pending" <=> task[<<w, q>>] = "pending" /\ w \notin R[q]
    PROVE  /\ Cardinality(OpenOf(n, t)) =
                Cardinality(OpenOf(n, task)) - Cardinality(EndedBy(n, t))
           /\ Cardinality(OpenOf(n, t)) \in Nat /\ Cardinality(OpenOf(n, task)) \in Nat
           /\ Cardinality(EndedBy(n, t)) \in Nat
           /\ \A w \in EndedBy(n, t) : \E q \in Nodes : w \in R[q]
<1>1. /\ IsFiniteSet(OpenOf(n, task)) /\ Cardinality(OpenOf(n, task)) \in Nat
      /\ Cardinality(OpenOf(n, t)) \in Nat /\ Cardinality(EndedBy(n, t)) \in Nat
    <2>1. /\ OpenOf(n, task) \in SUBSET Mine(n) /\ OpenOf(n, t) \in SUBSET Mine(n)
          /\ EndedBy(n, t) \in SUBSET Mine(n)
        BY DEF OpenOf, EndedBy
    <2>. QED
        BY <2>1, MineFacts
<1>2. /\ OpenOf(n, t) = OpenOf(n, task) \ EndedBy(n, t)
      /\ OpenOf(n, task) \cap EndedBy(n, t) = EndedBy(n, t)
    BY DEF Open, OpenOf, EndedBy
<1>3. Cardinality(OpenOf(n, t)) = Cardinality(OpenOf(n, task)) - Cardinality(EndedBy(n, t))
    BY <1>1, <1>2, FS_Difference
<1>4. ASSUME NEW w \in EndedBy(n, t) PROVE \E q \in Nodes : w \in R[q]
    BY DEF Open, EndedBy
<1>. QED
    BY <1>1, <1>3, <1>4

\* Peer q settles the fan-outs W of n.
LEMMA PeerSettled ==
    ASSUME TypeOK, IssuedAreWrites, NEW n, NEW t, NEW q, NEW W \in SUBSET Mine(n),
           \A w \in W : task[<<w, q>>] = "pending",
           \A w \in Mine(n) :
             t[<<w, q>>] = "pending" <=> task[<<w, q>>] = "pending" /\ w \notin W
    PROVE  /\ Cardinality(PendingAt(n, q, t)) =
                Cardinality(PendingAt(n, q, task)) - Cardinality(W)
           /\ Cardinality(PendingAt(n, q, t)) \in Nat
           /\ Cardinality(PendingAt(n, q, task)) \in Nat
           /\ Cardinality(W) \in Nat
<1>. DEFINE C == PendingAt(n, q, task)
            D == PendingAt(n, q, t)
<1>1. C \in SUBSET Mine(n) /\ D \in SUBSET Mine(n)
    BY DEF PendingAt
<1>2. D = C \ W /\ C \cap W = W
    BY DEF PendingAt
<1>3. /\ IsFiniteSet(C) /\ Cardinality(C) \in Nat /\ Cardinality(D) \in Nat
      /\ Cardinality(W) \in Nat
    BY <1>1, MineFacts
<1>. HIDE DEF C, D
<1>4. Cardinality(C \ W) = Cardinality(C) - Cardinality(C \cap W)
    BY <1>3, FS_Difference
<1>5. Cardinality(D) = Cardinality(C) - Cardinality(W)
    BY <1>2, <1>4, Zenon
<1>. QED
    BY <1>3, <1>5 DEF C, D

-----------------------------------------------------------------------------
(* Steps that take no write and hear of none                               *)

\* A client keeps what stays pending; what it had on the wire may linger.
ReleasedAt(c) ==
    /\ Sane(client'[c])
    /\ \A w \in Writes : Holds(client'[c], w) =>
         Holds(client[c], w) /\ task'[<<w, c[2]>>] = "pending"
    /\ \A w \in Writes : Unsent(client'[c], w) => Unsent(client[c], w)
    /\ client'[c].request = "OK" =>
         /\ client[c].request = "OK" /\ client'[c].item = client[c].item
         /\ applied'[c[2]] = applied[c[2]]
    /\ \A w \in late'[c] :
         \/ w \in late[c]
         \/ w \in Writes /\ Unsent(client[c], w) /\ task'[<<w, c[2]>>] # "pending"

\* Fan-outs settle, clients let go of their writes, nodes start anew.
Release ==
    /\ UNCHANGED issued
    /\ \A n \in Nodes :
         \/ applied'[n] = applied[n] /\ restarts'[n] = restarts[n]
         \/ applied'[n] = <<>> /\ restarts'[n] # 0
    /\ \A c \in Pairs : ReleasedAt(c)
    /\ \A w \in Writes, p \in Nodes : task'[<<w, p>>] # task[<<w, p>>] =>
         /\ task[<<w, p>>] = "pending" /\ task'[<<w, p>>] \notin {"none", "pending"}
         /\ task'[<<w, p>>] = "succeeded" => w \in Range(applied'[p])

LEMMA SaneClients ==
    ASSUME TypeOK, ClientHoldsPending, NEW c \in Pairs
    PROVE  Sane(client[c])
BY DEF TypeOK, ClientHoldsPending, Sane

LEMMA ReleaseInv ==
    ASSUME Inv, TypeOK', Release, PendingTracksFanOuts'
    PROVE  Inv'
<1>. USE DEF Release, ReleasedAt
<1>1. IssuedAreWrites' /\ DOMAIN issued \subseteq Writes
    BY DEF Inv, IssuedAreWrites
<1>2. TasksArePrimarys'
    BY DEF Inv, TasksArePrimarys, Peers, Primary
<1>0. Range(<<>>) = {} /\ IsInjective(<<>>)
    BY DEF Range, IsInjective
<1>3. ClientHoldsPending'
    <2>. SUFFICES ASSUME NEW c \in Pairs
                  PROVE  /\ Distinct(client'[c])
                         /\ \A w \in Writes : Holds(client'[c], w) =>
                              w \in DOMAIN issued /\ issued[w].node = c[1]
                                /\ task'[<<w, c[2]>>] = "pending"
                         /\ \A w \in Writes : Unsent(client'[c], w) =>
                              w \notin Range(applied'[c[2]])
                         /\ client'[c].request = "OK" =>
                              client'[c].item \in Range(applied'[c[2]])
        BY DEF ClientHoldsPending
    <2>1. Distinct(client'[c])
        BY DEF Sane
    <2>2. c[2] \in Nodes
        BY PairFacts
    <2>3. ClientHoldsPending
        BY DEF Inv
    <2>4. \A w \in Writes : Holds(client'[c], w) =>
            w \in DOMAIN issued /\ issued[w].node = c[1] /\ task'[<<w, c[2]>>] = "pending"
        BY <2>3 DEF ClientHoldsPending
    <2>5. \A w \in Writes : Unsent(client'[c], w) => w \notin Range(applied'[c[2]])
        BY <1>0, <2>2, <2>3 DEF ClientHoldsPending
    <2>6. client'[c].request = "OK" => client'[c].item \in Range(applied'[c[2]])
        BY <2>3 DEF ClientHoldsPending
    <2>. QED
        BY <2>1, <2>4, <2>5, <2>6
<1>4. LateLinesAreGivenUp'
    <2>. SUFFICES ASSUME NEW c \in Pairs, NEW w \in late'[c]
                  PROVE  /\ w \in DOMAIN issued /\ issued[w].node = c[1]
                         /\ task'[<<w, c[2]>>] \notin {"none", "pending"}
                         /\ w \notin Range(applied'[c[2]])
        BY DEF LateLinesAreGivenUp
    <2>1. c[2] \in Nodes /\ w \in Writes
        BY PairFacts DEF TypeOK
    <2>2. CASE w \in late[c]
        <3>1. /\ w \in DOMAIN issued /\ issued[w].node = c[1]
              /\ task[<<w, c[2]>>] \notin {"none", "pending"}
              /\ w \notin Range(applied[c[2]])
            BY <2>2 DEF Inv, LateLinesAreGivenUp
        <3>. QED
            BY <1>0, <2>1, <3>1
    <2>3. CASE w \notin late[c]
        <3>1. Unsent(client[c], w) /\ task'[<<w, c[2]>>] # "pending"
            BY <2>3
        <3>2. /\ w \in DOMAIN issued /\ issued[w].node = c[1]
              /\ task[<<w, c[2]>>] = "pending" /\ w \notin Range(applied[c[2]])
            BY <2>1, <3>1 DEF Inv, ClientHoldsPending, Unsent
        <3>. QED
            BY <1>0, <2>1, <3>1, <3>2
    <2>. QED
        BY <2>2, <2>3
<1>5. TakenWereIssued'
    <2>. SUFFICES ASSUME NEW n \in Nodes, NEW w \in Range(applied'[n])
                  PROVE  w \in DOMAIN issued /\ (issued[w].node = n \/ task'[<<w, n>>] # "none")
        BY DEF TakenWereIssued
    <2>1. w \in Range(applied[n])
        BY <1>0
    <2>2. w \in DOMAIN issued /\ (issued[w].node = n \/ task[<<w, n>>] # "none")
        BY <2>1 DEF Inv, TakenWereIssued
    <2>. QED
        BY <1>1, <2>2
<1>6. TakenAtMostOnce'
    <2>. SUFFICES ASSUME NEW n \in Nodes PROVE IsInjective(applied'[n])
        BY DEF TakenAtMostOnce, IsInjective
    <2>1. IsInjective(applied[n])
        BY DEF Inv, TakenAtMostOnce, IsInjective
    <2>. QED
        BY <1>0, <2>1
<1>7. SucceededIsTaken'
    <2>. SUFFICES ASSUME NEW w \in DOMAIN issued, NEW p \in Nodes,
                         task'[<<w, p>>] = "succeeded", restarts'[p] = 0
                  PROVE  w \in Range(applied'[p])
        BY DEF SucceededIsTaken
    <2>1. CASE task[<<w, p>>] = "succeeded"
        BY <2>1 DEF Inv, SucceededIsTaken
    <2>2. CASE task[<<w, p>>] # "succeeded"
        BY <1>1, <2>2
    <2>. QED
        BY <2>1, <2>2
<1>. QED
    BY <1>1, <1>2, <1>3, <1>4, <1>5, <1>6, <1>7 DEF Inv

\* The counters of n, as PendingTracksFanOuts has them.
Balanced(n) ==
    /\ engine[n].pending = Cardinality(OpenOf(n, task))
    /\ engine[n].pending <= MaxPending
    /\ \A p \in Nodes :
         engine[n].attempted[p] = engine[n].succeeded[p] + engine[n].failed[p]
           + Cardinality(PendingAt(n, p, task))

LEMMA AllBalanced == PendingTracksFanOuts <=> \A n \in Nodes : Balanced(n)
BY DEF PendingTracksFanOuts, Balanced, Mine, OpenOf, PendingAt

LEMMA AllBalancedNext == PendingTracksFanOuts' <=> \A n \in Nodes : Balanced(n)'
BY DEF PendingTracksFanOuts, Balanced, Mine, OpenOf, PendingAt

\* What the tasks of n's fan-outs are decides the balance.
LEMMA StaysBalanced ==
    ASSUME NEW n \in Nodes, Balanced(n), Mine(n)' = Mine(n), engine'[n] = engine[n],
           \A w \in Mine(n), p \in Nodes :
             task'[<<w, p>>] = "pending" <=> task[<<w, p>>] = "pending"
    PROVE  Balanced(n)'
<1>1. OpenOf(n, task)' = OpenOf(n, task)
    BY DEF Open, OpenOf
<1>2. \A p \in Nodes : PendingAt(n, p, task)' = PendingAt(n, p, task)
    BY DEF PendingAt
<1>. QED
    BY <1>1, <1>2 DEF Balanced

\* Peer p's part of the writes W of n has ended that way, and the counters balance.
Settled(n, p, W, status) ==
    /\ PendingTracksFanOuts'
    /\ engine' \in [Nodes -> Engine]
    /\ task' \in [Writes \X Nodes -> Statuses]
    /\ \A w \in Writes, q \in Nodes :
         task'[<<w, q>>] = IF w \in W /\ q = p THEN status ELSE task[<<w, q>>]

LEMMA SettleFacts ==
    ASSUME Inv, NEW n \in Nodes, NEW p \in Nodes, NEW W \in SUBSET Writes, NEW status,
           status \in {"succeeded", "failed"}, UNCHANGED issued, Settle(n, p, W, status),
           \A w \in W : w \in Mine(n) /\ task[<<w, p>>] = "pending"
    PROVE  Settled(n, p, W, status)
<1>1. /\ TypeOK /\ IssuedAreWrites /\ engine[n] \in Engine
      /\ task \in [Writes \X Nodes -> Statuses]
      /\ \A m \in Nodes : Balanced(m)
    BY AllBalanced DEF Inv, TypeOK
<1>2. /\ task' = [x \in Writes \X Nodes |-> IF x[1] \in W /\ x[2] = p THEN status ELSE task[x]]
      /\ engine' = [engine EXCEPT
            ![n].pending = @ - Finished(W, task'),
            ![n].succeeded[p] = @ + IF status = "succeeded" THEN Cardinality(W) ELSE 0,
            ![n].failed[p] = @ + IF status = "failed" THEN Cardinality(W) ELSE 0]
    BY DEF Settle
<1>3. \A w \in Writes, q \in Nodes :
        task'[<<w, q>>] = IF w \in W /\ q = p THEN status ELSE task[<<w, q>>]
    BY <1>2
<1>4. task' \in [Writes \X Nodes -> Statuses]
    BY <1>1, <1>2 DEF Statuses
<1>. DEFINE R == [q \in Nodes |-> IF q = p THEN W ELSE {}]
            ended == EndedBy(n, task')
            A == OpenOf(n, task)
            B == OpenOf(n, task')
            C(q) == PendingAt(n, q, task)
            D(q) == PendingAt(n, q, task')
<1>5. /\ Cardinality(B) = Cardinality(A) - Cardinality(ended)
      /\ Cardinality(A) \in Nat /\ Cardinality(B) \in Nat /\ Cardinality(ended) \in Nat
      /\ \A w \in ended : \E q \in Nodes : w \in R[q]
      /\ \A q \in Nodes :
           /\ Cardinality(D(q)) = Cardinality(C(q)) - Cardinality(R[q])
           /\ Cardinality(D(q)) \in Nat /\ Cardinality(C(q)) \in Nat /\ Cardinality(R[q]) \in Nat
    <2>1. \A q \in Nodes : R[q] \subseteq Mine(n)
        OBVIOUS
    <2>2. \A q \in Nodes : \A w \in R[q] : task[<<w, q>>] = "pending"
        OBVIOUS
    <2>3. \A q \in Nodes, w \in Mine(n) :
            task'[<<w, q>>] = "pending" <=> task[<<w, q>>] = "pending" /\ w \notin R[q]
        <3>1. Mine(n) \subseteq Writes
            BY <1>1, MineFacts
        <3>. QED
            BY <1>3, <3>1
    <2>. HIDE DEF R
    <2>. DEFINE t == task'
    <2>4. \A q \in Nodes, w \in Mine(n) :
            t[<<w, q>>] = "pending" <=> task[<<w, q>>] = "pending" /\ w \notin R[q]
        BY <2>3
    <2>. HIDE DEF t
    <2>5. /\ Cardinality(OpenOf(n, t)) =
                Cardinality(OpenOf(n, task)) - Cardinality(EndedBy(n, t))
           /\ Cardinality(OpenOf(n, t)) \in Nat /\ Cardinality(OpenOf(n, task)) \in Nat
           /\ Cardinality(EndedBy(n, t)) \in Nat
        BY <1>1, <2>1, <2>2, <2>4, FanOutsSettled, Zenon
    <2>6. \A w \in EndedBy(n, t) : \E q \in Nodes : w \in R[q]
        BY <1>1, <2>1, <2>2, <2>4, FanOutsSettled, Zenon
    <2>7. ASSUME NEW q \in Nodes
          PROVE  /\ Cardinality(PendingAt(n, q, t)) =
                      Cardinality(PendingAt(n, q, task)) - Cardinality(R[q])
                 /\ Cardinality(PendingAt(n, q, t)) \in Nat
                 /\ Cardinality(PendingAt(n, q, task)) \in Nat
                 /\ Cardinality(R[q]) \in Nat
        BY <1>1, <2>1, <2>2, <2>4, PeerSettled
    <2>. QED
        BY <2>5, <2>6, <2>7 DEF t
<1>6. Finished(W, task') = Cardinality(ended)
    <2>1. {w \in W : ~Open(w, task')} \subseteq ended
        BY DEF Open, EndedBy
    <2>2. \A w \in ended : w \in W
        BY <1>5
    <2>3. {w \in W : ~Open(w, task')} = ended
        BY <2>1, <2>2 DEF EndedBy
    <2>. QED
        BY <2>3 DEF Finished
<1>7. Cardinality(R[p]) = Cardinality(W) /\ \A q \in Nodes \ {p} : Cardinality(R[q]) = 0
    BY FS_EmptySet
<1>. DEFINE e == engine[n]
            d == engine'[n]
<1>8. /\ d.pending = e.pending - Cardinality(ended)
      /\ d.attempted = e.attempted /\ d.closed = e.closed /\ d.dropped = e.dropped
      /\ d.succeeded = [e.succeeded EXCEPT ![p] = @ + IF status = "succeeded" THEN Cardinality(W) ELSE 0]
      /\ d.failed = [e.failed EXCEPT ![p] = @ + IF status = "failed" THEN Cardinality(W) ELSE 0]
      /\ d = [pending |-> d.pending, closed |-> d.closed, dropped |-> d.dropped,
              attempted |-> d.attempted, succeeded |-> d.succeeded, failed |-> d.failed]
      /\ \A m \in Nodes : m # n => engine'[m] = engine[m]
      /\ engine' = [m \in Nodes |-> engine'[m]]
    <2>. DEFINE x == Finished(W, task')
                y == IF status = "succeeded" THEN Cardinality(W) ELSE 0
                z == IF status = "failed" THEN Cardinality(W) ELSE 0
    <2>1. engine \in [Nodes -> Engine] /\ x = Cardinality(ended)
        BY <1>1, <1>6 DEF TypeOK
    <2>2. engine' = [engine EXCEPT ![n].pending = @ - x, ![n].succeeded[p] = @ + y,
                                   ![n].failed[p] = @ + z]
        BY <1>2
    <2>. HIDE DEF x, y, z, ended
    <2>3. /\ \A m \in Nodes : m # n => engine'[m] = engine[m]
          /\ engine' = [m \in Nodes |-> engine'[m]]
          /\ d = [e EXCEPT !.pending = @ - x, !.succeeded[p] = @ + y, !.failed[p] = @ + z]
        BY <2>1, <2>2
    <2>4. e \in Engine
        BY <2>1
    <2>. HIDE DEF d, e
    <2>5. /\ d.pending = e.pending - x
          /\ d.attempted = e.attempted /\ d.closed = e.closed /\ d.dropped = e.dropped
          /\ d.succeeded = [e.succeeded EXCEPT ![p] = @ + y]
          /\ d.failed = [e.failed EXCEPT ![p] = @ + z]
          /\ d = [pending |-> d.pending, closed |-> d.closed, dropped |-> d.dropped,
                  attempted |-> d.attempted, succeeded |-> d.succeeded, failed |-> d.failed]
        BY <2>3, <2>4 DEF Engine
    <2>. QED
        BY <2>1, <2>3, <2>5 DEF y, z, d, e
<1>9. /\ e.pending = Cardinality(A) /\ e.pending <= MaxPending
      /\ \A q \in Nodes : e.attempted[q] = e.succeeded[q] + e.failed[q] + Cardinality(C(q))
    BY <1>1 DEF Balanced
<1>. HIDE DEF R, ended, A, B, C, D, e, d
<1>10. d.pending = Cardinality(B) /\ d.pending <= MaxPending
    BY <1>5, <1>8, <1>9, BoundsAssumption
<1>11. e \in Engine /\ d \in Engine
    <2>1. e \in Engine /\ Cardinality(W) \in Nat
        BY <1>1, <1>5, <1>7 DEF e
    <2>2. d.succeeded \in [Nodes -> Nat] /\ d.failed \in [Nodes -> Nat] /\ d.pending \in Nat
        BY <1>5, <1>8, <1>10, <2>1 DEF Engine
    <2>. QED
        BY <1>8, <2>1, <2>2 DEF Engine
<1>12. \A q \in Nodes : d.attempted[q] = d.succeeded[q] + d.failed[q] + Cardinality(D(q))
    <2>. SUFFICES ASSUME NEW q \in Nodes
                  PROVE  d.attempted[q] = d.succeeded[q] + d.failed[q] + Cardinality(D(q))
        OBVIOUS
    <2>1. e.succeeded[q] \in Nat /\ e.failed[q] \in Nat /\ Cardinality(W) \in Nat
        BY <1>5, <1>7, <1>11 DEF Engine
    <2>2. e.succeeded \in [Nodes -> Nat] /\ e.failed \in [Nodes -> Nat]
        BY <1>11 DEF Engine
    <2>3. CASE q = p
        BY <1>5, <1>7, <1>8, <1>9, <2>1, <2>2, <2>3
    <2>4. CASE q # p
        BY <1>5, <1>7, <1>8, <1>9, <2>1, <2>2, <2>4
    <2>. QED
        BY <2>3, <2>4
<1>13. Balanced(n)'
    <2>1. Mine(n)' = Mine(n)
        BY DEF Mine
    <2>2. OpenOf(n, task)' = B /\ \A q : PendingAt(n, q, task)' = D(q)
        BY <2>1 DEF OpenOf, PendingAt, B, D
    <2>. QED
        BY <1>10, <1>12, <2>2 DEF Balanced, d
<1>14. \A m \in Nodes : m # n => Balanced(m)'
    <2>. SUFFICES ASSUME NEW m \in Nodes, m # n PROVE Balanced(m)'
        OBVIOUS
    <2>1. \A w \in Mine(m), q \in Nodes : task'[<<w, q>>] = task[<<w, q>>]
        <3>1. \A w \in Mine(m) : w \notin W /\ w \in Writes
            BY <1>1, MineFacts DEF Mine
        <3>. QED
            BY <1>3, <3>1
    <2>2. Mine(m)' = Mine(m)
        BY DEF Mine
    <2>. QED
        BY <1>1, <1>8, <2>1, <2>2, StaysBalanced
<1>15. engine' \in [Nodes -> Engine]
    BY <1>1, <1>8, <1>11 DEF TypeOK, d
<1>. QED
    BY <1>3, <1>4, <1>13, <1>14, <1>15, AllBalancedNext DEF Settled

\* Client c may settle the writes W that way.
MaySettle(c, W, status) ==
    /\ W \in SUBSET Writes /\ status \in {"succeeded", "failed"}
    /\ \A w \in W : Holds(client[c], w)
    /\ status = "succeeded" => W \subseteq Range(applied[c[2]])

\* Some writes of W may still be on their way from c's lost connection.
MayBeLate(c, W) ==
    /\ lost' \in [Pairs -> BOOLEAN]
    /\ late' \in [Pairs -> SUBSET Writes]
    /\ \A b \in Pairs : \A w \in late'[b] :
         w \in late[b] \/ (b = c /\ w \in W /\ Unsent(client[c], w))

\* One client lets the writes of W go, whose fan-outs settle, or loses its connection.
LEMMA ClientStepInv ==
    ASSUME Inv, NEW c \in Pairs, NEW d, NEW W, NEW status,
           MaySettle(c, W, status), Settled(c[1], c[2], W, status), MayBeLate(c, W),
           LetsGo(client[c], d, W), client' = [client EXCEPT ![c] = d],
           UNCHANGED <<issued, applied, restarts>>
    PROVE  Inv'
<1>. USE DEF MaySettle, Settled, MayBeLate
<1>1. TypeOK /\ ClientHoldsPending /\ DOMAIN issued \subseteq Writes
    BY DEF Inv, IssuedAreWrites
<1>2. /\ client'[c] = d
      /\ \A b \in Pairs : b # c => client'[b] = client[b]
      /\ client' = [b \in Pairs |-> client'[b]]
    BY <1>1 DEF TypeOK
<1>3. \A b \in Pairs : Sane(client'[b])
    BY <1>1, <1>2, SaneClients DEF LetsGo
<1>4. \A b \in Pairs : client'[b] \in Client
    BY <1>3 DEF Sane
<1>5. client' \in [Pairs -> Client]
    BY <1>2, <1>4
<1>6. TypeOK'
    BY <1>1, <1>3, <1>5 DEF TypeOK, Sane
<1>7. ASSUME NEW b \in Pairs, NEW w \in Writes, Holds(client'[b], w)
      PROVE  Holds(client[b], w) /\ task'[<<w, b[2]>>] = "pending"
    <2>1. Holds(client[b], w) /\ (b = c => w \notin W)
        BY <1>2, <1>7 DEF LetsGo
    <2>2. issued[w].node = b[1] /\ task[<<w, b[2]>>] = "pending"
        BY <1>1, <2>1 DEF ClientHoldsPending
    <2>3. \A v \in W : issued[v].node = c[1]
        BY <1>1 DEF ClientHoldsPending
    <2>4. ~(w \in W /\ b[2] = c[2])
        <3>1. SUFFICES ASSUME w \in W, b[2] = c[2] PROVE FALSE
            OBVIOUS
        <3>2. b[1] = c[1]
            BY <2>2, <2>3, <3>1
        <3>3. b = c
            <4>1. b = <<b[1], b[2]>> /\ c = <<c[1], c[2]>>
                BY PairFacts
            <4>. QED
                BY <3>1, <3>2, <4>1, Zenon
        <3>. QED
            BY <2>1, <3>1, <3>3
    <2>5. b[2] \in Nodes
        BY PairFacts
    <2>. QED
        BY <2>1, <2>2, <2>4, <2>5
<1>8. ASSUME NEW b \in Pairs
      PROVE  /\ \A w \in Writes : Unsent(client'[b], w) => Unsent(client[b], w)
             /\ client'[b].request = "OK" =>
                  client[b].request = "OK" /\ client'[b].item = client[b].item
    BY <1>2 DEF LetsGo
<1>9. ASSUME NEW b \in Pairs, NEW w \in late'[b], w \notin late[b]
      PROVE  w \in Writes /\ Unsent(client[b], w) /\ task'[<<w, b[2]>>] # "pending"
    <2>1. b = c /\ w \in W /\ Unsent(client[c], w) /\ c[2] \in Nodes
        BY <1>9, PairFacts
    <2>. QED
        BY <2>1
<1>10. ASSUME NEW w \in Writes, NEW p \in Nodes, task'[<<w, p>>] # task[<<w, p>>]
       PROVE  /\ task[<<w, p>>] = "pending" /\ task'[<<w, p>>] \notin {"none", "pending"}
              /\ task'[<<w, p>>] = "succeeded" => w \in Range(applied'[p])
    <2>1. w \in W /\ p = c[2] /\ task'[<<w, p>>] = status
        BY <1>10
    <2>2. task[<<w, p>>] = "pending"
        BY <1>1, <2>1 DEF ClientHoldsPending
    <2>. QED
        BY <2>1, <2>2
<1>11. \A b \in Pairs : ReleasedAt(b)
    <2>. SUFFICES ASSUME NEW b \in Pairs PROVE ReleasedAt(b)
        OBVIOUS
    <2>1. applied'[b[2]] = applied[b[2]]
        OBVIOUS
    <2>. QED
        BY <1>3, <1>7, <1>8, <1>9, <2>1 DEF ReleasedAt
<1>12. Release
    BY <1>10, <1>11 DEF Release
<1>. QED
    BY <1>6, <1>12, ReleaseInv

\* The client neither settles nor loses anything.
LEMMA ClientMoveInv ==
    ASSUME Inv, NEW c \in Pairs, NEW d, LetsGo(client[c], d, {}),
           client' = [client EXCEPT ![c] = d],
           UNCHANGED <<issued, applied, engine, late, task, restarts>>,
           lost' \in [Pairs -> BOOLEAN]
    PROVE  Inv'
<1>1. PendingTracksFanOuts'
    BY DEF Inv, PendingTracksFanOuts, Open
<1>2. Settled(c[1], c[2], {}, "failed")
    BY <1>1 DEF Settled, Inv, TypeOK
<1>3. MaySettle(c, {}, "failed") /\ MayBeLate(c, {})
    BY DEF MaySettle, MayBeLate, Inv, TypeOK
<1>. QED
    BY <1>2, <1>3, ClientStepInv

LEMMA ConnectForWaitingInv ==
    ASSUME Inv, NEW c \in Pairs, ConnectForWaiting(c[1], c[2])
    PROVE  Inv'
<1>. DEFINE d == [client[c] EXCEPT !.connected = TRUE]
<1>1. c = <<c[1], c[2]>> /\ Sane(client[c])
    BY PairFacts, SaneClients DEF Inv
<1>2. /\ ~client[c].connected
      /\ client' = [client EXCEPT ![c] = Flush(d)]
      /\ UNCHANGED <<issued, applied, engine, late, task, lost, restarts>>
    BY <1>1 DEF ConnectForWaiting
<1>3. LetsGo(client[c], d, {}) /\ Sane(d)
    <2>1. client[c].request = "none"
        BY <1>1, <1>2 DEF Sane
    <2>. QED
        BY <1>1, <2>1, ConnectionFacts
<1>4. LetsGo(client[c], Flush(d), {})
    BY <1>3, FlushFacts, LetsGoOn
<1>. QED
    BY <1>2, <1>4, ClientMoveInv DEF Inv, TypeOK

LEMMA ConnectForQueueInv ==
    ASSUME Inv, NEW c \in Pairs, ConnectForQueue(c[1], c[2])
    PROVE  Inv'
<1>. DEFINE d == [client[c] EXCEPT !.connected = TRUE]
<1>1. c = <<c[1], c[2]>> /\ Sane(client[c])
    BY PairFacts, SaneClients DEF Inv
<1>2. /\ ~client[c].connected
      /\ client' = [client EXCEPT ![c] = Pump(d)]
      /\ UNCHANGED <<issued, applied, engine, late, task, lost, restarts>>
    BY <1>1 DEF ConnectForQueue
<1>3. LetsGo(client[c], d, {}) /\ Sane(d)
    <2>1. client[c].request = "none"
        BY <1>1, <1>2 DEF Sane
    <2>. QED
        BY <1>1, <2>1, ConnectionFacts
<1>4. LetsGo(client[c], Pump(d), {})
    BY <1>3, PumpFacts, LetsGoOn
<1>. QED
    BY <1>2, <1>4, ClientMoveInv DEF Inv, TypeOK

LEMMA WaitingResumesInv ==
    ASSUME Inv, NEW c \in Pairs, WaitingResumes(c[1], c[2])
    PROVE  Inv'
<1>1. c = <<c[1], c[2]>> /\ Sane(client[c])
    BY PairFacts, SaneClients DEF Inv
<1>2. /\ client' = [client EXCEPT ![c] = Flush(client[c])]
      /\ UNCHANGED <<issued, applied, engine, late, task, lost, restarts>>
    BY <1>1 DEF WaitingResumes
<1>3. LetsGo(client[c], Flush(client[c]), {})
    BY <1>1, FlushFacts
<1>. QED
    BY <1>2, <1>3, ClientMoveInv DEF Inv, TypeOK

\* The writes the client lets go settle.
LEMMA ClientSettlesInv ==
    ASSUME Inv, NEW c \in Pairs, NEW d, NEW W, NEW status,
           MaySettle(c, W, status), Settle(c[1], c[2], W, status), MayBeLate(c, W),
           LetsGo(client[c], d, W), client' = [client EXCEPT ![c] = d],
           UNCHANGED <<issued, applied, restarts>>
    PROVE  Inv'
<1>1. c[1] \in Nodes /\ c[2] \in Nodes
    BY PairFacts
<1>2. /\ W \in SUBSET Writes /\ status \in {"succeeded", "failed"}
      /\ \A w \in W : w \in Mine(c[1]) /\ task[<<w, c[2]>>] = "pending"
    BY DEF Inv, ClientHoldsPending, Mine, MaySettle
<1>3. Settled(c[1], c[2], W, status)
    BY <1>1, <1>2, SettleFacts
<1>. QED
    BY <1>3, ClientStepInv

\* Without a late line.
LEMMA ClientSettlesCleanlyInv ==
    ASSUME Inv, NEW c \in Pairs, NEW d, NEW W, NEW status,
           MaySettle(c, W, status), Settle(c[1], c[2], W, status),
           LetsGo(client[c], d, W), client' = [client EXCEPT ![c] = d],
           UNCHANGED <<issued, applied, late, lost, restarts>>
    PROVE  Inv'
<1>1. MayBeLate(c, W)
    BY DEF Inv, TypeOK, MayBeLate
<1>. QED
    BY <1>1, ClientSettlesInv

LEMMA WaitingFailsInv ==
    ASSUME Inv, NEW c \in Pairs, WaitingFails(c[1], c[2])
    PROVE  Inv'
<1>. DEFINE d == [client[c] EXCEPT !.waiting = <<>>]
            W == Range(client[c].waiting)
<1>1. /\ c = <<c[1], c[2]>> /\ Sane(client[c]) /\ client[c] \in Client
      /\ client \in [Pairs -> Client]
    BY PairFacts, SaneClients DEF Inv, Sane, TypeOK
<1>2. /\ Settle(c[1], c[2], W, "failed")
      /\ client' = [client EXCEPT ![c].waiting = <<>>]
      /\ UNCHANGED <<issued, applied, late, lost, restarts>>
    BY <1>1 DEF WaitingFails
<1>3. client' = [client EXCEPT ![c] = d]
    BY <1>1, <1>2
<1>4. MaySettle(c, W, "failed")
    BY <1>1, SeqFacts DEF Holds, Client, MaySettle
<1>5. Range(<<>>) = {} /\ IsInjective(<<>>) /\ <<>> \in Seq(Writes)
    BY DEF Range, IsInjective
<1>6. /\ d \in Client /\ d.request = client[c].request /\ d.item = client[c].item
      /\ d.queue = client[c].queue /\ d.connected = client[c].connected /\ d.waiting = <<>>
    BY <1>1, <1>5 DEF Client
<1>. HIDE DEF d
<1>7. LetsGo(client[c], d, W)
    <2>1. Sane(d)
        BY <1>1, <1>5, <1>6 DEF Sane, Distinct
    <2>2. \A w \in Writes : Holds(d, w) <=> Holds(client[c], w) /\ w \notin W
        BY <1>1, <1>5, <1>6 DEF Holds, Sane, Distinct
    <2>. QED
        BY <1>6, <2>1, <2>2 DEF LetsGo, Unsent
<1>. HIDE DEF W
<1>. QED
    BY <1>2, <1>3, <1>4, <1>7, ClientSettlesCleanlyInv

LEMMA ItemFailsInv ==
    ASSUME Inv, NEW c \in Pairs, ItemFails(c[1], c[2])
    PROVE  Inv'
<1>. DEFINE d == [client[c] EXCEPT !.item = None]
<1>1. /\ c = <<c[1], c[2]>> /\ Sane(client[c]) /\ client[c] \in Client
    BY PairFacts, SaneClients DEF Inv, Sane
<1>2. /\ Settle(c[1], c[2], {client[c].item}, "failed")
      /\ ~client[c].connected /\ client[c].item # None
      /\ client' = [client EXCEPT ![c] = Pump(d)]
      /\ UNCHANGED <<issued, applied, late, lost, restarts>>
    BY <1>1 DEF ItemFails
<1>3. MaySettle(c, {client[c].item}, "failed")
    BY <1>1, <1>2 DEF Client, Holds, MaySettle
<1>4. /\ d \in Client /\ d.waiting = client[c].waiting /\ d.queue = client[c].queue
      /\ d.item = None /\ d.request = "none"
    BY <1>1, <1>2 DEF Client, Sane
<1>. HIDE DEF d
<1>5. LetsGo(client[c], Pump(d), {client[c].item})
    BY <1>1, <1>4, DropItemFacts
<1>. QED
    BY <1>2, <1>3, <1>5, ClientSettlesCleanlyInv

LEMMA AnswerInv ==
    ASSUME Inv, NEW c \in Pairs, Answer(c[1], c[2])
    PROVE  Inv'
<1>. DEFINE d == [client[c] EXCEPT !.item = None, !.request = "none"]
            status == AnswerOf(client[c])
<1>1. /\ c = <<c[1], c[2]>> /\ Sane(client[c]) /\ client[c] \in Client
    BY PairFacts, SaneClients DEF Inv, Sane
<1>2. /\ Settle(c[1], c[2], {client[c].item}, status)
      /\ client[c].request \in {"OK", "ERR"}
      /\ client' = [client EXCEPT ![c] = Pump(d)]
      /\ UNCHANGED <<issued, applied, late, lost, restarts>>
    BY <1>1 DEF Answer
<1>3. client[c].item \in Writes /\ Holds(client[c], client[c].item)
    BY <1>1, <1>2 DEF Client, Holds, Sane
<1>4. /\ d \in Client /\ d.waiting = client[c].waiting /\ d.queue = client[c].queue
      /\ d.item = None /\ d.request = "none"
    BY <1>1, <1>2 DEF Client
<1>5. /\ status \in {"succeeded", "failed"}
      /\ status = "succeeded" => {client[c].item} \subseteq Range(applied[c[2]])
    BY DEF AnswerOf, Inv, ClientHoldsPending
<1>. HIDE DEF d, status
<1>6. LetsGo(client[c], Pump(d), {client[c].item})
    BY <1>1, <1>4, DropItemFacts
<1>7. MaySettle(c, {client[c].item}, status)
    BY <1>3, <1>5 DEF MaySettle
<1>. QED
    BY <1>2, <1>6, <1>7, ClientSettlesCleanlyInv

LEMMA LoseConnectionInv ==
    ASSUME Inv, NEW c \in Pairs, LoseConnection(c[1], c[2])
    PROVE  Inv'
<1>. DEFINE d == Disconnect(client[c])
            W == OnTheWire(client[c])
<1>1. /\ c = <<c[1], c[2]>> /\ Sane(client[c]) /\ client[c] \in Client
      /\ late \in [Pairs -> SUBSET Writes] /\ lost \in [Pairs -> BOOLEAN]
    BY PairFacts, SaneClients DEF Inv, Sane, TypeOK
<1>2. PICK rest \in MayLinger(client[c]) : late' = [late EXCEPT ![c] = @ \cup rest]
    BY <1>1 DEF LoseConnection
<1>3. /\ lost' = [lost EXCEPT ![c] = TRUE]
      /\ client' = [client EXCEPT ![c] = d]
      /\ IF client[c].request = "none" THEN UNCHANGED <<engine, task>>
           ELSE Settle(c[1], c[2], {client[c].item}, "failed")
      /\ UNCHANGED <<issued, applied, restarts>>
    BY <1>1 DEF LoseConnection
<1>4. LetsGo(client[c], d, W)
    BY <1>1, DisconnectFacts
<1>5. lost' \in [Pairs -> BOOLEAN]
    BY <1>1, <1>3
<1>6. CASE client[c].request = "none"
    <2>1. rest = {} /\ W = {}
        BY <1>2, <1>6 DEF MayLinger, OnTheWire
    <2>2. UNCHANGED late
        BY <1>1, <1>2, <2>1
    <2>. HIDE DEF d
    <2>. QED
        BY <1>3, <1>4, <1>5, <1>6, <2>1, <2>2, ClientMoveInv
<1>7. CASE client[c].request # "none"
    <2>1. /\ W = {client[c].item} /\ client[c].item \in Writes
          /\ Holds(client[c], client[c].item)
        BY <1>1, <1>7 DEF OnTheWire, Client, Sane, Holds
    <2>2. /\ rest \in SUBSET Writes
          /\ \A w \in rest : w \in W /\ Unsent(client[c], w)
        BY <1>2, <2>1 DEF MayLinger, Unsent
    <2>3. MayBeLate(c, W)
        BY <1>1, <1>2, <1>5, <2>2 DEF MayBeLate
    <2>4. Settle(c[1], c[2], W, "failed") /\ MaySettle(c, W, "failed")
        BY <1>3, <1>7, <2>1 DEF MaySettle
    <2>. HIDE DEF d, W
    <2>. QED
        BY <1>3, <1>4, <2>3, <2>4, ClientSettlesInv
<1>. QED
    BY <1>6, <1>7

-----------------------------------------------------------------------------
(* A peer executes a line                                                  *)

LEMMA ExecuteFacts ==
    ASSUME TypeOK, NEW n \in Nodes, NEW w \in Writes, w \notin Range(applied[n]), NEW history,
           IsInjective(applied[n]),
           applied' = [applied EXCEPT ![n] = Execute(n, w, history)]
    PROVE  /\ applied' \in [Nodes -> Seq(Writes)]
           /\ \A m \in Nodes : m # n => applied'[m] = applied[m]
           /\ Range(applied[n]) \subseteq Range(applied'[n])
           /\ Range(applied'[n]) \subseteq Range(applied[n]) \cup {w}
           /\ history[w].command \notin Refused[n] => w \in Range(applied'[n])
           /\ IsInjective(applied'[n])
<1>1. applied \in [Nodes -> Seq(Writes)] /\ applied[n] \in Seq(Writes)
    BY DEF TypeOK
<1>. DEFINE s == Append(applied[n], w)
<1>2. s \in Seq(Writes) /\ Range(s) = Range(applied[n]) \cup {w} /\ IsInjective(s)
    BY <1>1, AppendFacts
<1>3. applied'[n] = IF history[w].command \in Refused[n] THEN applied[n] ELSE s
    BY <1>1 DEF Execute
<1>. HIDE DEF s
<1>4. applied'[n] \in Seq(Writes)
    BY <1>1, <1>2, <1>3
<1>. QED
    BY <1>1, <1>2, <1>3, <1>4

\* Peer c[2] executes the line of write w that it had from c.
Takes(c, w) ==
    /\ w \in DOMAIN issued /\ w \notin Range(applied[c[2]]) /\ issued[w].node = c[1]
    /\ task[<<w, c[2]>>] # "none"
    /\ applied' = [applied EXCEPT ![c[2]] = Execute(c[2], w, issued)]
    /\ UNCHANGED <<issued, engine, task, restarts>>
    /\ \A b \in Pairs :
         /\ Distinct(client'[b])
         /\ \A v \in Writes : Holds(client'[b], v) <=> Holds(client[b], v)
         /\ \A v \in Writes : Unsent(client'[b], v) =>
              Unsent(client[b], v) /\ ~(b = c /\ v = w)
         /\ client'[b].request = "OK" =>
              \/ client[b].request = "OK" /\ client'[b].item = client[b].item
              \/ client'[b].item \in Range(applied'[b[2]])
         /\ late'[b] \subseteq late[b]
    /\ w \notin late'[c]

LEMMA TakeInv ==
    ASSUME Inv, TypeOK', NEW c \in Pairs, NEW w, Takes(c, w)
    PROVE  Inv'
<1>. USE DEF Takes
<1>1. /\ TypeOK /\ IssuedAreWrites' /\ DOMAIN issued \subseteq Writes
      /\ c[2] \in Nodes /\ w \in Writes /\ IsInjective(applied[c[2]])
    BY PairFacts DEF Inv, IssuedAreWrites, TakenAtMostOnce, IsInjective
<1>2. /\ \A m \in Nodes : m # c[2] => applied'[m] = applied[m]
      /\ Range(applied[c[2]]) \subseteq Range(applied'[c[2]])
      /\ Range(applied'[c[2]]) \subseteq Range(applied[c[2]]) \cup {w}
      /\ IsInjective(applied'[c[2]])
    BY <1>1, ExecuteFacts
<1>3. \A n \in Nodes : Range(applied[n]) \subseteq Range(applied'[n])
    BY <1>2
<1>4. TasksArePrimarys'
    BY DEF Inv, TasksArePrimarys, Peers, Primary
\* No other client has a line of w for that peer.
<1>5. ASSUME NEW b \in Pairs, b # c, b[2] = c[2]
      PROVE  issued[w].node # b[1]
    <2>1. b = <<b[1], b[2]>> /\ c = <<c[1], c[2]>>
        BY PairFacts
    <2>. QED
        BY <1>5, <2>1
<1>6. ClientHoldsPending'
    <2>. SUFFICES ASSUME NEW b \in Pairs
                  PROVE  /\ \A v \in Writes : Holds(client'[b], v) =>
                              v \in DOMAIN issued /\ issued[v].node = b[1]
                                /\ task[<<v, b[2]>>] = "pending"
                         /\ \A v \in Writes : Unsent(client'[b], v) =>
                              v \notin Range(applied'[b[2]])
                         /\ client'[b].request = "OK" =>
                              client'[b].item \in Range(applied'[b[2]])
        BY DEF ClientHoldsPending
    <2>1. ClientHoldsPending /\ b[2] \in Nodes
        BY PairFacts DEF Inv
    <2>2. \A v \in Writes : Holds(client'[b], v) =>
            v \in DOMAIN issued /\ issued[v].node = b[1] /\ task[<<v, b[2]>>] = "pending"
        BY <2>1 DEF ClientHoldsPending
    <2>3. ASSUME NEW v \in Writes, Unsent(client'[b], v)
          PROVE  v \notin Range(applied'[b[2]])
        <3>1. Unsent(client[b], v) /\ ~(b = c /\ v = w) /\ Holds(client[b], v)
            BY <2>3 DEF Unsent
        <3>2. v \notin Range(applied[b[2]]) /\ issued[v].node = b[1]
            BY <2>1, <3>1 DEF ClientHoldsPending
        <3>. QED
            BY <1>2, <1>5, <2>1, <3>1, <3>2
    <2>4. client'[b].request = "OK" => client'[b].item \in Range(applied'[b[2]])
        BY <1>3, <2>1 DEF ClientHoldsPending
    <2>. QED
        BY <2>2, <2>3, <2>4
<1>7. LateLinesAreGivenUp'
    <2>. SUFFICES ASSUME NEW b \in Pairs, NEW v \in late'[b]
                  PROVE  /\ v \in DOMAIN issued /\ issued[v].node = b[1]
                         /\ task[<<v, b[2]>>] \notin {"none", "pending"}
                         /\ v \notin Range(applied'[b[2]])
        BY DEF LateLinesAreGivenUp
    <2>1. /\ v \in late[b] /\ b[2] \in Nodes
        BY PairFacts
    <2>2. /\ v \in DOMAIN issued /\ issued[v].node = b[1]
          /\ task[<<v, b[2]>>] \notin {"none", "pending"}
          /\ v \notin Range(applied[b[2]])
        BY <2>1 DEF Inv, LateLinesAreGivenUp
    <2>3. v \notin Range(applied'[b[2]])
        BY <1>2, <1>5, <2>1, <2>2
    <2>. QED
        BY <2>2, <2>3
<1>8. TakenWereIssued'
    <2>. SUFFICES ASSUME NEW n \in Nodes, NEW v \in Range(applied'[n])
                  PROVE  v \in DOMAIN issued /\ (issued[v].node = n \/ task[<<v, n>>] # "none")
        BY DEF TakenWereIssued
    <2>1. CASE v \in Range(applied[n])
        BY <2>1 DEF Inv, TakenWereIssued
    <2>2. CASE v \notin Range(applied[n])
        <3>1. v = w /\ n = c[2]
            BY <1>2, <2>2
        <3>. QED
            BY <3>1
    <2>. QED
        BY <2>1, <2>2
<1>9. TakenAtMostOnce'
    BY <1>2 DEF Inv, TakenAtMostOnce, IsInjective
<1>10. SucceededIsTaken'
    BY <1>3 DEF Inv, SucceededIsTaken
<1>11. PendingTracksFanOuts'
    BY DEF Inv, PendingTracksFanOuts, Open
<1>. QED
    BY <1>1, <1>4, <1>6, <1>7, <1>8, <1>9, <1>10, <1>11 DEF Inv

LEMMA PeerExecutesInv ==
    ASSUME Inv, NEW c \in Pairs, PeerExecutes(c[1], c[2])
    PROVE  Inv'
<1>. DEFINE w == client[c].item
            answer == IF issued[w].command \in Refused[c[2]] THEN "ERR" ELSE "OK"
            d == [client[c] EXCEPT !.request = answer]
<1>1. /\ TypeOK /\ ClientHoldsPending /\ DOMAIN issued \subseteq Writes
      /\ c = <<c[1], c[2]>> /\ c[2] \in Nodes /\ Sane(client[c]) /\ client[c] \in Client
      /\ client \in [Pairs -> Client]
      /\ IsInjective(applied[c[2]])
    BY PairFacts, SaneClients DEF Inv, Sane, TypeOK, IssuedAreWrites, TakenAtMostOnce, IsInjective
<1>2. /\ client[c].request = "sent"
      /\ applied' = [applied EXCEPT ![c[2]] = Execute(c[2], w, issued)]
      /\ client' = [client EXCEPT ![c].request = answer]
      /\ UNCHANGED <<issued, engine, late, task, lost, restarts>>
    BY <1>1 DEF PeerExecutes
<1>3. w \in Writes /\ Holds(client[c], w) /\ Unsent(client[c], w)
    BY <1>1, <1>2 DEF Client, Holds, Unsent, Sane
<1>4. /\ w \in DOMAIN issued /\ issued[w].node = c[1] /\ task[<<w, c[2]>>] = "pending"
      /\ w \notin Range(applied[c[2]])
    BY <1>1, <1>3 DEF ClientHoldsPending
<1>5. /\ applied' \in [Nodes -> Seq(Writes)]
      /\ issued[w].command \notin Refused[c[2]] => w \in Range(applied'[c[2]])
      /\ Range(applied[c[2]]) \subseteq Range(applied'[c[2]])
    BY <1>1, <1>2, <1>3, <1>4, ExecuteFacts
<1>6. /\ client' = [client EXCEPT ![c] = d] /\ client'[c] = d
      /\ \A b \in Pairs : b # c => client'[b] = client[b]
    BY <1>1, <1>2
<1>7. answer \in {"OK", "ERR"} /\ (answer = "OK" => w \in Range(applied'[c[2]]))
    BY <1>5
<1>. HIDE DEF answer
<1>8. /\ d \in Client /\ d.waiting = client[c].waiting /\ d.queue = client[c].queue
      /\ d.item = w /\ d.request = answer /\ d.connected = client[c].connected
    BY <1>1, <1>7 DEF Client
<1>. HIDE DEF d
<1>9. Sane(d)
    BY <1>1, <1>2, <1>8 DEF Sane, Distinct
<1>10. TypeOK'
    <2>1. client' \in [Pairs -> Client]
        BY <1>1, <1>6, <1>8
    <2>2. \A b \in Pairs :
            client'[b].request # "none" => client'[b].connected /\ client'[b].item # None
        BY <1>1, <1>6, <1>9 DEF Sane, TypeOK
    <2>. QED
        BY <1>1, <1>2, <1>5, <2>1, <2>2 DEF TypeOK
<1>11. w \notin late[c]
    BY <1>4 DEF Inv, LateLinesAreGivenUp
<1>12. ASSUME NEW b \in Pairs
       PROVE  /\ Distinct(client'[b])
              /\ \A v \in Writes : Holds(client'[b], v) <=> Holds(client[b], v)
              /\ \A v \in Writes : Unsent(client'[b], v) =>
                   Unsent(client[b], v) /\ ~(b = c /\ v = w)
              /\ client'[b].request = "OK" =>
                   \/ client[b].request = "OK" /\ client'[b].item = client[b].item
                   \/ client'[b].item \in Range(applied'[b[2]])
    <2>1. CASE b = c
        <3>1. Distinct(d)
            BY <1>9 DEF Sane
        <3>2. \A v \in Writes : Holds(d, v) <=> Holds(client[c], v)
            BY <1>8 DEF Holds
        <3>3. \A v \in Writes : Unsent(d, v) => Unsent(client[c], v) /\ v # w
            BY <1>2, <1>7, <1>8, <3>2 DEF Unsent
        <3>. QED
            BY <1>6, <1>7, <1>8, <2>1, <3>1, <3>2, <3>3
    <2>2. CASE b # c
        BY <1>1, <1>6, <2>2 DEF ClientHoldsPending
    <2>. QED
        BY <2>1, <2>2
<1>. HIDE DEF w
<1>13. Takes(c, w)
    BY <1>2, <1>4, <1>11, <1>12 DEF Takes
<1>. QED
    BY <1>10, <1>13, TakeInv

LEMMA LateArrivalInv ==
    ASSUME Inv, NEW c \in Pairs, NEW w \in Writes, LateArrival(c[1], c[2], w)
    PROVE  Inv'
<1>1. /\ TypeOK /\ ClientHoldsPending
      /\ c = <<c[1], c[2]>> /\ c[2] \in Nodes
      /\ late \in [Pairs -> SUBSET Writes]
      /\ IsInjective(applied[c[2]])
    BY PairFacts DEF Inv, TypeOK, TakenAtMostOnce, IsInjective
<1>2. /\ w \in late[c]
      /\ late' = [late EXCEPT ![c] = @ \ {w}]
      /\ applied' = [applied EXCEPT ![c[2]] = Execute(c[2], w, issued)]
      /\ UNCHANGED <<issued, engine, client, task, lost, restarts>>
    BY <1>1 DEF LateArrival
<1>3. /\ w \in DOMAIN issued /\ issued[w].node = c[1]
      /\ task[<<w, c[2]>>] \notin {"none", "pending"} /\ w \notin Range(applied[c[2]])
    BY <1>2 DEF Inv, LateLinesAreGivenUp
<1>4. applied' \in [Nodes -> Seq(Writes)]
    BY <1>1, <1>2, <1>3, ExecuteFacts
<1>5. late' \in [Pairs -> SUBSET Writes] /\ w \notin late'[c]
      /\ \A b \in Pairs : late'[b] \subseteq late[b]
    BY <1>1, <1>2
<1>6. TypeOK'
    BY <1>1, <1>2, <1>4, <1>5 DEF TypeOK
<1>7. ~Unsent(client[c], w)
    BY <1>1, <1>3 DEF ClientHoldsPending, Unsent
<1>8. \A b \in Pairs : Distinct(client[b])
    BY <1>1 DEF ClientHoldsPending
<1>9. Takes(c, w)
    BY <1>2, <1>3, <1>5, <1>7, <1>8 DEF Takes
<1>. QED
    BY <1>6, <1>9, TakeInv

-----------------------------------------------------------------------------
(* A user's write                                                          *)

\* Write w is user n's next, of key k, and its replication begins or not.
Issues(n, k, w) ==
    /\ n \in Nodes /\ k \in Keys /\ w \in Writes
    /\ w \notin DOMAIN issued /\ DOMAIN issued' = DOMAIN issued \cup {w}
    /\ \A v \in DOMAIN issued : issued'[v] = issued[v]
    /\ issued'[w].node = n /\ issued'[w].key = k
    /\ applied' = [applied EXCEPT ![n] = Execute(n, w, issued')]
    /\ UNCHANGED <<late, restarts>>
    /\ \A v \in Writes \ {w}, p \in Nodes : task'[<<v, p>>] = task[<<v, p>>]
    /\ \A p \in Nodes :
         /\ task'[<<w, p>>] # "none" => n = Primary(k) /\ p \in Peers(k, n)
         /\ task'[<<w, p>>] # "succeeded"

\* The clients of n queue it for the peers that are to get it.
Queues(n, w) ==
    \A c \in Pairs :
        /\ Distinct(client'[c])
        /\ \A v \in Writes : Holds(client'[c], v) =>
             Holds(client[c], v) \/ (v = w /\ c[1] = n /\ task'[<<w, c[2]>>] = "pending")
        /\ \A v \in Writes : Unsent(client'[c], v) => Unsent(client[c], v) \/ v = w
        /\ client'[c].request = "OK" =>
             client[c].request = "OK" /\ client'[c].item = client[c].item

\* Nobody has heard of a write that was not issued.
LEMMA UnissuedFacts ==
    ASSUME Inv, NEW w \in Writes, w \notin DOMAIN issued
    PROVE  /\ \A p \in Nodes : task[<<w, p>>] = "none"
           /\ \A n \in Nodes : w \notin Range(applied[n])
           /\ \A c \in Pairs : ~Holds(client[c], w) /\ w \notin late[c]
BY DEF Inv, TasksArePrimarys, TakenWereIssued, ClientHoldsPending, LateLinesAreGivenUp

LEMMA IssueInv ==
    ASSUME Inv, TypeOK', NEW n, NEW k, NEW w, Issues(n, k, w), Queues(n, w),
           PendingTracksFanOuts'
    PROVE  Inv'
<1>. USE DEF Issues, Queues
<1>1. /\ TypeOK /\ IssuedAreWrites /\ ClientHoldsPending /\ IsInjective(applied[n])
    BY DEF Inv, TakenAtMostOnce, IsInjective
<1>2. /\ \A p \in Nodes : task[<<w, p>>] = "none"
      /\ \A m \in Nodes : w \notin Range(applied[m])
      /\ \A c \in Pairs : ~Holds(client[c], w) /\ w \notin late[c]
    BY UnissuedFacts
<1>3. /\ \A m \in Nodes : m # n => applied'[m] = applied[m]
      /\ Range(applied[n]) \subseteq Range(applied'[n])
      /\ Range(applied'[n]) \subseteq Range(applied[n]) \cup {w}
      /\ IsInjective(applied'[n])
    BY <1>1, <1>2, ExecuteFacts
<1>4. IssuedAreWrites' /\ \A v \in DOMAIN issued : v # w /\ v \in Writes
    BY <1>1 DEF IssuedAreWrites
<1>5. TasksArePrimarys'
    <2>. SUFFICES ASSUME NEW v \in Writes, NEW p \in Nodes, task'[<<v, p>>] # "none"
                  PROVE  /\ v \in DOMAIN issued'
                         /\ issued'[v].node = Primary(issued'[v].key)
                         /\ p \in Peers(issued'[v].key, issued'[v].node)
        BY DEF TasksArePrimarys, Primary, Peers
    <2>1. CASE v = w
        BY <2>1
    <2>2. CASE v # w
        BY <2>2 DEF Inv, TasksArePrimarys
    <2>. QED
        BY <2>1, <2>2
<1>6. ClientHoldsPending'
    <2>. SUFFICES ASSUME NEW c \in Pairs
                  PROVE  /\ Distinct(client'[c])
                         /\ \A v \in Writes : Holds(client'[c], v) =>
                              v \in DOMAIN issued' /\ issued'[v].node = c[1]
                                /\ task'[<<v, c[2]>>] = "pending"
                         /\ \A v \in Writes : Unsent(client'[c], v) =>
                              v \notin Range(applied'[c[2]])
                         /\ client'[c].request = "OK" =>
                              client'[c].item \in Range(applied'[c[2]])
        BY DEF ClientHoldsPending
    <2>1. c[1] # c[2] /\ c[2] \in Nodes
        BY PairFacts
    <2>2. ASSUME NEW v \in Writes, Holds(client'[c], v)
          PROVE  v \in DOMAIN issued' /\ issued'[v].node = c[1] /\ task'[<<v, c[2]>>] = "pending"
        <3>1. CASE v = w
            <4>1. c[1] = n /\ task'[<<w, c[2]>>] = "pending"
                BY <1>2, <2>2, <3>1
            <4>. QED
                BY <3>1, <4>1
        <3>2. CASE v # w
            <4>1. Holds(client[c], v)
                BY <2>2, <3>2
            <4>2. v \in DOMAIN issued /\ issued[v].node = c[1] /\ task[<<v, c[2]>>] = "pending"
                BY <1>1, <4>1 DEF ClientHoldsPending
            <4>. QED
                BY <2>1, <3>2, <4>2
        <3>. QED
            BY <3>1, <3>2
    <2>3. ASSUME NEW v \in Writes, Unsent(client'[c], v)
          PROVE  v \notin Range(applied'[c[2]])
        <3>1. CASE v = w
            <4>1. c[1] = n
                BY <1>2, <2>3, <3>1 DEF Unsent
            <4>. QED
                BY <1>2, <1>3, <2>1, <3>1, <4>1
        <3>2. CASE v # w
            <4>1. v \notin Range(applied[c[2]])
                BY <1>1, <2>3, <3>2 DEF ClientHoldsPending
            <4>. QED
                BY <1>3, <2>1, <3>2, <4>1
        <3>. QED
            BY <3>1, <3>2
    <2>4. client'[c].request = "OK" => client'[c].item \in Range(applied'[c[2]])
        BY <1>1, <1>3, <2>1 DEF ClientHoldsPending
    <2>. QED
        BY <2>2, <2>3, <2>4
<1>7. LateLinesAreGivenUp'
    <2>. SUFFICES ASSUME NEW c \in Pairs, NEW v \in late[c]
                  PROVE  /\ v \in DOMAIN issued' /\ issued'[v].node = c[1]
                         /\ task'[<<v, c[2]>>] \notin {"none", "pending"}
                         /\ v \notin Range(applied'[c[2]])
        BY DEF LateLinesAreGivenUp
    <2>1. /\ v \in DOMAIN issued /\ issued[v].node = c[1]
          /\ task[<<v, c[2]>>] \notin {"none", "pending"}
          /\ v \notin Range(applied[c[2]])
        BY DEF Inv, LateLinesAreGivenUp
    <2>2. v # w /\ v \in Writes /\ c[2] \in Nodes
        BY <1>4, <2>1, PairFacts
    <2>3. v \notin Range(applied'[c[2]]) /\ task'[<<v, c[2]>>] = task[<<v, c[2]>>]
        BY <1>3, <2>1, <2>2
    <2>. QED
        BY <2>1, <2>2, <2>3
<1>8. TakenWereIssued'
    <2>. SUFFICES ASSUME NEW m \in Nodes, NEW v \in Range(applied'[m])
                  PROVE  v \in DOMAIN issued' /\ (issued'[v].node = m \/ task'[<<v, m>>] # "none")
        BY DEF TakenWereIssued
    <2>1. CASE v = w
        BY <1>2, <1>3, <2>1
    <2>2. CASE v # w
        <3>1. v \in Range(applied[m])
            BY <1>3, <2>2
        <3>2. v \in DOMAIN issued /\ (issued[v].node = m \/ task[<<v, m>>] # "none")
            BY <3>1 DEF Inv, TakenWereIssued
        <3>. QED
            BY <1>4, <3>2
    <2>. QED
        BY <2>1, <2>2
<1>9. TakenAtMostOnce'
    BY <1>3 DEF Inv, TakenAtMostOnce, IsInjective
<1>10. SucceededIsTaken'
    <2>. SUFFICES ASSUME NEW v \in DOMAIN issued', NEW p \in Nodes,
                         task'[<<v, p>>] = "succeeded", restarts[p] = 0
                  PROVE  v \in Range(applied'[p])
        BY DEF SucceededIsTaken
    <2>1. v \in DOMAIN issued /\ task[<<v, p>>] = "succeeded"
        BY <1>4
    <2>. QED
        BY <1>3, <2>1 DEF Inv, SucceededIsTaken
<1>. QED
    BY <1>4, <1>5, <1>6, <1>7, <1>8, <1>9, <1>10 DEF Inv

\* A user's write that starts no fan-out leaves the counters balanced.
LEMMA NotFannedOut ==
    ASSUME Inv, NEW n, NEW k, NEW w, Issues(n, k, w),
           \A p \in Nodes : task'[<<w, p>>] # "pending",
           \A m \in Nodes : /\ engine'[m].pending = engine[m].pending
                           /\ engine'[m].attempted = engine[m].attempted
                           /\ engine'[m].succeeded = engine[m].succeeded
                           /\ engine'[m].failed = engine[m].failed
    PROVE  PendingTracksFanOuts'
<1>. USE DEF Issues
<1>1. /\ \A m \in Nodes : Balanced(m)
      /\ DOMAIN issued \subseteq Writes
    BY AllBalanced DEF Inv, IssuedAreWrites
<1>2. ASSUME NEW m \in Nodes PROVE Balanced(m)'
    <2>0. \A v \in DOMAIN issued, p \in Nodes : task'[<<v, p>>] = task[<<v, p>>]
        BY <1>1
    <2>1. \A v \in DOMAIN issued : Open(v, task') <=> Open(v, task)
        BY <2>0 DEF Open
    <2>2. ~Open(w, task')
        BY DEF Open
    <2>3. OpenOf(m, task)' = OpenOf(m, task)
        BY <2>1, <2>2 DEF OpenOf, Mine
    <2>4. \A p \in Nodes : PendingAt(m, p, task)' = PendingAt(m, p, task)
        BY <2>0 DEF PendingAt, Mine
    <2>. QED
        BY <1>1, <2>3, <2>4 DEF Balanced
<1>. QED
    BY <1>2, AllBalancedNext

\* One that starts a fan-out adds one to #pending, and one attempt for each peer.
LEMMA FannedOut ==
    ASSUME Inv, NEW n, NEW k, NEW w, Issues(n, k, w), Peers(k, n) # {}, ~AtLimit(n),
           \A p \in Nodes : task'[<<w, p>>] = "pending" <=> p \in Peers(k, n),
           engine'[n].pending = engine[n].pending + 1,
           \A p \in Nodes : engine'[n].attempted[p] =
             IF p \in Peers(k, n) THEN engine[n].attempted[p] + 1 ELSE engine[n].attempted[p],
           engine'[n].succeeded = engine[n].succeeded, engine'[n].failed = engine[n].failed,
           \A m \in Nodes : m # n => engine'[m] = engine[m]
    PROVE  PendingTracksFanOuts'
<1>. USE DEF Issues
<1>1. /\ \A m \in Nodes : Balanced(m)
      /\ TypeOK /\ IssuedAreWrites /\ DOMAIN issued \subseteq Writes
      /\ engine[n] \in Engine
    BY AllBalanced DEF Inv, IssuedAreWrites, TypeOK
<1>2. \A v \in DOMAIN issued, p \in Nodes : task'[<<v, p>>] = task[<<v, p>>]
    BY <1>1
<1>3. \A v \in DOMAIN issued : Open(v, task') <=> Open(v, task)
    BY <1>2 DEF Open
<1>4. Open(w, task')
    BY PrimaryFacts DEF Open
<1>5. ASSUME NEW m \in Nodes, m # n PROVE Balanced(m)'
    <2>1. Mine(m)' = Mine(m)
        BY <1>5 DEF Mine
    <2>2. \A v \in Mine(m), p \in Nodes :
            task'[<<v, p>>] = "pending" <=> task[<<v, p>>] = "pending"
        BY <1>2 DEF Mine
    <2>. QED
        BY <1>1, <1>5, <2>1, <2>2, StaysBalanced
<1>6. /\ engine'[n].pending = Cardinality(OpenOf(n, task)')
      /\ engine'[n].pending <= MaxPending
    <2>1. OpenOf(n, task)' = OpenOf(n, task) \cup {w} /\ w \notin OpenOf(n, task)
        BY <1>3, <1>4 DEF OpenOf, Mine
    <2>2. OpenOf(n, task) \in SUBSET Mine(n)
        BY DEF OpenOf
    <2>3. IsFiniteSet(OpenOf(n, task)) /\ Cardinality(OpenOf(n, task)) \in Nat
        BY <1>1, <2>2, MineFacts
    <2>4. Cardinality(OpenOf(n, task) \cup {w}) = Cardinality(OpenOf(n, task)) + 1
        BY <2>1, <2>3, FS_AddElement
    <2>5. engine[n].pending = Cardinality(OpenOf(n, task))
        BY <1>1 DEF Balanced
    <2>6. engine[n].pending + 1 <= MaxPending
        BY <2>3, <2>5, BoundsAssumption DEF AtLimit
    <2>. QED
        BY <2>1, <2>4, <2>5, <2>6
<1>7. ASSUME NEW p \in Nodes
      PROVE  engine'[n].attempted[p] = engine'[n].succeeded[p] + engine'[n].failed[p]
               + Cardinality(PendingAt(n, p, task)')
    <2>. DEFINE C == PendingAt(n, p, task)
    <2>1. C \in SUBSET Mine(n)
        BY DEF PendingAt
    <2>2. IsFiniteSet(C) /\ Cardinality(C) \in Nat
        BY <1>1, <2>1, MineFacts
    <2>3. /\ engine[n].attempted[p] = engine[n].succeeded[p] + engine[n].failed[p] + Cardinality(C)
          /\ engine[n].attempted[p] \in Nat /\ engine[n].succeeded[p] \in Nat
          /\ engine[n].failed[p] \in Nat
        BY <1>1 DEF Balanced, Engine
    <2>4. CASE p \in Peers(k, n)
        <3>1. PendingAt(n, p, task)' = C \cup {w} /\ w \notin C
            BY <1>2, <2>4 DEF PendingAt, Mine
        <3>. HIDE DEF C
        <3>2. Cardinality(C \cup {w}) = Cardinality(C) + 1
            BY <2>2, <3>1, FS_AddElement
        <3>. QED
            BY <2>2, <2>3, <2>4, <3>1, <3>2
    <2>5. CASE p \notin Peers(k, n)
        <3>1. PendingAt(n, p, task)' = C
            BY <1>2, <2>5 DEF PendingAt, Mine
        <3>. HIDE DEF C
        <3>. QED
            BY <2>3, <2>5, <3>1
    <2>. QED
        BY <2>4, <2>5
<1>8. Balanced(n)'
    BY <1>6, <1>7 DEF Balanced
<1>. QED
    BY <1>5, <1>8, AllBalancedNext

LEMMA CountsDropped ==
    ASSUME NEW e \in Engine
    PROVE  LET d == [e EXCEPT !.dropped = @ + 1]
           IN  /\ d \in Engine /\ d.pending = e.pending /\ d.attempted = e.attempted
               /\ d.succeeded = e.succeeded /\ d.failed = e.failed
BY DEF Engine

LEMMA CountsAttempts ==
    ASSUME NEW e \in Engine, NEW A \in [Nodes -> Nat]
    PROVE  LET d == [e EXCEPT !.pending = @ + 1, !.attempted = A]
           IN  /\ d \in Engine /\ d.pending = e.pending + 1 /\ d.attempted = A
               /\ d.succeeded = e.succeeded /\ d.failed = e.failed
<1>. DEFINE d == [e EXCEPT !.pending = @ + 1, !.attempted = A]
<1>1. /\ d.pending = e.pending + 1 /\ d.attempted = A /\ e.pending + 1 \in Nat
      /\ d.succeeded = e.succeeded /\ d.failed = e.failed
    BY DEF Engine
<1>2. d \in Engine
    BY <1>1 DEF Engine
<1>. QED
    BY <1>1, <1>2

LEMMA UserWriteInv ==
    ASSUME Inv, NEW n \in Nodes, NEW k \in Keys, NEW command \in Commands,
           UserWrite(n, k, command)
    PROVE  Inv'
<1>. DEFINE w == Len(issued) + 1
            r == [node |-> n, key |-> k, command |-> command]
            T == [node : Nodes, key : Keys, command : Commands]
<1>1. /\ w \in Writes /\ issued' = Append(issued, r)
      /\ applied' = [applied EXCEPT ![n] = Execute(n, w, issued')]
      /\ \/ Primary(k) = n /\ Schedule(n, k, w)
         \/ UNCHANGED <<engine, client, task>>
      /\ UNCHANGED <<late, lost, restarts>>
    BY DEF UserWrite
<1>2. /\ TypeOK /\ IssuedAreWrites /\ ClientHoldsPending /\ IsInjective(applied[n])
      /\ engine \in [Nodes -> Engine] /\ client \in [Pairs -> Client]
      /\ task \in [Writes \X Nodes -> Statuses] /\ engine[n] \in Engine
      /\ \A c \in Pairs : Sane(client[c])
    BY SaneClients DEF Inv, TakenAtMostOnce, IsInjective, TypeOK
<1>3. /\ issued' \in Seq(T) /\ DOMAIN issued' = DOMAIN issued \cup {w} /\ w \notin DOMAIN issued
      /\ \A v \in DOMAIN issued : issued'[v] = issued[v]
      /\ issued'[w] = r
    <2>1. issued \in Seq(T) /\ r \in T
        BY <1>2 DEF TypeOK
    <2>. HIDE DEF T, r
    <2>2. /\ DOMAIN issued = 1..Len(issued) /\ Len(issued) \in Nat
          /\ issued' \in Seq(T) /\ Len(issued') = Len(issued) + 1
          /\ DOMAIN issued' = 1..Len(issued) + 1
          /\ \A v \in 1..Len(issued) : issued'[v] = issued[v]
          /\ issued'[Len(issued) + 1] = r
        BY <1>1, <2>1, AppendProperties
    <2>. QED
        BY <2>2
<1>. HIDE DEF w
<1>4. /\ \A p \in Nodes : task[<<w, p>>] = "none"
      /\ \A c \in Pairs : ~Holds(client[c], w)
      /\ w \notin Range(applied[n])
    BY <1>1, <1>3, UnissuedFacts
<1>5. applied' \in [Nodes -> Seq(Writes)]
    BY <1>1, <1>2, <1>4, ExecuteFacts
<1>6. /\ Primary(k) \in Nodes /\ Peers(k, n) \subseteq Nodes \ {n}
      /\ Primary(k) = n => \A p \in Peers(k, n) : <<n, p>> \in Pairs
    BY PrimaryFacts
<1>7. \A c \in Pairs : c = <<c[1], c[2]>> /\ c[2] \in Nodes
    BY PairFacts
<1>8. ASSUME UNCHANGED <<engine, client, task>> PROVE Inv'
    <2>1. TypeOK'
        BY <1>1, <1>2, <1>3, <1>5, <1>8 DEF TypeOK
    <2>2. Issues(n, k, w)
        BY <1>1, <1>3, <1>4, <1>8 DEF Issues
    <2>3. Queues(n, w)
        BY <1>2, <1>8 DEF Queues, Sane
    <2>4. PendingTracksFanOuts'
        BY <1>4, <1>8, <2>2, NotFannedOut
    <2>. QED
        BY <2>1, <2>2, <2>3, <2>4, IssueInv
<1>9. ASSUME Primary(k) = n,
             engine' = [engine EXCEPT ![n].dropped = @ + 1],
             task' = Fate(k, n, w, "dropped"), UNCHANGED client
      PROVE  Inv'
    <2>1. /\ engine' \in [Nodes -> Engine]
          /\ \A m \in Nodes : /\ engine'[m].pending = engine[m].pending
                              /\ engine'[m].attempted = engine[m].attempted
                              /\ engine'[m].succeeded = engine[m].succeeded
                              /\ engine'[m].failed = engine[m].failed
        <3>. DEFINE e == [engine[n] EXCEPT !.dropped = @ + 1]
        <3>1. /\ e \in Engine /\ e.pending = engine[n].pending
              /\ e.attempted = engine[n].attempted
              /\ e.succeeded = engine[n].succeeded /\ e.failed = engine[n].failed
            BY <1>2, CountsDropped
        <3>2. engine' = [engine EXCEPT ![n] = e]
            BY <1>2, <1>9
        <3>. HIDE DEF e
        <3>. QED
            BY <1>2, <3>1, <3>2
    <2>2. /\ task' \in [Writes \X Nodes -> Statuses]
          /\ \A v \in Writes \ {w}, p \in Nodes : task'[<<v, p>>] = task[<<v, p>>]
          /\ \A p \in Nodes : task'[<<w, p>>] = IF p \in Peers(k, n) THEN "dropped" ELSE "none"
        BY <1>1, <1>2, <1>4, <1>9 DEF Fate, Statuses
    <2>3. TypeOK'
        BY <1>1, <1>2, <1>3, <1>5, <1>9, <2>1, <2>2 DEF TypeOK
    <2>4. Issues(n, k, w)
        BY <1>1, <1>3, <1>9, <2>2 DEF Issues
    <2>5. Queues(n, w)
        BY <1>2, <1>9 DEF Queues, Sane
    <2>6. PendingTracksFanOuts'
        BY <2>1, <2>2, <2>4, NotFannedOut
    <2>. QED
        BY <2>3, <2>4, <2>5, <2>6, IssueInv
<1>10. ASSUME Primary(k) = n, ~AtLimit(n), Peers(k, n) # {},
              engine' = [engine EXCEPT
                ![n].pending = @ + 1,
                ![n].attempted = [p \in Nodes |-> IF p \in Peers(k, n) THEN @[p] + 1 ELSE @[p]]],
              task' = Fate(k, n, w, "pending"),
              client' = [c \in Pairs |->
                IF c[1] = n /\ c[2] \in Peers(k, n) THEN Enqueue(client[c], w) ELSE client[c]]
       PROVE  Inv'
    <2>1. /\ engine' \in [Nodes -> Engine]
          /\ engine'[n].pending = engine[n].pending + 1
          /\ \A p \in Nodes : engine'[n].attempted[p] =
               IF p \in Peers(k, n) THEN engine[n].attempted[p] + 1 ELSE engine[n].attempted[p]
          /\ engine'[n].succeeded = engine[n].succeeded /\ engine'[n].failed = engine[n].failed
          /\ \A m \in Nodes : m # n => engine'[m] = engine[m]
        <3>. DEFINE A == [p \in Nodes |-> IF p \in Peers(k, n) THEN engine[n].attempted[p] + 1
                                                                ELSE engine[n].attempted[p]]
        <3>1. A \in [Nodes -> Nat]
            BY <1>2 DEF Engine
        <3>2. engine' = [engine EXCEPT ![n].pending = @ + 1, ![n].attempted = A]
            BY <1>10
        <3>3. \A p \in Nodes : A[p] = IF p \in Peers(k, n) THEN engine[n].attempted[p] + 1
                                                          ELSE engine[n].attempted[p]
            OBVIOUS
        <3>. HIDE DEF A
        <3>. DEFINE e == [engine[n] EXCEPT !.pending = @ + 1, !.attempted = A]
        <3>5. /\ e \in Engine /\ e.pending = engine[n].pending + 1 /\ e.attempted = A
              /\ e.succeeded = engine[n].succeeded /\ e.failed = engine[n].failed
            BY <1>2, <3>1, CountsAttempts
        <3>6. engine' = [engine EXCEPT ![n] = e]
            BY <1>2, <3>2
        <3>. HIDE DEF e
        <3>4. /\ engine'[n].pending = engine[n].pending + 1
              /\ engine'[n].attempted = A
              /\ engine'[n].succeeded = engine[n].succeeded /\ engine'[n].failed = engine[n].failed
              /\ \A m \in Nodes : m # n => engine'[m] = engine[m]
              /\ engine' \in [Nodes -> Engine]
            BY <1>2, <3>5, <3>6
        <3>. QED
            BY <3>3, <3>4
    <2>2. /\ task' \in [Writes \X Nodes -> Statuses]
          /\ \A v \in Writes \ {w}, p \in Nodes : task'[<<v, p>>] = task[<<v, p>>]
          /\ \A p \in Nodes : task'[<<w, p>>] = IF p \in Peers(k, n) THEN "pending" ELSE "none"
        BY <1>1, <1>2, <1>4, <1>10 DEF Fate, Statuses
    <2>3. ASSUME NEW c \in Pairs
          PROVE  /\ Sane(client'[c])
                 /\ \A v \in Writes : Holds(client'[c], v) => Holds(client[c], v)
                      \/ (v = w /\ c[1] = n /\ task'[<<w, c[2]>>] = "pending")
                 /\ \A v \in Writes : Unsent(client'[c], v) => Unsent(client[c], v) \/ v = w
                 /\ client'[c].request = "OK" =>
                      client[c].request = "OK" /\ client'[c].item = client[c].item
        <3>1. CASE c[1] = n /\ c[2] \in Peers(k, n)
            <4>1. client'[c] = Enqueue(client[c], w) /\ task'[<<w, c[2]>>] = "pending"
                BY <1>7, <1>10, <2>2, <3>1
            <4>. QED
                BY <1>1, <1>2, <1>4, <3>1, <4>1, EnqueueFacts
        <3>2. CASE ~(c[1] = n /\ c[2] \in Peers(k, n))
            <4>1. client'[c] = client[c]
                BY <1>10, <3>2
            <4>. QED
                BY <1>2, <4>1
        <3>. QED
            BY <3>1, <3>2
    <2>4. TypeOK'
        <3>1. client' \in [Pairs -> Client]
            <4>1. \A c \in Pairs : client'[c] \in Client
                BY <2>3 DEF Sane
            <4>. QED
                BY <1>10, <4>1
        <3>2. \A c \in Pairs :
                client'[c].request # "none" => client'[c].connected /\ client'[c].item # None
            BY <2>3 DEF Sane
        <3>. QED
            BY <1>1, <1>2, <1>3, <1>5, <2>1, <2>2, <3>1, <3>2 DEF TypeOK
    <2>5. Issues(n, k, w)
        BY <1>1, <1>3, <1>10, <2>2 DEF Issues
    <2>6. Queues(n, w)
        BY <2>3 DEF Queues, Sane
    <2>7. \A p \in Nodes : task'[<<w, p>>] = "pending" <=> p \in Peers(k, n)
        BY <2>2
    <2>8. PendingTracksFanOuts'
        <3>1. /\ \A p \in Nodes : engine'[n].attempted[p] =
                   IF p \in Peers(k, n) THEN engine[n].attempted[p] + 1 ELSE engine[n].attempted[p]
              /\ \A p \in Nodes : task'[<<w, p>>] = "pending" <=> p \in Peers(k, n)
              /\ engine'[n].pending = engine[n].pending + 1
              /\ engine'[n].succeeded = engine[n].succeeded /\ engine'[n].failed = engine[n].failed
              /\ \A m \in Nodes : m # n => engine'[m] = engine[m]
              /\ Peers(k, n) # {} /\ ~AtLimit(n)
            BY <1>10, <2>1, <2>7
        <3>. QED
            BY <2>5, <3>1, FannedOut
    <2>. QED
        BY <2>4, <2>5, <2>6, <2>8, IssueInv
<1>. QED
    BY <1>1, <1>8, <1>9, <1>10 DEF Schedule

-----------------------------------------------------------------------------
(* Nodes                                                                   *)

RejectedAt(n) ==
    [p \in Nodes |-> IF <<n, p>> \in Pairs THEN Rejected(client[<<n, p>>]) ELSE {}]

LEMMA RejectedFacts ==
    ASSUME Inv, NEW n \in Nodes, NEW p \in Nodes, NEW w \in RejectedAt(n)[p]
    PROVE  /\ <<n, p>> \in Pairs /\ w \in Rejected(client[<<n, p>>])
           /\ w \in Writes /\ w \in Mine(n) /\ task[<<w, p>>] = "pending"
<1>. DEFINE c == <<n, p>>
<1>1. c \in Pairs /\ w \in Rejected(client[c])
    BY DEF RejectedAt
<1>2. Sane(client[c]) /\ client[c] \in Client
    BY <1>1, SaneClients DEF Inv, Sane
<1>3. w \in Writes /\ Holds(client[c], w)
    BY <1>1, <1>2, SeqFacts DEF Rejected, Holds, Client, Sane
<1>4. c[1] = n /\ c[2] = p
    OBVIOUS
<1>5. w \in DOMAIN issued /\ issued[w].node = n /\ task[<<w, p>>] = "pending"
    BY <1>1, <1>3, <1>4 DEF Inv, ClientHoldsPending
<1>. QED
    BY <1>1, <1>3, <1>5 DEF Mine

\* close() gives x slots of #pending back, and counts F failures.
Closed(e, x, F) == [e EXCEPT !.closed = TRUE, !.pending = @ - x, !.failed = F]

LEMMA CountsRejected ==
    ASSUME NEW e \in Engine, NEW x \in Nat, NEW F \in [Nodes -> Nat], x <= e.pending
    PROVE  LET d == Closed(e, x, F)
           IN  /\ d \in Engine /\ d.pending = e.pending - x /\ d.attempted = e.attempted
               /\ d.succeeded = e.succeeded /\ d.failed = F
<1>. DEFINE d == Closed(e, x, F)
<1>1. /\ d.pending = e.pending - x /\ e.pending - x \in Nat
      /\ d.attempted = e.attempted /\ d.succeeded = e.succeeded /\ d.failed = F
    BY DEF Engine, Closed
<1>2. d \in Engine
    BY <1>1 DEF Engine, Closed
<1>. QED
    BY <1>1, <1>2

CloseCountsAt(n) ==
    /\ UNCHANGED issued
    /\ task' = [x \in Writes \X Nodes |->
                  IF x[1] \in RejectedAt(n)[x[2]] THEN "failed" ELSE task[x]]
    /\ engine' = [engine EXCEPT ![n] = Closed(engine[n],
                     Cardinality({w \in Writes : Open(w, task) /\ ~Open(w, task')}),
                     [p \in Nodes |-> engine[n].failed[p] + Cardinality(RejectedAt(n)[p])])]

LEMMA CloseCounts ==
    ASSUME Inv, NEW n \in Nodes, CloseCountsAt(n)
    PROVE  /\ PendingTracksFanOuts'
           /\ engine' \in [Nodes -> Engine]
           /\ task' \in [Writes \X Nodes -> Statuses]
           /\ \A w \in Writes, p \in Nodes :
                task'[<<w, p>>] = IF w \in RejectedAt(n)[p] THEN "failed" ELSE task[<<w, p>>]
<1>. DEFINE R == RejectedAt(n)
            t == task'
            e == engine[n]
            d == engine'[n]
            ended == EndedBy(n, t)
<1>1. /\ TypeOK /\ IssuedAreWrites /\ e \in Engine /\ engine \in [Nodes -> Engine]
      /\ task \in [Writes \X Nodes -> Statuses]
      /\ \A m \in Nodes : Balanced(m) /\ Mine(m) \subseteq Writes
    BY AllBalanced, MineFacts DEF Inv, TypeOK
<1>2. \A p \in Nodes : \A w \in R[p] : w \in Mine(n) /\ task[<<w, p>>] = "pending"
    BY RejectedFacts
<1>. HIDE DEF R
<1>3. /\ t \in [Writes \X Nodes -> Statuses]
      /\ \A w \in Writes, p \in Nodes :
           t[<<w, p>>] = IF w \in R[p] THEN "failed" ELSE task[<<w, p>>]
    BY <1>1 DEF Statuses, R, CloseCountsAt
<1>. HIDE DEF t
<1>4. /\ \A q \in Nodes : R[q] \subseteq Mine(n)
      /\ \A q \in Nodes : \A w \in R[q] : task[<<w, q>>] = "pending"
      /\ \A q \in Nodes, w \in Mine(n) :
           t[<<w, q>>] = "pending" <=> task[<<w, q>>] = "pending" /\ w \notin R[q]
    BY <1>1, <1>2, <1>3
<1>5. /\ Cardinality(OpenOf(n, t)) = Cardinality(OpenOf(n, task)) - Cardinality(ended)
      /\ Cardinality(OpenOf(n, t)) \in Nat /\ Cardinality(OpenOf(n, task)) \in Nat
      /\ Cardinality(ended) \in Nat
    BY <1>1, <1>4, FanOutsSettled, Zenon
<1>6. ASSUME NEW q \in Nodes
      PROVE  /\ Cardinality(PendingAt(n, q, t)) =
                  Cardinality(PendingAt(n, q, task)) - Cardinality(R[q])
             /\ Cardinality(PendingAt(n, q, t)) \in Nat
             /\ Cardinality(PendingAt(n, q, task)) \in Nat
             /\ Cardinality(R[q]) \in Nat
    <2>1. R[q] \in SUBSET Mine(n)
        BY <1>4
    <2>2. \A w \in R[q] : task[<<w, q>>] = "pending"
        BY <1>4
    <2>3. \A w \in Mine(n) : t[<<w, q>>] = "pending" <=> task[<<w, q>>] = "pending" /\ w \notin R[q]
        BY <1>4
    <2>4. TypeOK /\ IssuedAreWrites
        BY <1>1
    <2>. QED
        BY <2>1, <2>2, <2>3, <2>4, PeerSettled
<1>7. {w \in Writes : Open(w, task) /\ ~Open(w, t)} = ended
    <2>1. ASSUME NEW w \in Writes, Open(w, task), ~Open(w, t) PROVE w \in Mine(n)
        <3>1. PICK p \in Nodes : task[<<w, p>>] = "pending"
            BY <2>1 DEF Open
        <3>2. t[<<w, p>>] # "pending"
            BY <2>1 DEF Open
        <3>3. w \in R[p]
            BY <1>3, <3>1, <3>2
        <3>. QED
            BY <1>2, <3>3
    <2>. QED
        BY <1>1, <2>1 DEF EndedBy
<1>8. /\ e.pending = Cardinality(OpenOf(n, task)) /\ e.pending <= MaxPending
      /\ \A q \in Nodes : e.attempted[q] = e.succeeded[q] + e.failed[q]
                                           + Cardinality(PendingAt(n, q, task))
    BY <1>1 DEF Balanced
<1>. DEFINE F == [p \in Nodes |-> e.failed[p] + Cardinality(R[p])]
            x == Cardinality(ended)
<1>9. F \in [Nodes -> Nat] /\ \A p \in Nodes : F[p] = e.failed[p] + Cardinality(R[p])
    BY <1>1, <1>6 DEF Engine
<1>10. engine' = [engine EXCEPT ![n] = Closed(e, x, F)]
    BY <1>7 DEF t, R, CloseCountsAt
<1>. HIDE DEF ended, F
<1>11. /\ d = Closed(e, x, F)
       /\ \A m \in Nodes : m # n => engine'[m] = engine[m]
       /\ engine' = [m \in Nodes |-> engine'[m]]
    BY <1>1, <1>10
<1>12. x \in Nat /\ x <= e.pending
    BY <1>5, <1>8
<1>. HIDE DEF d, e, x
<1>13. /\ d \in Engine /\ d.pending = e.pending - x /\ d.attempted = e.attempted
       /\ d.succeeded = e.succeeded /\ d.failed = F
    BY <1>1, <1>9, <1>11, <1>12, CountsRejected
<1>14. engine' \in [Nodes -> Engine]
    BY <1>1, <1>11, <1>13 DEF d
<1>15. Balanced(n)'
    <2>1. Mine(n)' = Mine(n)
        BY DEF Mine, CloseCountsAt
    <2>2. OpenOf(n, task)' = OpenOf(n, t) /\ \A q : PendingAt(n, q, task)' = PendingAt(n, q, t)
        BY <2>1 DEF OpenOf, PendingAt, t
    <2>3. d.pending = Cardinality(OpenOf(n, t)) /\ d.pending <= MaxPending
        BY <1>5, <1>8, <1>13, BoundsAssumption DEF x
    <2>4. ASSUME NEW q \in Nodes
          PROVE  d.attempted[q] = d.succeeded[q] + d.failed[q] + Cardinality(PendingAt(n, q, t))
        <3>1. e.succeeded[q] \in Nat /\ e.failed[q] \in Nat
            BY <1>1 DEF Engine
        <3>. QED
            BY <1>6, <1>8, <1>9, <1>13, <3>1
    <2>. QED
        BY <2>2, <2>3, <2>4 DEF Balanced, d
<1>16. ASSUME NEW m \in Nodes, m # n PROVE Balanced(m)'
    <2>1. \A w \in Mine(m), q \in Nodes : t[<<w, q>>] = task[<<w, q>>]
        <3>1. \A w \in Mine(m), q \in Nodes : w \notin R[q] /\ w \in Writes
            BY <1>1, <1>2, <1>16 DEF Mine
        <3>. QED
            BY <1>3, <3>1
    <2>2. Mine(m)' = Mine(m)
        BY DEF Mine, CloseCountsAt
    <2>. QED
        BY <1>1, <1>11, <1>16, <2>1, <2>2, StaysBalanced DEF t
<1>. QED
    BY <1>3, <1>14, <1>15, <1>16, AllBalancedNext DEF t, R

\* The clients of n let go what close() rejects; what was on the wire may be late.
ClosesClients(n) ==
    /\ client' = [c \in Pairs |-> IF c[1] = n THEN Shut(client[c]) ELSE client[c]]
    /\ \E rest \in [{c \in Pairs : c[1] = n} -> SUBSET Writes] :
         /\ \A c \in DOMAIN rest : rest[c] \in MayLinger(client[c])
         /\ late' = [c \in Pairs |-> late[c] \cup IF c[1] = n THEN rest[c] ELSE {}]
    /\ UNCHANGED <<issued, applied, lost, restarts>>

LEMMA CloseEngineIs ==
    ASSUME Inv, NEW n \in Nodes, CloseEngine(n)
    PROVE  CloseCountsAt(n) /\ ClosesClients(n)
<1>. DEFINE RejectedFor(p) == IF <<n, p>> \in Pairs THEN Rejected(client[<<n, p>>]) ELSE {}
            t == [x \in Writes \X Nodes |->
                    IF x[1] \in RejectedFor(x[2]) THEN "failed" ELSE task[x]]
            Ended == {w \in Writes : Open(w, task) /\ ~Open(w, t)}
            F == [p \in Nodes |-> engine[n].failed[p] + Cardinality(RejectedAt(n)[p])]
<1>1. /\ task' = t
      /\ engine' = [engine EXCEPT
            ![n].closed = TRUE,
            ![n].pending = @ - Cardinality(Ended),
            ![n].failed = [p \in Nodes |-> @[p] + Cardinality(RejectedFor(p))]]
      /\ UNCHANGED <<issued, applied, lost, restarts>>
    BY DEF CloseEngine, Rejected
<1>2. ClosesClients(n)
    BY DEF CloseEngine, ClosesClients, Shut
<1>3. \A p \in Nodes : RejectedFor(p) = RejectedAt(n)[p]
    BY DEF RejectedAt
<1>4. t = [x \in Writes \X Nodes |-> IF x[1] \in RejectedAt(n)[x[2]] THEN "failed" ELSE task[x]]
    BY <1>3
<1>5. engine \in [Nodes -> Engine]
    BY DEF Inv, TypeOK
<1>6. [p \in Nodes |-> engine[n].failed[p] + Cardinality(RejectedFor(p))] = F
    BY <1>3
<1>7. engine' = [engine EXCEPT ![n] = Closed(engine[n], Cardinality(Ended), F)]
    <2>1. engine' = [engine EXCEPT ![n].closed = TRUE, ![n].pending = @ - Cardinality(Ended),
                                   ![n].failed = F]
        BY <1>1, <1>6
    <2>. HIDE DEF Ended, F
    <2>. QED
        BY <1>5, <2>1 DEF Closed
<1>. QED
    BY <1>1, <1>2, <1>4, <1>7 DEF CloseCountsAt

LEMMA CloseEngineInv ==
    ASSUME Inv, NEW n \in Nodes, CloseEngine(n)
    PROVE  Inv'
<1>1. CloseCountsAt(n) /\ ClosesClients(n)
    BY CloseEngineIs
<1>2. /\ PendingTracksFanOuts'
      /\ engine' \in [Nodes -> Engine]
      /\ task' \in [Writes \X Nodes -> Statuses]
      /\ \A w \in Writes, p \in Nodes :
           task'[<<w, p>>] = IF w \in RejectedAt(n)[p] THEN "failed" ELSE task[<<w, p>>]
    BY <1>1, CloseCounts
<1>3. PICK rest \in [{c \in Pairs : c[1] = n} -> SUBSET Writes] :
        /\ \A c \in DOMAIN rest : rest[c] \in MayLinger(client[c])
        /\ late' = [c \in Pairs |-> late[c] \cup IF c[1] = n THEN rest[c] ELSE {}]
    BY <1>1 DEF ClosesClients
<1>4. /\ client' = [c \in Pairs |-> IF c[1] = n THEN Shut(client[c]) ELSE client[c]]
      /\ UNCHANGED <<issued, applied, lost, restarts>>
    BY <1>1 DEF ClosesClients
<1>5. /\ TypeOK /\ ClientHoldsPending /\ DOMAIN issued \subseteq Writes
      /\ late \in [Pairs -> SUBSET Writes]
      /\ \A c \in Pairs : Sane(client[c])
    BY SaneClients DEF Inv, IssuedAreWrites, TypeOK
<1>6. \A p \in Nodes : \A w \in RejectedAt(n)[p] :
        /\ w \in Rejected(client[<<n, p>>]) /\ issued[w].node = n /\ task[<<w, p>>] = "pending"
    BY RejectedFacts DEF Mine
<1>7. ASSUME NEW c \in Pairs PROVE ReleasedAt(c)
    <2>1. c = <<c[1], c[2]>> /\ c[2] \in Nodes
        BY PairFacts
    <2>2. \A w \in Writes : Holds(client[c], w) =>
            issued[w].node = c[1] /\ task[<<w, c[2]>>] = "pending"
        BY <1>5 DEF ClientHoldsPending
    <2>3. CASE c[1] = n
        <3>1. client'[c] = Shut(client[c])
            BY <1>4, <2>3
        <3>2. LetsGo(client[c], client'[c], Rejected(client[c])) /\ client'[c].request = "none"
            BY <1>5, <3>1, ShutFacts
        <3>3. \A w \in RejectedAt(n)[c[2]] : w \in Rejected(client[c])
            BY <1>6, <2>1, <2>3
        <3>4. \A w \in Writes : Holds(client'[c], w) =>
                Holds(client[c], w) /\ task'[<<w, c[2]>>] = "pending"
            BY <1>2, <2>1, <2>2, <3>2, <3>3 DEF LetsGo
        <3>5. ASSUME NEW w \in late'[c], w \notin late[c]
              PROVE  w \in Writes /\ Unsent(client[c], w) /\ task'[<<w, c[2]>>] # "pending"
            <4>1. w \in rest[c] /\ rest[c] \in MayLinger(client[c])
                BY <1>3, <2>3, <3>5
            <4>2. client[c].request = "sent" /\ w = client[c].item
                BY <4>1 DEF MayLinger
            <4>3. w \in Writes /\ Unsent(client[c], w) /\ w \in Rejected(client[c])
                BY <1>5, <4>2 DEF Unsent, Holds, Rejected, Sane, Client
            <4>4. w \in RejectedAt(n)[c[2]]
                BY <2>1, <2>3, <4>3 DEF RejectedAt
            <4>. QED
                BY <1>2, <2>1, <4>3, <4>4
        <3>. QED
            BY <3>2, <3>4, <3>5 DEF ReleasedAt, LetsGo
    <2>4. CASE c[1] # n
        <3>1. client'[c] = client[c] /\ late'[c] = late[c]
            BY <1>3, <1>4, <2>4
        <3>2. ASSUME NEW w \in Writes, Holds(client[c], w)
              PROVE  w \notin RejectedAt(n)[c[2]]
            <4>1. issued[w].node = c[1] /\ c[2] \in Nodes
                BY <2>1, <2>2, <3>2
            <4>. QED
                BY <1>6, <2>4, <4>1
        <3>3. \A w \in Writes : Holds(client[c], w) => task'[<<w, c[2]>>] = "pending"
            BY <1>2, <2>1, <2>2, <3>2
        <3>. QED
            BY <1>4, <1>5, <2>1, <3>1, <3>3 DEF ReleasedAt
    <2>. QED
        BY <2>3, <2>4
<1>8. TypeOK'
    <2>1. late' \in [Pairs -> SUBSET Writes]
        BY <1>3, <1>5
    <2>2. \A c \in Pairs : Sane(client'[c])
        BY <1>7 DEF ReleasedAt
    <2>3. client' \in [Pairs -> Client]
        <3>1. \A c \in Pairs : client'[c] \in Client
            BY <2>2 DEF Sane
        <3>. QED
            BY <1>4, <3>1
    <2>. QED
        BY <1>2, <1>4, <1>5, <2>1, <2>2, <2>3 DEF TypeOK, Sane
<1>9. Release
    <2>1. ASSUME NEW w \in Writes, NEW p \in Nodes, task'[<<w, p>>] # task[<<w, p>>]
          PROVE  task[<<w, p>>] = "pending" /\ task'[<<w, p>>] = "failed"
        BY <1>2, <1>6, <2>1
    <2>. QED
        BY <1>4, <1>7, <2>1 DEF Release
<1>. QED
    BY <1>2, <1>8, <1>9, ReleaseInv

-----------------------------------------------------------------------------
(* A node starts anew                                                      *)

\* Per node, the write on the wire to n that n's crash takes along.
LostWith(n) == [m \in Nodes |-> IF <<m, n>> \in Pairs THEN OnTheWire(client[<<m, n>>]) ELSE {}]

LEMMA LostFacts ==
    ASSUME Inv, NEW n \in Nodes
    PROVE  /\ \A m \in Nodes : \A w \in LostWith(n)[m] :
                /\ m # n /\ <<m, n>> \in Pairs /\ w \in OnTheWire(client[<<m, n>>])
                /\ w \in Mine(m) /\ task[<<w, n>>] = "pending"
           /\ LostWith(n)[n] = {}
<1>1. ASSUME NEW m \in Nodes, NEW w \in LostWith(n)[m]
      PROVE  /\ m # n /\ <<m, n>> \in Pairs /\ w \in OnTheWire(client[<<m, n>>])
             /\ w \in Mine(m) /\ task[<<w, n>>] = "pending"
    <2>. DEFINE c == <<m, n>>
    <2>1. c \in Pairs /\ w \in OnTheWire(client[c]) /\ c[1] = m /\ c[2] = n
        BY <1>1 DEF LostWith
    <2>2. m # n
        BY <2>1, PairFacts
    <2>3. Sane(client[c]) /\ ClientHoldsPending
        BY <2>1, SaneClients DEF Inv
    <2>4. w \in Writes /\ Holds(client[c], w)
        BY <2>1, <2>3 DEF Holds, OnTheWire, Sane, Client
    <2>. QED
        BY <2>1, <2>2, <2>3, <2>4 DEF ClientHoldsPending, Mine
<1>. QED
    BY <1>1

\* The fan-outs of n are forgotten, the lines on the wire to n have failed.
Restarted(n, t) ==
    \A w \in Writes, p \in Nodes :
        t[<<w, p>>] = IF task[<<w, p>>] = "pending" /\ issued[w].node = n THEN "forgotten"
                      ELSE IF p = n /\ \E m \in Nodes : w \in LostWith(n)[m] THEN "failed"
                      ELSE task[<<w, p>>]

\* The counters of an engine that lost x fan-outs to n, as F failures.
Bereft(e, x, F) == [e EXCEPT !.pending = @ - x, !.failed = F]

LEMMA CountsLost ==
    ASSUME NEW e \in Engine, NEW x \in Nat, NEW F \in [Nodes -> Nat], x <= e.pending
    PROVE  LET d == Bereft(e, x, F)
           IN  /\ d \in Engine /\ d.pending = e.pending - x /\ d.attempted = e.attempted
               /\ d.succeeded = e.succeeded /\ d.failed = F
<1>. DEFINE d == Bereft(e, x, F)
<1>1. /\ d.pending = e.pending - x /\ e.pending - x \in Nat
      /\ d.attempted = e.attempted /\ d.succeeded = e.succeeded /\ d.failed = F
    BY DEF Engine, Bereft
<1>2. d \in Engine
    BY <1>1 DEF Engine, Bereft
<1>. QED
    BY <1>1, <1>2

\* The engine of another node m counts what it lost.
EngineLoses(n, m) ==
    engine'[m] = Bereft(engine[m], Finished(LostWith(n)[m], task'),
                    [engine[m].failed EXCEPT ![n] = @ + Cardinality(LostWith(n)[m])])

LEMMA LostCounts ==
    ASSUME Inv, NEW n \in Nodes, Restarted(n, task'), UNCHANGED issued,
           NEW m \in Nodes, m # n,
           EngineLoses(n, m)
    PROVE  Balanced(m)' /\ engine'[m] \in Engine
<1>. DEFINE W == LostWith(n)[m]
            R == [q \in Nodes |-> IF q = n THEN W ELSE {}]
            t == task'
            e == engine[m]
            d == engine'[m]
            ended == EndedBy(m, t)
<1>1. /\ TypeOK /\ IssuedAreWrites /\ e \in Engine
      /\ Balanced(m) /\ Mine(m) \subseteq Writes
    BY AllBalanced, MineFacts DEF Inv, TypeOK
<1>2. \A w \in W : w \in Mine(m) /\ task[<<w, n>>] = "pending"
    BY LostFacts
<1>3. \A w \in Mine(m), q \in Nodes :
        t[<<w, q>>] = IF q = n /\ w \in W THEN "failed" ELSE task[<<w, q>>]
    <2>. SUFFICES ASSUME NEW w \in Mine(m), NEW q \in Nodes
                  PROVE  t[<<w, q>>] = IF q = n /\ w \in W THEN "failed" ELSE task[<<w, q>>]
        OBVIOUS
    <2>1. w \in Writes /\ issued[w].node = m
        BY <1>1 DEF Mine
    <2>2. \A j \in Nodes : w \in LostWith(n)[j] => j = m
        <3>1. \A j \in Nodes : w \in LostWith(n)[j] => w \in Mine(j)
            BY LostFacts
        <3>. QED
            BY <2>1, <3>1 DEF Mine
    <2>3. (\E j \in Nodes : w \in LostWith(n)[j]) <=> w \in W
        BY <2>2
    <2>. QED
        BY <2>1, <2>3 DEF Restarted
<1>4. /\ \A q \in Nodes : R[q] \subseteq Mine(m)
      /\ \A q \in Nodes : \A w \in R[q] : task[<<w, q>>] = "pending"
      /\ \A q \in Nodes, w \in Mine(m) :
           t[<<w, q>>] = "pending" <=> task[<<w, q>>] = "pending" /\ w \notin R[q]
      /\ R[n] = W /\ \A q \in Nodes : q # n => R[q] = {}
    BY <1>2, <1>3
<1>. HIDE DEF R, t, W
<1>5. /\ Cardinality(OpenOf(m, t)) = Cardinality(OpenOf(m, task)) - Cardinality(ended)
      /\ Cardinality(OpenOf(m, t)) \in Nat /\ Cardinality(OpenOf(m, task)) \in Nat
      /\ Cardinality(ended) \in Nat
    BY <1>1, <1>4, FanOutsSettled, Zenon
<1>6. \A w \in ended : \E q \in Nodes : w \in R[q]
    BY <1>1, <1>4, FanOutsSettled, ZenonT(60)
<1>7. ASSUME NEW q \in Nodes
      PROVE  /\ Cardinality(PendingAt(m, q, t)) =
                  Cardinality(PendingAt(m, q, task)) - Cardinality(R[q])
             /\ Cardinality(PendingAt(m, q, t)) \in Nat
             /\ Cardinality(PendingAt(m, q, task)) \in Nat
             /\ Cardinality(R[q]) \in Nat
    <2>1. R[q] \in SUBSET Mine(m)
        BY <1>4
    <2>2. \A w \in R[q] : task[<<w, q>>] = "pending"
        BY <1>4
    <2>3. \A w \in Mine(m) : t[<<w, q>>] = "pending" <=> task[<<w, q>>] = "pending" /\ w \notin R[q]
        BY <1>4
    <2>4. TypeOK /\ IssuedAreWrites
        BY <1>1
    <2>. QED
        BY <2>1, <2>2, <2>3, <2>4, PeerSettled
<1>8. Finished(W, t) = Cardinality(ended)
    <2>1. {w \in W : ~Open(w, t)} \subseteq ended
        BY <1>2 DEF Open, EndedBy
    <2>2. \A w \in ended : w \in W
        BY <1>4, <1>6
    <2>3. {w \in W : ~Open(w, t)} = ended
        BY <2>1, <2>2 DEF EndedBy
    <2>. QED
        BY <2>3 DEF Finished
<1>9. /\ e.pending = Cardinality(OpenOf(m, task)) /\ e.pending <= MaxPending
      /\ \A q \in Nodes : e.attempted[q] = e.succeeded[q] + e.failed[q]
                                           + Cardinality(PendingAt(m, q, task))
    BY <1>1 DEF Balanced
<1>. DEFINE F == [e.failed EXCEPT ![n] = @ + Cardinality(W)]
            x == Cardinality(ended)
<1>10. Cardinality(W) \in Nat /\ \A q \in Nodes : q # n => Cardinality(R[q]) = 0
    <2>1. Cardinality(R[n]) \in Nat
        BY <1>7
    <2>. QED
        BY <1>4, <2>1, FS_EmptySet
<1>11. /\ e.failed \in [Nodes -> Nat] /\ F \in [Nodes -> Nat]
       /\ \A q \in Nodes : F[q] = e.failed[q] + Cardinality(R[q])
    <2>1. e.failed \in [Nodes -> Nat]
        BY <1>1 DEF Engine
    <2>. HIDE DEF e
    <2>2. F \in [Nodes -> Nat]
        BY <1>10, <2>1
    <2>3. \A q \in Nodes : F[q] = e.failed[q] + Cardinality(R[q])
        BY <1>4, <1>10, <2>1
    <2>. QED
        BY <2>1, <2>2, <2>3
<1>12. d = Bereft(e, x, F)
    BY <1>8 DEF t, W, EngineLoses
<1>. HIDE DEF ended, F
<1>13. x \in Nat /\ x <= e.pending
    BY <1>5, <1>9
<1>. HIDE DEF d, e, x
<1>14. /\ d \in Engine /\ d.pending = e.pending - x /\ d.attempted = e.attempted
       /\ d.succeeded = e.succeeded /\ d.failed = F
    BY <1>1, <1>11, <1>12, <1>13, CountsLost
<1>15. d.pending = Cardinality(OpenOf(m, t)) /\ d.pending <= MaxPending
    BY <1>5, <1>9, <1>14, BoundsAssumption DEF x
<1>16. ASSUME NEW q \in Nodes
       PROVE  d.attempted[q] = d.succeeded[q] + d.failed[q] + Cardinality(PendingAt(m, q, t))
    <2>1. e.succeeded[q] \in Nat /\ e.failed[q] \in Nat
        BY <1>1 DEF Engine
    <2>. QED
        BY <1>7, <1>9, <1>11, <1>14, <2>1
<1>17. Balanced(m)'
    <2>1. Mine(m)' = Mine(m)
        BY DEF Mine
    <2>2. OpenOf(m, task)' = OpenOf(m, t) /\ \A q : PendingAt(m, q, task)' = PendingAt(m, q, t)
        BY <2>1 DEF OpenOf, PendingAt, t
    <2>. QED
        BY <1>15, <1>16, <2>2 DEF Balanced, d
<1>. QED
    BY <1>14, <1>17 DEF d

\* The new engine has no fan-outs.
LEMMA NewCounts ==
    ASSUME Inv, NEW n \in Nodes, Restarted(n, task'), UNCHANGED issued, engine'[n] = NewEngine
    PROVE  Balanced(n)' /\ engine'[n] \in Engine
<1>1. Mine(n)' = Mine(n) /\ Mine(n) \subseteq Writes
    BY MineFacts DEF Mine, Inv
<1>2. \A w \in Mine(n), q \in Nodes : task'[<<w, q>>] # "pending"
    BY <1>1 DEF Mine, Restarted
<1>3. OpenOf(n, task)' = {} /\ \A q \in Nodes : PendingAt(n, q, task)' = {}
    BY <1>1, <1>2 DEF OpenOf, PendingAt, Open
<1>4. Cardinality({}) = 0
    BY FS_EmptySet
<1>5. engine'[n] \in Engine
    BY DEF NewEngine, Engine
<1>6. /\ engine'[n].pending = 0
      /\ \A q \in Nodes : engine'[n].attempted[q] = 0 /\ engine'[n].succeeded[q] = 0
                            /\ engine'[n].failed[q] = 0
    BY DEF NewEngine
<1>7. Balanced(n)'
    BY <1>3, <1>4, <1>6, BoundsAssumption DEF Balanced
<1>. QED
    BY <1>5, <1>7

\* The clients of n are new; those connected to n lose their connections.
RestartsClients(n) ==
    /\ client' = [c \in Pairs |->
          IF c[1] = n THEN NewClient
          ELSE IF c[2] = n /\ client[c].connected THEN Disconnect(client[c]) ELSE client[c]]
    /\ \E rest \in [{c \in Pairs : c[1] = n} -> SUBSET Writes] :
         /\ \A c \in DOMAIN rest : rest[c] \in MayLinger(client[c])
         /\ late' = [c \in Pairs |-> IF c[2] = n THEN {}
                                     ELSE IF c[1] = n THEN late[c] \cup rest[c] ELSE late[c]]

\* Its store is empty and it has crashed once more.
RestartsStore(n) ==
    /\ restarts' \in [Nodes -> Nat] /\ restarts'[n] # 0
    /\ \A m \in Nodes : m # n => restarts'[m] = restarts[m] /\ applied'[m] = applied[m]
    /\ applied' \in [Nodes -> Seq(Writes)] /\ applied'[n] = <<>>
    /\ lost' \in [Pairs -> BOOLEAN]
    /\ UNCHANGED issued

LEMMA RestartIs ==
    ASSUME Inv, NEW n \in Nodes, Restart(n)
    PROVE  /\ Restarted(n, task') /\ task' \in [Writes \X Nodes -> Statuses]
           /\ engine' = [m \in Nodes |-> engine'[m]] /\ engine'[n] = NewEngine
           /\ \A m \in Nodes : m # n => EngineLoses(n, m)
           /\ RestartsClients(n) /\ RestartsStore(n)
<1>. DEFINE Cut(c) == c[2] = n /\ c[1] # n /\ client[c].connected
            FailedAt(m) == IF <<m, n>> \in Pairs /\ Cut(<<m, n>>) /\ client[<<m, n>>].request # "none"
                             THEN {client[<<m, n>>].item} ELSE {}
            t == [x \in Writes \X Nodes |->
                    IF task[x] = "pending" /\ issued[x[1]].node = n THEN "forgotten"
                    ELSE IF x[2] = n /\ \E m \in Nodes : x[1] \in FailedAt(m) THEN "failed"
                    ELSE task[x]]
<1>1. /\ TypeOK /\ \A c \in Pairs : Sane(client[c])
    BY SaneClients DEF Inv
<1>2. ASSUME NEW m \in Nodes PROVE FailedAt(m) = LostWith(n)[m]
    <2>1. CASE <<m, n>> \in Pairs
        <3>. DEFINE c == <<m, n>>
        <3>1. Sane(client[c]) /\ c[1] # c[2] /\ c[1] = m /\ c[2] = n
            BY <1>1, <2>1, PairFacts
        <3>2. client[c].request # "none" => Cut(c)
            BY <3>1 DEF Sane
        <3>. QED
            BY <2>1, <3>2 DEF LostWith, OnTheWire
    <2>2. CASE <<m, n>> \notin Pairs
        BY <2>2 DEF LostWith
    <2>. QED
        BY <2>1, <2>2
<1>3. /\ task' = t
      /\ engine' = [m \in Nodes |->
            IF m = n THEN NewEngine
            ELSE [engine[m] EXCEPT !.pending = @ - Finished(FailedAt(m), t),
                                   !.failed[n] = @ + Cardinality(FailedAt(m))]]
      /\ UNCHANGED issued
    BY DEF Restart
<1>4. RestartsClients(n)
    <2>1. client' = [c \in Pairs |-> IF c[1] = n THEN NewClient
                                     ELSE IF Cut(c) THEN Disconnect(client[c]) ELSE client[c]]
        BY DEF Restart
    <2>2. client' = [c \in Pairs |->
            IF c[1] = n THEN NewClient
            ELSE IF c[2] = n /\ client[c].connected THEN Disconnect(client[c]) ELSE client[c]]
        BY <2>1
    <2>. QED
        BY <2>2 DEF Restart, RestartsClients
<1>5. RestartsStore(n)
    <2>1. /\ restarts' = [restarts EXCEPT ![n] = @ + 1]
          /\ applied' = [applied EXCEPT ![n] = <<>>]
          /\ lost' = [c \in Pairs |-> lost[c] \/ Cut(c)]
        BY DEF Restart
    <2>2. /\ restarts \in [Nodes -> Nat] /\ applied \in [Nodes -> Seq(Writes)]
          /\ <<>> \in Seq(Writes)
        BY <1>1 DEF TypeOK
    <2>3. lost' \in [Pairs -> BOOLEAN]
        BY <2>1
    <2>4. restarts' \in [Nodes -> Nat] /\ restarts'[n] # 0
        <3>1. restarts[n] \in Nat
            BY <2>2
        <3>. QED
            BY <2>1, <2>2, <3>1
    <2>5. applied' \in [Nodes -> Seq(Writes)] /\ applied'[n] = <<>>
        BY <2>1, <2>2
    <2>6. \A m \in Nodes : m # n => restarts'[m] = restarts[m] /\ applied'[m] = applied[m]
        BY <2>1, <2>2
    <2>. QED
        BY <1>3, <2>3, <2>4, <2>5, <2>6 DEF RestartsStore
<1>6. /\ Restarted(n, task') /\ task' \in [Writes \X Nodes -> Statuses]
    <2>1. task \in [Writes \X Nodes -> Statuses]
        BY <1>1 DEF TypeOK
    <2>2. task' \in [Writes \X Nodes -> Statuses]
        BY <1>3, <2>1 DEF Statuses
    <2>3. ASSUME NEW w \in Writes, NEW p \in Nodes
          PROVE  task'[<<w, p>>] =
                   IF task[<<w, p>>] = "pending" /\ issued[w].node = n THEN "forgotten"
                   ELSE IF p = n /\ \E m \in Nodes : w \in FailedAt(m) THEN "failed"
                   ELSE task[<<w, p>>]
        <3>. HIDE DEF FailedAt
        <3>. QED
            BY <1>3
    <2>. QED
        BY <1>2, <2>2, <2>3 DEF Restarted
<1>7. ASSUME NEW m \in Nodes, m # n PROVE EngineLoses(n, m)
    <2>. DEFINE e == engine[m]
                x == Finished(FailedAt(m), t)
                y == Cardinality(FailedAt(m))
    <2>1. engine'[m] = [e EXCEPT !.pending = @ - x, !.failed[n] = @ + y]
        BY <1>3, <1>7
    <2>2. x = Finished(LostWith(n)[m], task') /\ y = Cardinality(LostWith(n)[m])
        BY <1>2, <1>3
    <2>3. e \in Engine
        BY <1>1 DEF TypeOK
    <2>. HIDE DEF e, x, y
    <2>4. engine'[m] = Bereft(e, x, [e.failed EXCEPT ![n] = @ + y])
        BY <2>1, <2>3 DEF Bereft, Engine
    <2>. QED
        BY <2>2, <2>4 DEF EngineLoses, e
<1>8. engine' = [m \in Nodes |-> engine'[m]] /\ engine'[n] = NewEngine
    <2>. DEFINE E(m) == IF m = n THEN NewEngine
                        ELSE [engine[m] EXCEPT !.pending = @ - Finished(FailedAt(m), t),
                                               !.failed[n] = @ + Cardinality(FailedAt(m))]
    <2>1. engine' = [m \in Nodes |-> E(m)] /\ E(n) = NewEngine
        BY <1>3
    <2>. HIDE DEF E
    <2>. QED
        BY <2>1
<1>. QED
    BY <1>4, <1>5, <1>6, <1>7, <1>8

LEMMA RestartInv ==
    ASSUME Inv, NEW n \in Nodes, Restart(n)
    PROVE  Inv'
<1>1. /\ Restarted(n, task') /\ task' \in [Writes \X Nodes -> Statuses]
      /\ engine' = [m \in Nodes |-> engine'[m]] /\ engine'[n] = NewEngine
      /\ \A m \in Nodes : m # n => EngineLoses(n, m)
      /\ RestartsClients(n) /\ RestartsStore(n)
    BY RestartIs
<1>2. UNCHANGED issued /\ TypeOK /\ ClientHoldsPending /\ late \in [Pairs -> SUBSET Writes]
    BY <1>1 DEF RestartsStore, Inv, TypeOK
<1>3. \A m \in Nodes : Balanced(m)' /\ engine'[m] \in Engine
    <2>1. ASSUME NEW m \in Nodes, m # n PROVE Balanced(m)' /\ engine'[m] \in Engine
        BY <1>1, <1>2, <2>1, LostCounts
    <2>. QED
        BY <1>1, <1>2, <2>1, NewCounts
<1>4. PendingTracksFanOuts' /\ engine' \in [Nodes -> Engine]
    BY <1>1, <1>3, AllBalancedNext
<1>5. PICK rest \in [{c \in Pairs : c[1] = n} -> SUBSET Writes] :
        /\ \A c \in DOMAIN rest : rest[c] \in MayLinger(client[c])
        /\ late' = [c \in Pairs |-> IF c[2] = n THEN {}
                                    ELSE IF c[1] = n THEN late[c] \cup rest[c] ELSE late[c]]
    BY <1>1 DEF RestartsClients
<1>6. client' = [c \in Pairs |->
          IF c[1] = n THEN NewClient
          ELSE IF c[2] = n /\ client[c].connected THEN Disconnect(client[c]) ELSE client[c]]
    BY <1>1 DEF RestartsClients
<1>7. ASSUME NEW c \in Pairs PROVE ReleasedAt(c)
    <2>1. /\ c = <<c[1], c[2]>> /\ c[1] \in Nodes /\ c[2] \in Nodes /\ c[1] # c[2]
          /\ Sane(client[c])
        BY <1>2, PairFacts, SaneClients
    <2>2. \A w \in Writes : Holds(client[c], w) =>
            issued[w].node = c[1] /\ task[<<w, c[2]>>] = "pending"
        BY <1>2 DEF ClientHoldsPending
    <2>3. CASE c[1] = n
        <3>1. client'[c] = NewClient /\ late'[c] = late[c] \cup rest[c]
            BY <1>5, <1>6, <2>1, <2>3
        <3>2. Sane(client'[c]) /\ client'[c].request = "none" /\ \A w : ~Holds(client'[c], w)
            BY <3>1, NewClientFacts
        <3>3. ASSUME NEW w \in late'[c], w \notin late[c]
              PROVE  w \in Writes /\ Unsent(client[c], w) /\ task'[<<w, c[2]>>] # "pending"
            <4>1. w \in rest[c] /\ rest[c] \in MayLinger(client[c])
                BY <1>5, <2>3, <3>1, <3>3
            <4>2. client[c].request = "sent" /\ w = client[c].item
                BY <4>1 DEF MayLinger
            <4>3. w \in Writes /\ Unsent(client[c], w)
                BY <2>1, <4>2 DEF Unsent, Holds, Sane, Client
            <4>4. issued[w].node = n /\ task[<<w, c[2]>>] = "pending"
                BY <2>2, <2>3, <4>3 DEF Unsent
            <4>5. task'[<<w, c[2]>>] = "forgotten"
                BY <1>1, <2>1, <4>3, <4>4 DEF Restarted
            <4>. QED
                BY <4>3, <4>5
        <3>. QED
            BY <3>2, <3>3 DEF ReleasedAt, Unsent
    <2>4. CASE c[1] # n /\ c[2] = n
        <3>. DEFINE d == client'[c]
                    W == OnTheWire(client[c])
        <3>1. LetsGo(client[c], d, W) /\ d.request \notin {"OK", "ERR"}
            <4>1. CASE client[c].connected
                BY <1>6, <2>1, <2>4, <4>1, DisconnectFacts
            <4>2. CASE ~client[c].connected
                <5>1. d = client[c] /\ client[c].request = "none" /\ W = {}
                    BY <1>6, <2>1, <2>4, <4>2 DEF OnTheWire, Sane
                <5>. QED
                    BY <2>1, <5>1 DEF LetsGo
            <4>. QED
                BY <4>1, <4>2
        <3>2. late'[c] = {}
            BY <1>5, <2>4
        <3>3. ASSUME NEW w \in Writes, Holds(d, w)
              PROVE  Holds(client[c], w) /\ task'[<<w, c[2]>>] = "pending"
            <4>1. Holds(client[c], w) /\ w \notin W
                BY <3>1, <3>3 DEF LetsGo
            <4>2. issued[w].node = c[1] /\ task[<<w, c[2]>>] = "pending"
                BY <2>2, <4>1
            <4>3. ASSUME NEW m \in Nodes, w \in LostWith(n)[m] PROVE FALSE
                <5>1. w \in OnTheWire(client[<<m, n>>]) /\ w \in Mine(m)
                    BY <4>3, LostFacts
                <5>2. m = c[1]
                    BY <4>2, <5>1 DEF Mine
                <5>3. <<m, n>> = c
                    BY <2>1, <2>4, <5>2, Zenon
                <5>. QED
                    BY <4>1, <5>1, <5>3
            <4>. QED
                BY <1>1, <2>1, <2>4, <4>1, <4>2, <4>3 DEF Restarted
        <3>. QED
            BY <3>1, <3>2, <3>3 DEF ReleasedAt, LetsGo
    <2>5. CASE c[1] # n /\ c[2] # n
        <3>1. client'[c] = client[c] /\ late'[c] = late[c]
            BY <1>5, <1>6, <2>5
        <3>2. applied'[c[2]] = applied[c[2]]
            BY <1>1, <2>1, <2>5 DEF RestartsStore
        <3>3. \A w \in Writes : Holds(client[c], w) => task'[<<w, c[2]>>] = "pending"
            BY <1>1, <2>1, <2>2, <2>5 DEF Restarted
        <3>. QED
            BY <2>1, <3>1, <3>2, <3>3 DEF ReleasedAt
    <2>. QED
        BY <2>3, <2>4, <2>5
<1>8. TypeOK'
    <2>1. late' \in [Pairs -> SUBSET Writes]
        <3>1. \A c \in Pairs : c[1] = n => rest[c] \in SUBSET Writes
            BY <1>5
        <3>. QED
            BY <1>2, <1>5, <3>1
    <2>2. \A c \in Pairs : Sane(client'[c])
        BY <1>7 DEF ReleasedAt
    <2>3. client' \in [Pairs -> Client]
        <3>1. \A c \in Pairs : client'[c] \in Client
            BY <2>2 DEF Sane
        <3>2. client' = [c \in Pairs |-> client'[c]]
            <4>. DEFINE C(c) == IF c[1] = n THEN NewClient
                  ELSE IF c[2] = n /\ client[c].connected THEN Disconnect(client[c]) ELSE client[c]
            <4>1. client' = [c \in Pairs |-> C(c)]
                BY <1>6
            <4>. HIDE DEF C
            <4>. QED
                BY <4>1
        <3>. QED
            BY <3>1, <3>2
    <2>. QED
        BY <1>1, <1>2, <1>4, <2>1, <2>2, <2>3 DEF TypeOK, Sane, RestartsStore
<1>9. Release
    <2>1. \A m \in Nodes :
            \/ applied'[m] = applied[m] /\ restarts'[m] = restarts[m]
            \/ applied'[m] = <<>> /\ restarts'[m] # 0
        BY <1>1 DEF RestartsStore
    <2>2. ASSUME NEW w \in Writes, NEW p \in Nodes, task'[<<w, p>>] # task[<<w, p>>]
          PROVE  task[<<w, p>>] = "pending" /\ task'[<<w, p>>] \in {"failed", "forgotten"}
        BY <1>1, <2>2, LostFacts DEF Restarted
    <2>. QED
        BY <1>2, <1>7, <2>1, <2>2 DEF Release
<1>. QED
    BY <1>4, <1>8, <1>9, ReleaseInv

-----------------------------------------------------------------------------
(* The order of one connection                                             *)

LEMMA IncreasingFacts ==
    ASSUME NEW s \in Seq(Writes), Increasing(s)
    PROVE  /\ \A w \in Writes : (\A v \in Range(s) : v < w) => Increasing(Append(s, w))
           /\ s # <<>> => /\ Increasing(Tail(s))
                          /\ \A v \in Range(Tail(s)) : Head(s) < v
<1>1. ASSUME NEW w \in Writes, \A v \in Range(s) : v < w
      PROVE  Increasing(Append(s, w))
    <2>. DEFINE t == Append(s, w)
    <2>1. /\ Len(s) \in Nat /\ DOMAIN s = 1..Len(s) /\ DOMAIN t = 1..Len(s) + 1
          /\ \A i \in DOMAIN s : t[i] = s[i]
          /\ t[Len(s) + 1] = w
        BY AppendProperties
    <2>. HIDE DEF t
    <2>2. \A i \in DOMAIN s : s[i] < w
        BY <1>1 DEF Range
    <2>3. ASSUME NEW i \in DOMAIN t, NEW j \in DOMAIN t, i < j
          PROVE  t[i] < t[j]
        <3>1. i \in DOMAIN s
            BY <2>1, <2>3
        <3>2. CASE j \in DOMAIN s
            BY <2>1, <2>3, <3>1, <3>2 DEF Increasing
        <3>3. CASE j \notin DOMAIN s
            <4>1. j = Len(s) + 1
                BY <2>1, <3>3
            <4>. QED
                BY <2>1, <2>2, <3>1, <4>1
        <3>. QED
            BY <3>2, <3>3
    <2>. QED
        BY <2>3 DEF Increasing, t
<1>2. ASSUME s # <<>>
      PROVE  Increasing(Tail(s)) /\ \A v \in Range(Tail(s)) : Head(s) < v
    <2>. DEFINE t == Tail(s)
    <2>1. /\ Len(s) \in Nat /\ Len(s) > 0 /\ DOMAIN s = 1..Len(s) /\ Head(s) = s[1]
          /\ DOMAIN t = 1..Len(s) - 1
          /\ \A i \in DOMAIN t : t[i] = s[i + 1]
        BY <1>2, HeadTailProperties, EmptySeq
    <2>. HIDE DEF t
    <2>2. \A i \in DOMAIN t : i \in Int /\ i + 1 \in DOMAIN s /\ 1 \in DOMAIN s /\ 1 < i + 1
        BY <2>1
    <2>3. Increasing(t)
        BY <2>1, <2>2 DEF Increasing
    <2>4. \A i \in DOMAIN t : s[1] < t[i]
        BY <2>1, <2>2 DEF Increasing
    <2>. QED
        BY <2>1, <2>3, <2>4 DEF Range, t
<1>. QED
    BY <1>1, <1>2

\* #processNext on a live connection with nothing else to wait for leaves nothing unsent at the head.
LEMMA PumpInOrder ==
    ASSUME NEW c, Sane(c), c.connected, ~c.closed, c.waiting = <<>>, InOrder(c),
           c.item = None => c.request = "none",
           c.item # None => c.request # "none"
    PROVE  /\ Steady(Pump(c)) /\ InOrder(Pump(c))
           /\ Pump(c).closed = c.closed /\ Pump(c).waiting = <<>>
<1>1. /\ c \in Client /\ c.queue \in Seq(Writes) /\ IsInjective(c.queue)
    BY DEF Sane, Client, Distinct
<1>2. CASE c.request # "none"
    BY <1>2 DEF Pump, Steady
<1>3. CASE c.request = "none" /\ c.queue = <<>>
    <2>1. Pump(c) = c
        BY <1>3 DEF Pump, Shift, WriteItem
    <2>. QED
        BY <1>3, <2>1 DEF Steady
<1>4. CASE c.request = "none" /\ c.queue # <<>>
    <2>. DEFINE h == Head(c.queue)
                t == Tail(c.queue)
                d == [c EXCEPT !.item = h, !.queue = t]
    <2>1. /\ h \in Writes /\ t \in Seq(Writes) /\ Increasing(t)
          /\ \A v \in Range(t) : h < v
        BY <1>1, <1>4, HeadTailFacts, IncreasingFacts DEF InOrder
    <2>2. h # None
        BY <2>1, NoneIsNoWrite
    <2>3. Pump(c) = WriteItem(d)
        BY <1>4 DEF Pump, Shift
    <2>. HIDE DEF h, t
    <2>4. /\ d \in Client /\ d.item = h /\ d.queue = t /\ d.connected /\ d.waiting = <<>>
          /\ d.closed = c.closed
        BY <1>1, <2>1 DEF Client
    <2>. HIDE DEF d
    <2>5. Pump(c) = [d EXCEPT !.request = "sent"]
        BY <2>2, <2>3, <2>4 DEF WriteItem
    <2>6. /\ Pump(c).item = h /\ Pump(c).queue = t /\ Pump(c).connected
          /\ Pump(c).waiting = <<>> /\ Pump(c).closed = c.closed /\ Pump(c).request = "sent"
        BY <2>4, <2>5 DEF Client
    <2>7. Increasing(<<>>)
        BY DEF Increasing
    <2>. QED
        BY <2>1, <2>2, <2>6, <2>7 DEF Steady, InOrder
<1>. QED
    BY <1>2, <1>3, <1>4

\* The first connection: the fan-outs that waited for it become the queue.
LEMMA FirstConnection ==
    ASSUME NEW c, Sane(c), Steady(c), InOrder(c), ~c.connected, ~c.closed
    PROVE  LET d == Flush([c EXCEPT !.connected = TRUE])
           IN  Steady(d) /\ InOrder(d) /\ d.closed = c.closed /\ d.waiting = <<>>
<1>. DEFINE b == [c EXCEPT !.connected = TRUE]
            a == [b EXCEPT !.waiting = <<>>, !.queue = b.queue \o b.waiting]
<1>1. /\ c \in Client /\ c.waiting \in Seq(Writes) /\ c.queue = <<>> /\ c.item = None
      /\ c.request = "none"
    BY DEF Sane, Client, Steady
<1>2. b \in Client /\ b.queue = <<>> /\ b.waiting = c.waiting /\ b.item = None
      /\ b.request = "none" /\ b.connected /\ b.closed = c.closed
    BY <1>1 DEF Client
<1>3. b.queue \o b.waiting = c.waiting
    BY <1>1, <1>2, ConcatEmptySeq
<1>4. Range(<<>>) = {} /\ IsInjective(<<>>) /\ <<>> \in Seq(Writes) /\ Increasing(<<>>)
    BY DEF Range, IsInjective, Increasing
<1>5. Flush(b) = Pump(a)
    BY DEF Flush
<1>. HIDE DEF b
<1>6. a \in Client /\ a.queue = c.waiting /\ a.waiting = <<>> /\ a.item = None
      /\ a.request = "none" /\ a.connected /\ a.closed = c.closed
    BY <1>1, <1>2, <1>3, <1>4 DEF Client
<1>. HIDE DEF a
<1>7. Sane(a)
    BY <1>1, <1>4, <1>6 DEF Sane, Distinct
<1>8. InOrder(a)
    <2>1. \A w \in Range(c.waiting) : w \in Nat /\ None < w
        BY <1>1, SeqFacts, BoundsAssumption DEF None, Writes
    <2>. QED
        BY <1>4, <1>6, <2>1 DEF InOrder
<1>9. Steady(Pump(a)) /\ InOrder(Pump(a)) /\ Pump(a).closed = c.closed /\ Pump(a).waiting = <<>>
    BY <1>6, <1>7, <1>8, PumpInOrder
<1>. QED
    BY <1>5, <1>9 DEF b

\* An answer frees the client for its next line.
LEMMA AnswerInOrder ==
    ASSUME NEW c, Sane(c), Steady(c), InOrder(c), c.request # "none"
    PROVE  LET d == Pump([c EXCEPT !.item = None, !.request = "none"])
           IN  Steady(d) /\ InOrder(d) /\ d.closed = c.closed /\ d.waiting = <<>>
<1>. DEFINE b == [c EXCEPT !.item = None, !.request = "none"]
<1>1. /\ c \in Client /\ c.queue \in Seq(Writes) /\ c.connected /\ ~c.closed /\ c.waiting = <<>>
    BY DEF Sane, Client, Steady
<1>2. /\ b \in Client /\ b.queue = c.queue /\ b.waiting = <<>> /\ b.item = None
      /\ b.request = "none" /\ b.connected /\ b.closed = c.closed
    BY <1>1 DEF Client
<1>. HIDE DEF b
<1>3. Sane(b)
    <2>1. None \notin Range(c.queue) /\ None \notin Range(<<>>)
        BY <1>1, SeqFacts, NoneIsNoWrite DEF Range
    <2>. QED
        BY <1>1, <1>2, <2>1 DEF Sane, Distinct
<1>4. InOrder(b)
    <2>1. \A w \in Range(c.queue) : w \in Nat /\ None < w
        BY <1>1, SeqFacts, BoundsAssumption DEF None, Writes
    <2>. QED
        BY <1>1, <1>2, <2>1 DEF InOrder
<1>. QED
    BY <1>1, <1>2, <1>3, <1>4, PumpInOrder DEF b

\* A newer write goes behind everything there is.
LEMMA EnqueueInOrder ==
    ASSUME NEW c, Sane(c), Steady(c), InOrder(c), ~c.closed, NEW w \in Writes,
           \A v \in Writes : Holds(c, v) => v < w
    PROVE  LET d == Enqueue(c, w)
           IN  Steady(d) /\ InOrder(d) /\ d.closed = c.closed
<1>1. /\ c \in Client /\ c.queue \in Seq(Writes) /\ c.waiting \in Seq(Writes)
      /\ c.item \in Writes \cup {None}
    BY DEF Sane, Client
<1>2. /\ \A v \in Range(c.queue) : v < w
      /\ \A v \in Range(c.waiting) : v < w
      /\ c.item < w
    <2>1. Range(c.queue) \subseteq Writes /\ Range(c.waiting) \subseteq Writes
        BY <1>1, SeqFacts
    <2>2. None < w
        BY BoundsAssumption DEF None, Writes
    <2>. QED
        BY <1>1, <2>1, <2>2 DEF Holds
<1>3. ~Holds(c, w)
    <2>1. ~(w < w)
        BY BoundsAssumption DEF Writes
    <2>. QED
        BY <2>1
<1>4. /\ Increasing(Append(c.queue, w)) /\ Increasing(Append(c.waiting, w))
      /\ Append(c.queue, w) \in Seq(Writes) /\ Append(c.waiting, w) \in Seq(Writes)
      /\ Range(Append(c.queue, w)) = Range(c.queue) \cup {w}
    BY <1>1, <1>2, IncreasingFacts, AppendFacts DEF InOrder
<1>5. CASE ~c.connected
    <2>. DEFINE t == Append(c.waiting, w)
                d == [c EXCEPT !.waiting = t]
    <2>1. Enqueue(c, w) = d
        BY <1>1, <1>5 DEF Enqueue, Client
    <2>. HIDE DEF t
    <2>2. /\ d.waiting = t /\ d.queue = c.queue /\ d.item = c.item /\ d.connected = c.connected
          /\ d.closed = c.closed /\ d.request = c.request
        BY <1>1 DEF Client
    <2>3. Increasing(t)
        BY <1>4 DEF t
    <2>. HIDE DEF d
    <2>. QED
        BY <1>5, <2>1, <2>2, <2>3 DEF Steady, InOrder
<1>6. CASE c.connected
    <2>. DEFINE t == Append(c.queue, w)
                d == [c EXCEPT !.queue = t]
    <2>1. Enqueue(c, w) = Pump(d)
        BY <1>1, <1>6 DEF Enqueue, Client
    <2>2. /\ t \in Seq(Writes) /\ Increasing(t) /\ Range(t) = Range(c.queue) \cup {w}
          /\ IsInjective(t)
        BY <1>1, <1>3, <1>4, AppendFacts DEF Sane, Distinct, Holds
    <2>. HIDE DEF t
    <2>3. /\ d \in Client /\ d.waiting = c.waiting /\ d.queue = t /\ d.item = c.item
          /\ d.connected = c.connected /\ d.closed = c.closed /\ d.request = c.request
        BY <1>1, <2>2 DEF Client
    <2>. HIDE DEF d
    <2>4. c.waiting = <<>> /\ Range(<<>>) = {}
        BY <1>6 DEF Steady, Range
    <2>5. Sane(d)
        BY <1>2, <1>3, <2>2, <2>3, <2>4, NoneIsNoWrite DEF Sane, Distinct, Holds
    <2>6. InOrder(d)
        BY <1>2, <2>2, <2>3 DEF InOrder
    <2>7. (d.item = None => d.request = "none") /\ (d.item # None => d.request # "none")
        BY <1>6, <2>3 DEF Steady, Sane
    <2>. QED
        BY <1>6, <2>1, <2>3, <2>4, <2>5, <2>6, <2>7, PumpInOrder
<1>. QED
    BY <1>5, <1>6

-----------------------------------------------------------------------------
(* The order is kept                                                       *)

\* What p has from n's users is what it was, still in their order.
StoreKept(n, p) == From(n, p)' = From(n, p) /\ TakenInOrder(n, p)'

LEMMA SameStore ==
    ASSUME TypeOK, NEW n, NEW p \in Nodes, applied'[p] = applied[p],
           \A v \in Range(applied[p]) : issued'[v] = issued[v],
           TakenInOrder(n, p)
    PROVE  StoreKept(n, p)
<1>1. applied[p] \in Seq(Writes)
    BY DEF TypeOK
<1>2. \A i \in DOMAIN applied[p] : issued'[applied[p][i]] = issued[applied[p][i]]
    BY <1>1, SeqFacts
<1>3. TakenInOrder(n, p)'
    BY <1>2 DEF TakenInOrder
<1>4. From(n, p)' = From(n, p)
    BY DEF From
<1>. QED
    BY <1>3, <1>4 DEF StoreKept

LEMMA StoreTakes ==
    ASSUME TypeOK, NEW n, NEW p \in Nodes, NEW w \in Writes,
           applied'[p] = Append(applied[p], w),
           \A v \in Range(applied[p]) : issued'[v] = issued[v],
           TakenInOrder(n, p),
           issued'[w].node = n => \A v \in From(n, p) : v < w
    PROVE  /\ TakenInOrder(n, p)'
           /\ From(n, p)' = From(n, p) \cup {v \in {w} : issued'[v].node = n}
<1>. DEFINE s == applied[p]
            t == applied'[p]
<1>1. /\ s \in Seq(Writes) /\ Len(s) \in Nat /\ DOMAIN s = 1..Len(s)
      /\ DOMAIN t = 1..Len(s) + 1
      /\ \A i \in DOMAIN s : t[i] = s[i] /\ s[i] \in Range(s) /\ issued'[s[i]] = issued[s[i]]
      /\ t[Len(s) + 1] = w
      /\ Range(t) = Range(s) \cup {w}
    <2>1. s \in Seq(Writes)
        BY DEF TypeOK
    <2>2. t = Append(s, w)
        OBVIOUS
    <2>3. \A i \in DOMAIN s : issued'[s[i]] = issued[s[i]]
        BY <2>1, SeqFacts
    <2>. HIDE DEF s, t
    <2>. QED
        BY <2>1, <2>2, <2>3, AppendProperties, SeqFacts, AppendFacts
<1>2. From(n, p)' = From(n, p) \cup {v \in {w} : issued'[v].node = n}
    BY <1>1 DEF From
<1>3. ASSUME NEW i \in DOMAIN t, NEW j \in DOMAIN t, i < j,
             issued'[t[i]].node = n, issued'[t[j]].node = n
      PROVE  t[i] < t[j]
    <2>1. i \in DOMAIN s
        BY <1>1, <1>3
    <2>2. CASE j \in DOMAIN s
        BY <1>1, <1>3, <2>1, <2>2 DEF TakenInOrder
    <2>3. CASE j \notin DOMAIN s
        <3>1. j = Len(s) + 1
            BY <1>1, <1>3, <2>3
        <3>2. t[j] = w /\ issued'[w].node = n
            BY <1>1, <1>3, <3>1
        <3>3. s[i] \in From(n, p)
            BY <1>1, <1>3, <2>1 DEF From
        <3>4. t[i] = s[i] /\ s[i] < w
            BY <1>1, <2>1, <3>2, <3>3
        <3>. QED
            BY <3>2, <3>4
    <2>. QED
        BY <2>2, <2>3
<1>4. TakenInOrder(n, p)'
    BY <1>3 DEF TakenInOrder
<1>. QED
    BY <1>2, <1>4

\* A write p executes, from the user of another node or of n's own in their order.
LEMMA StoreExecutes ==
    ASSUME TypeOK, NEW n, NEW p \in Nodes, NEW w \in Writes,
           applied'[p] = applied[p] \/ applied'[p] = Append(applied[p], w),
           \A v \in Range(applied[p]) : issued'[v] = issued[v],
           TakenInOrder(n, p),
           issued'[w].node = n => \A v \in From(n, p) : v < w
    PROVE  /\ TakenInOrder(n, p)'
           /\ From(n, p) \subseteq From(n, p)'
           /\ \A v \in From(n, p)' : v \in From(n, p) \/ (v = w /\ issued'[w].node = n)
<1>1. CASE applied'[p] = applied[p]
    BY <1>1, SameStore DEF StoreKept
<1>2. CASE applied'[p] = Append(applied[p], w)
    BY <1>2, StoreTakes
<1>. QED
    BY <1>1, <1>2

\* A pair whose client lets writes go in order.
LEMMA OrderedLetsGo ==
    ASSUME NEW c \in Pairs, Ordered(c), StoreKept(c[1], c[2]),
           Steady(client'[c]), InOrder(client'[c]),
           client'[c].closed => engine'[c[1]].closed,
           \A w \in Writes : Holds(client'[c], w) => Holds(client[c], w),
           late'[c] = late[c],
           late[c] # {} => client'[c].closed /\ client'[c].waiting = <<>>
    PROVE  Ordered(c)'
BY DEF Ordered, StoreKept

LEMMA OrderedStays ==
    ASSUME NEW c \in Pairs, Ordered(c), StoreKept(c[1], c[2]),
           client'[c] = client[c], late'[c] = late[c],
           engine[c[1]].closed => engine'[c[1]].closed
    PROVE  Ordered(c)'
BY DEF Ordered, StoreKept

\* As ClientStepInv: a step of the client of pair d that leaves every store alone.
LEMMA ClientOrder ==
    ASSUME Inv, OrderInv, NEW d \in Pairs,
           UNCHANGED <<issued, applied, restarts>>,
           \A n \in Nodes : engine[n].closed => engine'[n].closed,
           \A c \in Pairs : c # d => client'[c] = client[c] /\ late'[c] = late[c]
                                       /\ lost'[c] = lost[c],
           (NoRestarts /\ ~lost'[d] /\ Ordered(d)) =>
               /\ Steady(client'[d]) /\ InOrder(client'[d])
               /\ client'[d].closed = client[d].closed
               /\ \A w \in Writes : Holds(client'[d], w) => Holds(client[d], w)
               /\ late'[d] = late[d]
               /\ client[d].waiting = <<>> => client'[d].waiting = <<>>,
           lost[d] => lost'[d]
    PROVE  OrderInv'
<1>1. TypeOK
    BY DEF Inv
<1>2. ASSUME NEW n \in Nodes, NEW p \in Nodes, TakenInOrder(n, p) PROVE StoreKept(n, p)
    BY <1>1, <1>2, SameStore
<1>3. OwnWritesInOrder'
    BY <1>2 DEF OrderInv, OwnWritesInOrder, StoreKept
<1>4. ASSUME NoRestarts', NEW c \in Pairs, ~lost'[c] PROVE Ordered(c)'
    <2>1. NoRestarts /\ ~lost[c] /\ c[1] \in Nodes /\ c[2] \in Nodes
        BY <1>4, PairFacts DEF NoRestarts
    <2>2. Ordered(c)
        BY <2>1 DEF OrderInv, OneConnectionInOrder
    <2>3. StoreKept(c[1], c[2])
        BY <1>2, <2>1, <2>2 DEF Ordered
    <2>4. CASE c # d
        BY <2>1, <2>2, <2>3, <2>4, OrderedStays
    <2>5. CASE c = d
        <3>1. /\ Steady(client'[d]) /\ InOrder(client'[d])
              /\ client'[d].closed = client[d].closed
              /\ \A w \in Writes : Holds(client'[d], w) => Holds(client[d], w)
              /\ late'[d] = late[d]
              /\ client[d].waiting = <<>> => client'[d].waiting = <<>>
            BY <1>4, <2>1, <2>2, <2>5
        <3>2. /\ client[d].closed => engine[d[1]].closed
              /\ late[d] # {} => client[d].closed /\ client[d].waiting = <<>>
            BY <2>2, <2>5 DEF Ordered
        <3>3. client'[d].closed => engine'[d[1]].closed
            BY <2>1, <2>5, <3>1, <3>2
        <3>. QED
            BY <2>2, <2>3, <2>5, <3>1, <3>2, <3>3, OrderedLetsGo
    <2>. QED
        BY <2>4, <2>5
<1>. QED
    BY <1>3, <1>4 DEF OrderInv, OneConnectionInOrder

\* close() alone closes an engine.
LEMMA SettleKeepsOpen ==
    ASSUME TypeOK, NEW p \in Nodes, NEW n \in Nodes, NEW W, NEW status, Settle(n, p, W, status)
    PROVE  \A m \in Nodes : engine[m].closed => engine'[m].closed
<1>0. /\ task' = [x \in Writes \X Nodes |-> IF x[1] \in W /\ x[2] = p THEN status ELSE task[x]]
      /\ engine' = [engine EXCEPT
            ![n].pending = @ - Finished(W, task'),
            ![n].succeeded[p] = @ + IF status = "succeeded" THEN Cardinality(W) ELSE 0,
            ![n].failed[p] = @ + IF status = "failed" THEN Cardinality(W) ELSE 0]
    BY DEF Settle
<1>. DEFINE x == Finished(W, task')
            y == IF status = "succeeded" THEN Cardinality(W) ELSE 0
            z == IF status = "failed" THEN Cardinality(W) ELSE 0
<1>1. engine' = [engine EXCEPT ![n].pending = @ - x, ![n].succeeded[p] = @ + y,
                               ![n].failed[p] = @ + z]
    BY <1>0
<1>. HIDE DEF x, y, z
<1>2. engine \in [Nodes -> Engine]
    BY DEF TypeOK
<1>3. \A m \in Nodes : engine'[m].closed = engine[m].closed
    BY <1>1, <1>2 DEF Engine
<1>. QED
    BY <1>3

\* The client of pair d goes from its state to e, on the connection it has or does not have.
LEMMA ClientMoveOrder ==
    ASSUME Inv, OrderInv, NEW d \in Pairs, NEW e,
           client' = [client EXCEPT ![d] = e],
           UNCHANGED <<issued, applied, late, lost, restarts>>,
           \A n \in Nodes : engine[n].closed => engine'[n].closed,
           Ordered(d) =>
               /\ Steady(e) /\ InOrder(e)
               /\ e.closed = client[d].closed
               /\ \A w \in Writes : Holds(e, w) => Holds(client[d], w)
               /\ client[d].waiting = <<>> => e.waiting = <<>>
    PROVE  OrderInv'
<1>1. client'[d] = e /\ \A c \in Pairs : c # d => client'[c] = client[c]
    BY DEF Inv, TypeOK
<1>2. /\ \A c \in Pairs : c # d => client'[c] = client[c] /\ late'[c] = late[c]
                                     /\ lost'[c] = lost[c]
      /\ lost[d] => lost'[d]
    BY <1>1
<1>3. (NoRestarts /\ ~lost'[d] /\ Ordered(d)) =>
               /\ Steady(client'[d]) /\ InOrder(client'[d])
               /\ client'[d].closed = client[d].closed
               /\ \A w \in Writes : Holds(client'[d], w) => Holds(client[d], w)
               /\ late'[d] = late[d]
               /\ client[d].waiting = <<>> => client'[d].waiting = <<>>
    BY <1>1
<1>. QED
    BY <1>2, <1>3, ClientOrder

LEMMA ConnectForWaitingOrder ==
    ASSUME Inv, OrderInv, NEW c \in Pairs, ConnectForWaiting(c[1], c[2])
    PROVE  OrderInv'
<1>. DEFINE b == [client[c] EXCEPT !.connected = TRUE]
            d == Flush(b)
<1>1. c = <<c[1], c[2]>> /\ Sane(client[c]) /\ client[c] \in Client
    BY PairFacts, SaneClients DEF Inv, Sane
<1>2. /\ ~client[c].connected /\ ~client[c].closed
      /\ client' = [client EXCEPT ![c] = d]
      /\ UNCHANGED <<issued, applied, engine, late, task, lost, restarts>>
    BY <1>1 DEF ConnectForWaiting
<1>3. LetsGo(client[c], b, {}) /\ Sane(b)
    <2>1. client[c].request = "none"
        BY <1>1, <1>2 DEF Sane
    <2>. QED
        BY <1>1, <2>1, ConnectionFacts
<1>4. LetsGo(client[c], d, {})
    BY <1>3, FlushFacts, LetsGoOn
<1>5. ASSUME Ordered(c)
      PROVE  Steady(d) /\ InOrder(d) /\ d.closed = client[c].closed /\ d.waiting = <<>>
    <2>1. Steady(client[c]) /\ InOrder(client[c])
        BY <1>5 DEF Ordered
    <2>. QED
        BY <1>1, <1>2, <2>1, FirstConnection
<1>6. \A w \in Writes : Holds(d, w) => Holds(client[c], w)
    BY <1>4 DEF LetsGo
<1>. HIDE DEF d
<1>. QED
    BY <1>2, <1>5, <1>6, ClientMoveOrder

\* On a pair that never lost its connection, the queue's loop never waits for one, ...
LEMMA ConnectForQueueOrder ==
    ASSUME Inv, OrderInv, NEW c \in Pairs, ConnectForQueue(c[1], c[2])
    PROVE  OrderInv'
<1>. DEFINE d == Pump([client[c] EXCEPT !.connected = TRUE])
<1>1. c = <<c[1], c[2]>>
    BY PairFacts
<1>2. /\ ~client[c].connected /\ client[c].item # None
      /\ client' = [client EXCEPT ![c] = d]
      /\ UNCHANGED <<issued, applied, engine, late, task, lost, restarts>>
    BY <1>1 DEF ConnectForQueue
<1>3. ~Ordered(c)
    BY <1>2 DEF Ordered, Steady
<1>. HIDE DEF d
<1>. QED
    BY <1>2, <1>3, ClientMoveOrder

\* ... no fan-out waits while there is a connection, ...
LEMMA WaitingResumesOrder ==
    ASSUME Inv, OrderInv, NEW c \in Pairs, WaitingResumes(c[1], c[2])
    PROVE  OrderInv'
<1>. DEFINE d == Flush(client[c])
<1>1. c = <<c[1], c[2]>>
    BY PairFacts
<1>2. /\ client[c].connected /\ client[c].waiting # <<>>
      /\ client' = [client EXCEPT ![c] = d]
      /\ UNCHANGED <<issued, applied, engine, late, task, lost, restarts>>
    BY <1>1 DEF WaitingResumes
<1>3. ~Ordered(c)
    BY <1>2 DEF Ordered, Steady
<1>. HIDE DEF d
<1>. QED
    BY <1>2, <1>3, ClientMoveOrder

LEMMA WaitingFailsOrder ==
    ASSUME Inv, OrderInv, NEW c \in Pairs, WaitingFails(c[1], c[2])
    PROVE  OrderInv'
<1>. DEFINE d == [client[c] EXCEPT !.waiting = <<>>]
            W == Range(client[c].waiting)
<1>1. /\ c = <<c[1], c[2]>> /\ c[1] \in Nodes /\ c[2] \in Nodes
      /\ client[c] \in Client /\ client \in [Pairs -> Client] /\ TypeOK
    BY PairFacts DEF Inv, TypeOK
<1>2. /\ Settle(c[1], c[2], W, "failed")
      /\ client' = [client EXCEPT ![c].waiting = <<>>]
      /\ UNCHANGED <<issued, applied, late, lost, restarts>>
    BY <1>1 DEF WaitingFails
<1>3. client' = [client EXCEPT ![c] = d]
    BY <1>1, <1>2
<1>4. /\ d.waiting = <<>> /\ d.queue = client[c].queue /\ d.item = client[c].item
      /\ d.connected = client[c].connected /\ d.closed = client[c].closed
      /\ d.request = client[c].request
    BY <1>1 DEF Client
<1>. HIDE DEF d, W
<1>5. Increasing(<<>>) /\ Range(<<>>) = {}
    BY DEF Increasing, Range
<1>6. Ordered(c) => Steady(d) /\ InOrder(d)
    BY <1>4, <1>5 DEF Ordered, Steady, InOrder
<1>7. \A w \in Writes : Holds(d, w) => Holds(client[c], w)
    BY <1>4, <1>5 DEF Holds
<1>8. \A n \in Nodes : engine[n].closed => engine'[n].closed
    BY <1>1, <1>2, SettleKeepsOpen
<1>. QED
    BY <1>2, <1>3, <1>4, <1>6, <1>7, <1>8, ClientMoveOrder

\* ... and no item runs out of attempts.
LEMMA ItemFailsOrder ==
    ASSUME Inv, OrderInv, NEW c \in Pairs, ItemFails(c[1], c[2])
    PROVE  OrderInv'
<1>. DEFINE d == Pump([client[c] EXCEPT !.item = None])
<1>1. c = <<c[1], c[2]>> /\ c[1] \in Nodes /\ c[2] \in Nodes /\ TypeOK
    BY PairFacts DEF Inv
<1>2. /\ Settle(c[1], c[2], {client[c].item}, "failed")
      /\ ~client[c].connected /\ client[c].item # None
      /\ client' = [client EXCEPT ![c] = d]
      /\ UNCHANGED <<issued, applied, late, lost, restarts>>
    BY <1>1 DEF ItemFails
<1>3. ~Ordered(c)
    BY <1>2 DEF Ordered, Steady
<1>4. \A n \in Nodes : engine[n].closed => engine'[n].closed
    BY <1>1, <1>2, SettleKeepsOpen
<1>. HIDE DEF d
<1>. QED
    BY <1>2, <1>3, <1>4, ClientMoveOrder

LEMMA AnswerOrder ==
    ASSUME Inv, OrderInv, NEW c \in Pairs, Answer(c[1], c[2])
    PROVE  OrderInv'
<1>. DEFINE b == [client[c] EXCEPT !.item = None, !.request = "none"]
            d == Pump(b)
            status == AnswerOf(client[c])
<1>1. /\ c = <<c[1], c[2]>> /\ c[1] \in Nodes /\ c[2] \in Nodes /\ TypeOK
      /\ Sane(client[c]) /\ client[c] \in Client
    BY PairFacts, SaneClients DEF Inv, Sane
<1>2. /\ Settle(c[1], c[2], {client[c].item}, status)
      /\ client[c].request \in {"OK", "ERR"}
      /\ client' = [client EXCEPT ![c] = d]
      /\ UNCHANGED <<issued, applied, late, lost, restarts>>
    BY <1>1 DEF Answer
<1>3. /\ b \in Client /\ b.waiting = client[c].waiting /\ b.queue = client[c].queue
      /\ b.item = None /\ b.request = "none"
    BY <1>1, <1>2 DEF Client
<1>4. ASSUME Ordered(c)
      PROVE  Steady(d) /\ InOrder(d) /\ d.closed = client[c].closed /\ d.waiting = <<>>
    <2>1. Steady(client[c]) /\ InOrder(client[c]) /\ client[c].request # "none"
        BY <1>2, <1>4 DEF Ordered
    <2>. DEFINE e == client[c]
    <2>2. /\ Sane(e) /\ Steady(e) /\ InOrder(e) /\ e.request # "none"
          /\ d = Pump([e EXCEPT !.item = None, !.request = "none"])
        BY <1>1, <2>1
    <2>. HIDE DEF e, d
    <2>3. Steady(d) /\ InOrder(d) /\ d.closed = e.closed /\ d.waiting = <<>>
        BY <2>2, AnswerInOrder, Zenon
    <2>. QED
        BY <2>3 DEF e
<1>5. LetsGo(client[c], d, {client[c].item})
    <2>. HIDE DEF b
    <2>. QED
        BY <1>1, <1>3, DropItemFacts
<1>6. \A w \in Writes : Holds(d, w) => Holds(client[c], w)
    BY <1>5 DEF LetsGo
<1>7. \A n \in Nodes : engine[n].closed => engine'[n].closed
    <2>. HIDE DEF status
    <2>. QED
        BY <1>1, <1>2, SettleKeepsOpen
<1>. HIDE DEF d, status
<1>. QED
    BY <1>2, <1>4, <1>6, <1>7, ClientMoveOrder

\* A pair that loses its connection is out of the matter.
LEMMA LoseConnectionOrder ==
    ASSUME Inv, OrderInv, NEW c \in Pairs, LoseConnection(c[1], c[2])
    PROVE  OrderInv'
<1>. DEFINE d == Disconnect(client[c])
<1>1. /\ c = <<c[1], c[2]>> /\ c[1] \in Nodes /\ c[2] \in Nodes /\ TypeOK
    BY PairFacts DEF Inv
<1>2. /\ lost' = [lost EXCEPT ![c] = TRUE]
      /\ client' = [client EXCEPT ![c] = d]
      /\ IF client[c].request = "none" THEN UNCHANGED <<engine, task>>
           ELSE Settle(c[1], c[2], {client[c].item}, "failed")
      /\ UNCHANGED <<issued, applied, restarts>>
    BY <1>1 DEF LoseConnection
<1>3. PICK rest \in MayLinger(client[c]) : late' = [late EXCEPT ![c] = @ \cup rest]
    BY <1>1 DEF LoseConnection
<1>4. \A n \in Nodes : engine[n].closed => engine'[n].closed
    BY <1>1, <1>2, SettleKeepsOpen
<1>. HIDE DEF d
<1>5. /\ lost'[c]
      /\ \A b \in Pairs : b # c => client'[b] = client[b] /\ late'[b] = late[b]
                                     /\ lost'[b] = lost[b]
    BY <1>1, <1>2, <1>3 DEF TypeOK
<1>. QED
    BY <1>2, <1>4, <1>5, ClientOrder

\* Peer d[2] takes write w of d[1]'s user, from the connection or late.
LEMMA TakeOrder ==
    ASSUME Inv, OrderInv, NEW d \in Pairs, NEW w \in Writes,
           issued[w].node = d[1], w \notin Range(applied[d[2]]),
           UNCHANGED <<issued, engine, lost, restarts>>,
           applied' = [applied EXCEPT ![d[2]] = Execute(d[2], w, issued)],
           \A c \in Pairs : c # d => client'[c] = client[c] /\ late'[c] = late[c],
           Ordered(d) =>
               /\ Steady(client'[d]) /\ InOrder(client'[d])
               /\ client'[d].closed = client[d].closed
               /\ client'[d].waiting = client[d].waiting
               /\ \A v \in Writes : Holds(client'[d], v) => Holds(client[d], v)
               /\ late'[d] \subseteq late[d]
               /\ Holds(client[d], w) \/ w \in late[d]
               /\ \A v \in Writes : Holds(client'[d], v) \/ v \in late'[d] => w <= v
    PROVE  OrderInv'
<1>1. /\ TypeOK /\ d[1] \in Nodes /\ d[2] \in Nodes /\ d[1] # d[2] /\ d = <<d[1], d[2]>>
    BY PairFacts DEF Inv
<1>2. /\ applied'[d[2]] = applied[d[2]] \/ applied'[d[2]] = Append(applied[d[2]], w)
      /\ \A p \in Nodes : p # d[2] => applied'[p] = applied[p]
    BY <1>1 DEF TypeOK, Execute
<1>3. ASSUME NEW n, NEW p \in Nodes, TakenInOrder(n, p), p = d[2] => n # d[1]
      PROVE  TakenInOrder(n, p)' /\ From(n, p)' = From(n, p)
    <2>1. CASE p # d[2]
        BY <1>1, <1>2, <1>3, <2>1, SameStore DEF StoreKept
    <2>2. CASE p = d[2]
        <3>1. issued'[w].node # n
            BY <1>3, <2>2
        <3>2. /\ TakenInOrder(n, p)'
              /\ From(n, p) \subseteq From(n, p)'
              /\ \A v \in From(n, p)' : v \in From(n, p) \/ (v = w /\ issued'[w].node = n)
            BY <1>1, <1>2, <1>3, <2>2, <3>1, StoreExecutes
        <3>. QED
            BY <3>1, <3>2
    <2>. QED
        BY <2>1, <2>2
<1>4. OwnWritesInOrder'
    <2>. SUFFICES ASSUME NEW n \in Nodes
                  PROVE  /\ TakenInOrder(n, n)'
                         /\ restarts[n] = 0 => \A v \in DOMAIN issued :
                              issued[v].node = n /\ issued[v].command \notin Refused[n]
                                => v \in Range(applied'[n])
        BY DEF OwnWritesInOrder
    <2>1. /\ TakenInOrder(n, n)
          /\ restarts[n] = 0 => \A v \in DOMAIN issued :
               issued[v].node = n /\ issued[v].command \notin Refused[n]
                 => v \in Range(applied[n])
        BY DEF OrderInv, OwnWritesInOrder
    <2>2. TakenInOrder(n, n)' /\ From(n, n)' = From(n, n)
        BY <1>1, <1>3, <2>1
    <2>3. \A v \in Range(applied[n]) : issued[v].node = n => v \in Range(applied'[n])
        BY <2>2 DEF From
    <2>. QED
        BY <2>1, <2>2, <2>3
<1>5. ASSUME NoRestarts', NEW c \in Pairs, ~lost'[c] PROVE Ordered(c)'
    <2>1. Ordered(c) /\ c[1] \in Nodes /\ c[2] \in Nodes /\ c = <<c[1], c[2]>>
        BY <1>5, PairFacts DEF NoRestarts, OrderInv, OneConnectionInOrder
    <2>2. TakenInOrder(c[1], c[2])
        BY <2>1 DEF Ordered
    <2>3. CASE c # d
        <3>1. c[2] = d[2] => c[1] # d[1]
            BY <1>1, <2>1, <2>3, Zenon
        <3>2. StoreKept(c[1], c[2])
            BY <1>3, <2>1, <2>2, <3>1 DEF StoreKept
        <3>. QED
            BY <2>1, <2>3, <3>2, OrderedStays
    <2>4. CASE c = d
        <3>0. Ordered(d)
            BY <2>1, <2>4
        <3>1. /\ Steady(client'[d]) /\ InOrder(client'[d])
              /\ client'[d].closed = client[d].closed
              /\ client'[d].waiting = client[d].waiting
              /\ \A v \in Writes : Holds(client'[d], v) => Holds(client[d], v)
              /\ late'[d] \subseteq late[d]
              /\ Holds(client[d], w) \/ w \in late[d]
              /\ \A v \in Writes : Holds(client'[d], v) \/ v \in late'[d] => w <= v
            BY <3>0
        <3>2. \A v \in From(d[1], d[2]) : v < w
            <4>. SUFFICES ASSUME NEW v \in From(d[1], d[2]) PROVE v < w
                OBVIOUS
            <4>1. v <= w /\ v \in Range(applied[d[2]])
                BY <3>0, <3>1 DEF Ordered, From
            <4>2. v \in Writes /\ v # w
                BY <1>1, <4>1, SeqFacts DEF TypeOK
            <4>. QED
                BY <4>1, <4>2 DEF Writes
        <3>3. TakenInOrder(d[1], d[2])
            BY <3>0 DEF Ordered
        <3>4. /\ TakenInOrder(d[1], d[2])'
              /\ \A v \in From(d[1], d[2])' : v \in From(d[1], d[2]) \/ v = w
            BY <1>1, <1>2, <3>2, <3>3, StoreExecutes
        <3>5. \A v \in From(d[1], d[2])', u \in Writes :
                Holds(client'[d], u) \/ u \in late'[d] => v <= u
            BY <3>0, <3>1, <3>4 DEF Ordered
        <3>6. client'[d].closed => engine'[d[1]].closed
            BY <3>0, <3>1 DEF Ordered
        <3>7. /\ late'[d] # {} => client'[d].closed /\ client'[d].waiting = <<>>
              /\ \A v, u \in late'[d] : v = u
            BY <3>0, <3>1 DEF Ordered
        <3>. QED
            BY <2>4, <3>1, <3>4, <3>5, <3>6, <3>7 DEF Ordered
    <2>. QED
        BY <2>3, <2>4
<1>. QED
    BY <1>4, <1>5 DEF OrderInv, OneConnectionInOrder

LEMMA PeerExecutesOrder ==
    ASSUME Inv, OrderInv, NEW c \in Pairs, PeerExecutes(c[1], c[2])
    PROVE  OrderInv'
<1>. DEFINE w == client[c].item
            answer == IF issued[w].command \in Refused[c[2]] THEN "ERR" ELSE "OK"
            d == [client[c] EXCEPT !.request = answer]
<1>1. /\ TypeOK /\ ClientHoldsPending
      /\ c = <<c[1], c[2]>> /\ Sane(client[c]) /\ client[c] \in Client
      /\ client \in [Pairs -> Client]
    BY PairFacts, SaneClients DEF Inv, Sane, TypeOK
<1>2. /\ client[c].request = "sent"
      /\ applied' = [applied EXCEPT ![c[2]] = Execute(c[2], w, issued)]
      /\ client' = [client EXCEPT ![c].request = answer]
      /\ UNCHANGED <<issued, engine, late, task, lost, restarts>>
    BY <1>1 DEF PeerExecutes
<1>3. w \in Writes /\ Holds(client[c], w) /\ Unsent(client[c], w)
    BY <1>1, <1>2 DEF Client, Holds, Unsent, Sane
<1>4. issued[w].node = c[1] /\ w \notin Range(applied[c[2]])
    BY <1>1, <1>3 DEF ClientHoldsPending
<1>5. answer # "none"
    OBVIOUS
<1>. HIDE DEF answer
<1>6. /\ client'[c] = d
      /\ \A b \in Pairs : b # c => client'[b] = client[b]
    BY <1>1, <1>2
<1>7. /\ d.item = w /\ d.queue = client[c].queue /\ d.waiting = client[c].waiting
      /\ d.connected = client[c].connected /\ d.closed = client[c].closed /\ d.request = answer
    BY <1>1 DEF Client
<1>. HIDE DEF d
<1>8. ASSUME Ordered(c)
      PROVE  /\ Steady(d) /\ InOrder(d)
             /\ late[c] = {}
             /\ \A v \in Writes : Holds(d, v) => w <= v
    <2>1. /\ client[c].connected /\ client[c].waiting = <<>> /\ ~client[c].closed
          /\ Steady(client[c]) /\ InOrder(client[c])
        BY <1>1, <1>2, <1>8 DEF Sane, Ordered, Steady
    <2>2. Steady(d) /\ InOrder(d)
        BY <1>5, <1>7, <2>1 DEF Steady, InOrder
    <2>3. late[c] = {}
        BY <1>8, <2>1 DEF Ordered
    <2>4. Range(<<>>) = {} /\ \A v \in Writes : v <= v /\ \A u \in Writes : u < v => u <= v
        BY BoundsAssumption DEF Range, Writes
    <2>5. \A v \in Writes : Holds(d, v) => w <= v
        BY <1>3, <1>7, <2>1, <2>4 DEF Holds, InOrder
    <2>. QED
        BY <2>2, <2>3, <2>5
<1>9. \A v \in Writes : Holds(d, v) => Holds(client[c], v)
    BY <1>7 DEF Holds
<1>. HIDE DEF w
<1>. QED
    BY <1>2, <1>3, <1>4, <1>6, <1>7, <1>8, <1>9, TakeOrder

LEMMA LateArrivalOrder ==
    ASSUME Inv, OrderInv, NEW c \in Pairs, NEW w \in Writes, LateArrival(c[1], c[2], w)
    PROVE  OrderInv'
<1>1. /\ TypeOK /\ c = <<c[1], c[2]>>
    BY PairFacts DEF Inv
<1>2. /\ w \in late[c]
      /\ late' = [late EXCEPT ![c] = @ \ {w}]
      /\ applied' = [applied EXCEPT ![c[2]] = Execute(c[2], w, issued)]
      /\ UNCHANGED <<issued, engine, client, task, lost, restarts>>
    BY <1>1 DEF LateArrival
<1>3. issued[w].node = c[1] /\ w \notin Range(applied[c[2]])
    BY <1>2 DEF Inv, LateLinesAreGivenUp
<1>4. /\ late'[c] = late[c] \ {w}
      /\ \A b \in Pairs : b # c => late'[b] = late[b]
    BY <1>1, <1>2 DEF TypeOK
<1>5. ASSUME Ordered(c)
      PROVE  /\ late'[c] = {} /\ Steady(client[c]) /\ InOrder(client[c])
             /\ \A v \in Writes : ~Holds(client[c], v)
    <2>1. /\ client[c].closed /\ client[c].waiting = <<>> /\ Steady(client[c])
          /\ InOrder(client[c]) /\ \A v \in late[c] : v = w
        BY <1>2, <1>5 DEF Ordered
    <2>2. client[c].queue = <<>> /\ client[c].item = None /\ Range(<<>>) = {}
        BY <2>1 DEF Steady, Range
    <2>3. \A v \in Writes : ~Holds(client[c], v)
        BY <2>1, <2>2, NoneIsNoWrite DEF Holds
    <2>. QED
        BY <1>4, <2>1, <2>3
<1>. QED
    BY <1>2, <1>3, <1>4, <1>5, TakeOrder

LEMMA UserWriteOrder ==
    ASSUME Inv, OrderInv, NEW n \in Nodes, NEW k \in Keys, NEW command \in Commands,
           UserWrite(n, k, command)
    PROVE  OrderInv'
<1>. DEFINE w == Len(issued) + 1
            r == [node |-> n, key |-> k, command |-> command]
            T == [node : Nodes, key : Keys, command : Commands]
<1>1. /\ w \in Writes /\ issued' = Append(issued, r)
      /\ applied' = [applied EXCEPT ![n] = Execute(n, w, issued')]
      /\ \/ Primary(k) = n /\ Schedule(n, k, w)
         \/ UNCHANGED <<engine, client, task>>
      /\ UNCHANGED <<late, lost, restarts>>
    BY DEF UserWrite
<1>2. /\ TypeOK /\ issued \in Seq(T) /\ engine \in [Nodes -> Engine]
      /\ applied \in [Nodes -> Seq(Writes)]
    BY DEF Inv, TypeOK
<1>3. /\ DOMAIN issued' = DOMAIN issued \cup {w}
      /\ \A v \in DOMAIN issued : v < w /\ issued'[v] = issued[v]
      /\ issued'[w].node = n /\ issued'[w].command = command
    <2>1. r \in T /\ r.node = n /\ r.command = command
        OBVIOUS
    <2>. HIDE DEF T, r
    <2>2. /\ DOMAIN issued = 1..Len(issued) /\ Len(issued) \in Nat
          /\ DOMAIN issued' = 1..Len(issued) + 1
          /\ \A v \in 1..Len(issued) : issued'[v] = issued[v]
          /\ issued'[Len(issued) + 1] = r
        BY <1>1, <1>2, <2>1, AppendProperties
    <2>. QED
        BY <2>1, <2>2
<1>. HIDE DEF w, r, T
<1>4. w \notin DOMAIN issued
    <2>1. ~(w < w)
        BY <1>1 DEF Writes
    <2>. QED
        BY <1>3, <2>1
<1>5. /\ applied'[n] = Execute(n, w, issued')
      /\ \A p \in Nodes : p # n => applied'[p] = applied[p]
      /\ \A p \in Nodes : \A v \in Range(applied[p]) : v \in DOMAIN issued /\ issued'[v] = issued[v]
    BY <1>1, <1>2, <1>3 DEF Inv, TakenWereIssued
<1>6. \A m \in Nodes : engine[m].closed = engine'[m].closed
    <2>1. CASE UNCHANGED engine
        BY <2>1
    <2>2. CASE engine' = [engine EXCEPT ![n].dropped = @ + 1]
        BY <1>2, <2>2 DEF Engine
    <2>3. ASSUME engine' = [engine EXCEPT
                     ![n].pending = @ + 1,
                     ![n].attempted = [p \in Nodes |-> IF p \in Peers(k, n) THEN @[p] + 1 ELSE @[p]]]
          PROVE  \A m \in Nodes : engine[m].closed = engine'[m].closed
        <3>. DEFINE A == [p \in Nodes |-> IF p \in Peers(k, n) THEN engine[n].attempted[p] + 1
                                                              ELSE engine[n].attempted[p]]
        <3>1. engine' = [engine EXCEPT ![n].pending = @ + 1, ![n].attempted = A]
            BY <2>3
        <3>. HIDE DEF A
        <3>. QED
            BY <1>2, <3>1 DEF Engine
    <2>. QED
        BY <1>1, <2>1, <2>2, <2>3 DEF Schedule
<1>7. ASSUME NEW m, NEW p \in Nodes, TakenInOrder(m, p)
      PROVE  /\ TakenInOrder(m, p)'
             /\ From(m, p) \subseteq From(m, p)'
             /\ m # p \/ n # p => StoreKept(m, p)
    <2>1. CASE p # n
        BY <1>2, <1>5, <1>7, <2>1, SameStore DEF StoreKept
    <2>2. CASE p = n
        <3>1. \A v \in From(m, p) : v < w
            BY <1>3, <1>5 DEF From
        <3>2. /\ TakenInOrder(m, p)'
              /\ From(m, p) \subseteq From(m, p)'
              /\ \A v \in From(m, p)' : v \in From(m, p) \/ (v = w /\ issued'[w].node = m)
            <4>1. applied'[p] = applied[p] \/ applied'[p] = Append(applied[p], w)
                BY <1>5, <2>2 DEF Execute
            <4>2. \A v \in Range(applied[p]) : issued'[v] = issued[v]
                BY <1>5
            <4>. QED
                BY <1>1, <1>2, <1>7, <3>1, <4>1, <4>2, StoreExecutes
        <3>3. m # p => StoreKept(m, p)
            BY <1>3, <2>2, <3>2 DEF StoreKept
        <3>. QED
            BY <2>2, <3>2, <3>3
    <2>. QED
        BY <2>1, <2>2
<1>8. OwnWritesInOrder'
    <2>. SUFFICES ASSUME NEW m \in Nodes
                  PROVE  /\ TakenInOrder(m, m)'
                         /\ restarts[m] = 0 => \A v \in DOMAIN issued' :
                              issued'[v].node = m /\ issued'[v].command \notin Refused[m]
                                => v \in Range(applied'[m])
        BY <1>1 DEF OwnWritesInOrder
    <2>1. /\ TakenInOrder(m, m)
          /\ restarts[m] = 0 => \A v \in DOMAIN issued :
               issued[v].node = m /\ issued[v].command \notin Refused[m]
                 => v \in Range(applied[m])
        BY DEF OrderInv, OwnWritesInOrder
    <2>2. TakenInOrder(m, m)' /\ From(m, m) \subseteq From(m, m)'
        BY <1>7, <2>1
    <2>3. ASSUME restarts[m] = 0, NEW v \in DOMAIN issued', issued'[v].node = m,
                 issued'[v].command \notin Refused[m]
          PROVE  v \in Range(applied'[m])
        <3>1. CASE v = w
            <4>1. m = n /\ issued'[w].command \notin Refused[n]
                BY <1>3, <2>3, <3>1
            <4>2. applied'[n] = Append(applied[n], w)
                BY <1>5, <4>1 DEF Execute
            <4>3. applied[n] \in Seq(Writes)
                BY <1>2
            <4>4. w \in Range(Append(applied[n], w))
                BY <1>1, <4>3, AppendFacts
            <4>. QED
                BY <3>1, <4>1, <4>2, <4>4
        <3>2. CASE v \in DOMAIN issued
            <4>1. v \in From(m, m)
                BY <1>3, <2>1, <2>3, <3>2 DEF From
            <4>. QED
                BY <2>2, <4>1 DEF From
        <3>. QED
            BY <1>3, <2>3, <3>1, <3>2
    <2>. QED
        BY <2>2, <2>3
<1>9. ASSUME NoRestarts', NEW c \in Pairs, ~lost'[c] PROVE Ordered(c)'
    <2>1. /\ Ordered(c) /\ c[1] \in Nodes /\ c[2] \in Nodes /\ c[1] # c[2]
          /\ Sane(client[c])
        BY <1>1, <1>9, PairFacts, SaneClients
            DEF NoRestarts, OrderInv, OneConnectionInOrder, Inv
    <2>2. TakenInOrder(c[1], c[2])
        BY <2>1 DEF Ordered
    <2>3. StoreKept(c[1], c[2])
        BY <1>7, <2>1, <2>2
    <2>4. CASE client'[c] = client[c]
        BY <1>1, <1>6, <2>1, <2>3, <2>4, OrderedStays
    <2>5. CASE client'[c] # client[c]
        <3>1. /\ ~engine[n].closed /\ c[1] = n
              /\ client'[c] = Enqueue(client[c], w)
            BY <1>1, <2>5 DEF Schedule
        <3>2. /\ Steady(client[c]) /\ InOrder(client[c]) /\ ~client[c].closed
              /\ late[c] = {}
            BY <2>1, <3>1 DEF Ordered
        <3>3. \A v \in Writes : Holds(client[c], v) => v < w
            BY <1>3 DEF Inv, ClientHoldsPending
        <3>4. /\ Steady(client'[c]) /\ InOrder(client'[c])
              /\ client'[c].closed = client[c].closed
            BY <1>1, <2>1, <3>1, <3>2, <3>3, EnqueueInOrder
        <3>5. ~Holds(client[c], w)
            BY <1>1, <1>4, UnissuedFacts
        <3>6. \A v \in Writes : Holds(client'[c], v) => Holds(client[c], v) \/ v = w
            BY <1>1, <2>1, <3>1, <3>5, EnqueueFacts
        <3>7. \A v \in From(c[1], c[2]) : v <= w
            <4>1. \A v \in From(c[1], c[2]) : v \in Writes /\ v < w
                BY <1>2, <1>3, <1>5, <2>1 DEF From, Inv, IssuedAreWrites
            <4>. QED
                BY <1>1, <4>1 DEF Writes
        <3>8. \A v \in From(c[1], c[2])', u \in Writes :
                Holds(client'[c], u) \/ u \in late'[c] => v <= u
            BY <1>1, <2>1, <2>3, <3>2, <3>6, <3>7 DEF Ordered, StoreKept
        <3>. QED
            BY <1>1, <2>1, <2>3, <3>2, <3>4, <3>8 DEF Ordered, StoreKept
    <2>. QED
        BY <2>4, <2>5
<1>. QED
    BY <1>8, <1>9 DEF OrderInv, OneConnectionInOrder

\* close() ends the one connection: what was on it may come last of all, and nothing after.
LEMMA CloseEngineOrder ==
    ASSUME Inv, OrderInv, NEW n \in Nodes, CloseEngine(n)
    PROVE  OrderInv'
<1>1. CloseCountsAt(n) /\ ClosesClients(n) /\ ~engine[n].closed
    BY CloseEngineIs DEF CloseEngine
<1>2. TypeOK /\ engine \in [Nodes -> Engine]
    BY DEF Inv, TypeOK
<1>3. /\ client' = [c \in Pairs |-> IF c[1] = n THEN Shut(client[c]) ELSE client[c]]
      /\ UNCHANGED <<issued, applied, lost, restarts>>
    BY <1>1 DEF ClosesClients
<1>4. PICK rest \in [{c \in Pairs : c[1] = n} -> SUBSET Writes] :
         /\ \A c \in DOMAIN rest : rest[c] \in MayLinger(client[c])
         /\ late' = [c \in Pairs |-> late[c] \cup IF c[1] = n THEN rest[c] ELSE {}]
    BY <1>1 DEF ClosesClients
<1>5. engine'[n].closed /\ \A m \in Nodes : engine[m].closed => engine'[m].closed
    <2>. DEFINE x == Cardinality({w \in Writes : Open(w, task) /\ ~Open(w, task')})
                F == [p \in Nodes |-> engine[n].failed[p] + Cardinality(RejectedAt(n)[p])]
    <2>1. engine' = [engine EXCEPT ![n] = Closed(engine[n], x, F)]
        BY <1>1 DEF CloseCountsAt
    <2>. HIDE DEF x, F
    <2>2. Closed(engine[n], x, F).closed
        BY <1>2 DEF Closed, Engine
    <2>. QED
        BY <1>2, <2>1, <2>2
<1>6. ASSUME NEW m, NEW p \in Nodes, TakenInOrder(m, p) PROVE StoreKept(m, p)
    BY <1>2, <1>3, <1>6, SameStore
<1>7. OwnWritesInOrder'
    BY <1>3, <1>6 DEF OrderInv, OwnWritesInOrder, StoreKept
<1>8. ASSUME NoRestarts', NEW c \in Pairs, ~lost'[c] PROVE Ordered(c)'
    <2>1. /\ Ordered(c) /\ c[1] \in Nodes /\ c[2] \in Nodes
          /\ Sane(client[c]) /\ client[c] \in Client
        BY <1>3, <1>8, PairFacts, SaneClients
            DEF NoRestarts, OrderInv, OneConnectionInOrder, Inv, Sane
    <2>2. StoreKept(c[1], c[2])
        BY <1>6, <2>1 DEF Ordered
    <2>3. CASE c[1] # n
        <3>1. client'[c] = client[c] /\ late'[c] = late[c]
            BY <1>3, <1>4, <2>3
        <3>. QED
            BY <1>5, <2>1, <2>2, <3>1, OrderedStays
    <2>4. CASE c[1] = n
        <3>. DEFINE d == Shut(client[c])
        <3>1. client'[c] = d /\ late'[c] = late[c] \cup rest[c] /\ rest[c] \in MayLinger(client[c])
            BY <1>3, <1>4, <2>4
        <3>2. /\ Steady(client[c]) /\ InOrder(client[c]) /\ late[c] = {}
              /\ \A v \in From(c[1], c[2]), w \in Writes : Holds(client[c], w) => v <= w
            BY <1>1, <2>1, <2>4 DEF Ordered
        <3>3. /\ d.closed /\ ~d.connected /\ d.queue = <<>> /\ d.item = None
              /\ d.waiting = client[c].waiting /\ d.request = "none"
            BY <2>1, <3>2 DEF Shut, Client, Steady
        <3>. HIDE DEF d
        <3>4. Range(<<>>) = {} /\ Increasing(<<>>)
            BY DEF Range, Increasing
        <3>5. Steady(d) /\ InOrder(d)
            BY <3>2, <3>3, <3>4 DEF Steady, InOrder
        <3>6. \A w \in Writes : Holds(d, w) => Holds(client[c], w)
            BY <3>3, <3>4 DEF Holds
        <3>7. CASE rest[c] = {}
            BY <1>5, <2>1, <2>2, <2>4, <3>1, <3>2, <3>3, <3>5, <3>6, <3>7, OrderedLetsGo
        <3>8. CASE rest[c] # {}
            <4>1. /\ client[c].request = "sent" /\ rest[c] = {client[c].item}
                  /\ client[c].connected /\ client[c].item # None /\ client[c].waiting = <<>>
                BY <2>1, <3>1, <3>2, <3>8 DEF MayLinger, Sane, Steady
            <4>2. Holds(client[c], client[c].item)
                BY <4>1 DEF Holds
            <4>3. \A v \in From(c[1], c[2])', w \in Writes :
                    Holds(client'[c], w) \/ w \in late'[c] => v <= w
                BY <2>2, <3>1, <3>2, <3>6, <4>1, <4>2 DEF StoreKept
            <4>. QED
                BY <1>5, <2>2, <2>4, <3>1, <3>2, <3>3, <3>5, <4>1, <4>3 DEF Ordered, StoreKept
        <3>. QED
            BY <3>7, <3>8
    <2>. QED
        BY <2>3, <2>4
<1>. QED
    BY <1>7, <1>8 DEF OrderInv, OneConnectionInOrder

LEMMA RestartOrder ==
    ASSUME Inv, OrderInv, NEW n \in Nodes, Restart(n)
    PROVE  OrderInv'
<1>1. RestartsStore(n) /\ TypeOK
    BY RestartIs DEF Inv
<1>2. ~NoRestarts'
    BY <1>1 DEF RestartsStore, NoRestarts
<1>3. OwnWritesInOrder'
    <2>. SUFFICES ASSUME NEW m \in Nodes
                  PROVE  /\ TakenInOrder(m, m)'
                         /\ restarts'[m] = 0 => \A v \in DOMAIN issued :
                              issued[v].node = m /\ issued[v].command \notin Refused[m]
                                => v \in Range(applied'[m])
        BY <1>1 DEF OwnWritesInOrder, RestartsStore
    <2>1. /\ TakenInOrder(m, m)
          /\ restarts[m] = 0 => \A v \in DOMAIN issued :
               issued[v].node = m /\ issued[v].command \notin Refused[m]
                 => v \in Range(applied[m])
        BY DEF OrderInv, OwnWritesInOrder
    <2>2. CASE m = n
        <3>1. applied'[m] = <<>> /\ restarts'[m] # 0 /\ DOMAIN <<>> = {}
            BY <1>1, <2>2 DEF RestartsStore
        <3>2. TakenInOrder(m, m)'
            BY <3>1 DEF TakenInOrder
        <3>. QED
            BY <3>1, <3>2
    <2>3. CASE m # n
        <3>1. applied'[m] = applied[m] /\ restarts'[m] = restarts[m] /\ UNCHANGED issued
            BY <1>1, <2>3 DEF RestartsStore
        <3>2. TakenInOrder(m, m)'
            BY <1>1, <2>1, <3>1, SameStore DEF StoreKept
        <3>. QED
            BY <2>1, <3>1, <3>2
    <2>. QED
        BY <2>2, <2>3
<1>. QED
    BY <1>2, <1>3 DEF OrderInv, OneConnectionInOrder

LEMMA InitOrder ==
    ASSUME Init
    PROVE  OrderInv
<1>1. DOMAIN <<>> = {} /\ Range(<<>>) = {}
    BY DEF Range
<1>2. /\ \A c \in Pairs : client[c] = NewClient /\ late[c] = {}
      /\ \A n \in Nodes : applied[n] = <<>>
      /\ DOMAIN issued = {}
    BY <1>1 DEF Init
<1>3. ASSUME NEW n, NEW p \in Nodes PROVE TakenInOrder(n, p) /\ From(n, p) = {}
    BY <1>1, <1>2 DEF TakenInOrder, From
<1>4. Steady(NewClient) /\ InOrder(NewClient) /\ ~NewClient.closed
    BY <1>1 DEF NewClient, Steady, InOrder, Increasing
<1>5. ASSUME NEW c \in Pairs PROVE Ordered(c)
    <2>1. client[c] = NewClient /\ late[c] = {} /\ c[1] \in Nodes /\ c[2] \in Nodes
        BY <1>2, PairFacts
    <2>. QED
        BY <1>3, <1>4, <2>1 DEF Ordered
<1>6. OwnWritesInOrder
    BY <1>2, <1>3 DEF OwnWritesInOrder
<1>. QED
    BY <1>5, <1>6 DEF OrderInv, OneConnectionInOrder

LEMMA NextOrder ==
    ASSUME Inv, OrderInv, [Next]_vars
    PROVE  OrderInv'
<1>1. ASSUME NEW n \in Nodes, NEW k \in Keys, NEW command \in Commands,
             UserWrite(n, k, command)
      PROVE  OrderInv'
    BY <1>1, UserWriteOrder
<1>2. ASSUME NEW c \in Pairs, ClientStep(c[1], c[2])
      PROVE  OrderInv'
    <2>1. CASE ConnectForWaiting(c[1], c[2])
        BY <2>1, ConnectForWaitingOrder
    <2>2. CASE ConnectForQueue(c[1], c[2])
        BY <2>2, ConnectForQueueOrder
    <2>3. CASE WaitingResumes(c[1], c[2])
        BY <2>3, WaitingResumesOrder
    <2>4. CASE WaitingFails(c[1], c[2])
        BY <2>4, WaitingFailsOrder
    <2>5. CASE ItemFails(c[1], c[2])
        BY <2>5, ItemFailsOrder
    <2>6. CASE PeerExecutes(c[1], c[2])
        BY <2>6, PeerExecutesOrder
    <2>7. CASE Answer(c[1], c[2])
        BY <2>7, AnswerOrder
    <2>8. CASE LoseConnection(c[1], c[2])
        BY <2>8, LoseConnectionOrder
    <2>. QED
        BY <1>2, <2>1, <2>2, <2>3, <2>4, <2>5, <2>6, <2>7, <2>8 DEF ClientStep
<1>3. ASSUME NEW c \in Pairs, NEW w \in Writes, LateArrival(c[1], c[2], w)
      PROVE  OrderInv'
    BY <1>3, LateArrivalOrder
<1>4. ASSUME NEW n \in Nodes, CloseEngine(n)
      PROVE  OrderInv'
    BY <1>4, CloseEngineOrder
<1>5. ASSUME NEW n \in Nodes, Restart(n)
      PROVE  OrderInv'
    BY <1>5, RestartOrder
<1>6. CASE UNCHANGED vars
    BY <1>6 DEF vars, OrderInv, OneConnectionInOrder, OwnWritesInOrder, NoRestarts, Ordered,
                TakenInOrder, From
<1>. QED
    BY <1>1, <1>2, <1>3, <1>4, <1>5, <1>6 DEF Next

-----------------------------------------------------------------------------
(* Convergence                                                             *)

\* What decides the value of a key is the greatest of the writes taken, if they were taken in order.
LEMMA LastTakenFacts ==
    ASSUME TypeOK, IssuedAreWrites, NEW n \in Nodes, NEW p \in Nodes, NEW k \in Keys,
           NEW g \in WritesOf(k), \A w \in WritesOf(k) : w <= g,
           \A w \in WritesOf(k) : issued[w].node = n,
           g \in Range(applied[p]), TakenWereIssued, TakenInOrder(n, p)
    PROVE  LastTaken(p, k) = g
<1>. DEFINE s == applied[p]
            At == {i \in DOMAIN s : issued[s[i]].key = k}
<1>1. /\ s \in Seq(Writes) /\ Len(s) \in Nat /\ DOMAIN s = 1..Len(s)
      /\ \A i \in DOMAIN s : s[i] \in Writes /\ s[i] \in DOMAIN issued
    BY SeqFacts DEF TypeOK, TakenWereIssued
<1>2. PICK i \in DOMAIN s : s[i] = g
    BY DEF Range
<1>3. \A j \in At : s[j] \in WritesOf(k) /\ issued[s[j]].node = n /\ s[j] <= g
    BY <1>1 DEF WritesOf
<1>4. i \in At /\ issued[g].node = n
    BY <1>2 DEF WritesOf
<1>5. ASSUME NEW j \in At PROVE j <= i
    <2>1. i < j => g < s[j]
        BY <1>2, <1>3, <1>4 DEF TakenInOrder
    <2>2. ~(g < s[j])
        BY <1>1, <1>2, <1>3 DEF Writes
    <2>. QED
        BY <1>1, <2>1, <2>2
<1>. DEFINE last == CHOOSE j \in At : \A l \in At : l <= j
<1>6. At \subseteq Nat
    BY <1>1
<1>7. last = i
    <2>1. last \in At /\ \A l \in At : l <= last
        BY <1>4, <1>5
    <2>. HIDE DEF last, At
    <2>. QED
        BY <1>4, <1>5, <1>6, <2>1
<1>8. LastTaken(p, k) = s[last]
    BY <1>4 DEF LastTaken
<1>. QED
    BY <1>2, <1>7, <1>8

LEMMA OrderConverges ==
    ASSUME Inv, OrderInv
    PROVE  ConvergesOnOneConnection
<1>. SUFFICES ASSUME NoRestarts, NEW k \in Keys, NEW p \in Peers(k, Primary(k)),
                     ~lost[<<Primary(k), p>>], AllSucceeded(k, p), RefusedNone(k)
              PROVE  LastTaken(p, k) = LastTaken(Primary(k), k)
    BY DEF ConvergesOnOneConnection
<1>. DEFINE n == Primary(k)
            c == <<n, p>>
<1>1. /\ n \in Nodes /\ p \in Nodes /\ c \in Pairs /\ c[1] = n /\ c[2] = p
      /\ TypeOK /\ IssuedAreWrites /\ TakenWereIssued
    BY PrimaryFacts DEF Inv
<1>2. TakenInOrder(n, p) /\ TakenInOrder(n, n)
    BY <1>1 DEF OrderInv, OneConnectionInOrder, OwnWritesInOrder, Ordered
<1>3. ASSUME NEW w \in WritesOf(k)
      PROVE  issued[w].node = n /\ w \in Range(applied[p]) /\ w \in Range(applied[n])
    <2>1. w \in DOMAIN issued /\ issued[w].key = k /\ w \in Writes
        BY <1>1 DEF WritesOf, IssuedAreWrites
    <2>2. task[<<w, p>>] = "succeeded"
        BY DEF AllSucceeded
    <2>3. issued[w].node = n
        BY <1>1, <2>1, <2>2 DEF Inv, TasksArePrimarys
    <2>4. w \in Range(applied[p])
        BY <1>1, <2>1, <2>2 DEF NoRestarts, Inv, SucceededIsTaken
    <2>5. w \in Range(applied[n])
        BY <1>1, <2>1, <2>3 DEF NoRestarts, RefusedNone, OrderInv, OwnWritesInOrder
    <2>. QED
        BY <2>3, <2>4, <2>5
<1>4. CASE WritesOf(k) = {}
    <2>1. ASSUME NEW q \in Nodes PROVE LastTaken(q, k) = None
        <3>1. {i \in DOMAIN applied[q] : issued[applied[q][i]].key = k} = {}
            BY <1>1, <1>4 DEF TakenWereIssued, WritesOf, Range
        <3>. QED
            BY <3>1 DEF LastTaken
    <2>. QED
        BY <1>1, <2>1
<1>5. CASE WritesOf(k) # {}
    <2>1. WritesOf(k) \subseteq Writes /\ Writes \subseteq Nat /\ IsFiniteSet(Writes)
        <3>1. IsFiniteSet(1..MaxWrites)
            BY FS_Interval, BoundsAssumption
        <3>. QED
            BY <1>1, <3>1 DEF WritesOf, IssuedAreWrites, Writes
    <2>2. IsFiniteSet(WritesOf(k))
        BY <2>1, FS_Subset
    <2>3. PICK g \in WritesOf(k) : \A w \in WritesOf(k) : w <= g
        BY <1>5, <2>1, <2>2, GreatestFacts
    <2>4. LastTaken(p, k) = g
        BY <1>1, <1>2, <1>3, <2>3, LastTakenFacts
    <2>5. LastTaken(n, k) = g
        BY <1>1, <1>2, <1>3, <2>3, LastTakenFacts
    <2>. QED
        BY <2>4, <2>5
<1>. QED
    BY <1>4, <1>5

-----------------------------------------------------------------------------
(* The theorems                                                            *)

LEMMA InitInv ==
    ASSUME Init
    PROVE  Inv
<1>. USE DEF Init
<1>1. Range(<<>>) = {} /\ IsInjective(<<>>) /\ <<>> \in Seq(Writes) /\ DOMAIN <<>> = {}
    BY DEF Range, IsInjective
<1>2. /\ \A c \in Pairs : client[c] = NewClient
      /\ \A n \in Nodes : engine[n] = NewEngine /\ applied[n] = <<>>
      /\ \A w \in Writes, p \in Nodes : task[<<w, p>>] = "none"
    OBVIOUS
<1>3. TypeOK
    <2>1. NewEngine \in Engine /\ NewClient \in Client /\ NewClient.request = "none"
        BY NewClientFacts DEF NewEngine, Engine, Sane
    <2>. QED
        BY <1>1, <2>1 DEF TypeOK, Statuses
<1>4. IssuedAreWrites /\ TasksArePrimarys /\ LateLinesAreGivenUp /\ TakenWereIssued
    BY <1>1, <1>2 DEF IssuedAreWrites, TasksArePrimarys, LateLinesAreGivenUp, TakenWereIssued
<1>5. ClientHoldsPending
    BY <1>2, NewClientFacts DEF ClientHoldsPending, Sane, Unsent
<1>6. TakenAtMostOnce /\ SucceededIsTaken
    BY <1>1, <1>2 DEF TakenAtMostOnce, SucceededIsTaken
<1>7. PendingTracksFanOuts
    <2>. SUFFICES ASSUME NEW n \in Nodes PROVE Balanced(n)
        BY AllBalanced
    <2>1. Mine(n) = {}
        BY <1>1 DEF Mine
    <2>2. OpenOf(n, task) = {} /\ \A q \in Nodes : PendingAt(n, q, task) = {}
        BY <2>1 DEF OpenOf, PendingAt
    <2>3. /\ engine[n].pending = 0
          /\ \A q \in Nodes : engine[n].attempted[q] = 0 /\ engine[n].succeeded[q] = 0
                                /\ engine[n].failed[q] = 0
        BY <1>2 DEF NewEngine
    <2>4. /\ Cardinality(OpenOf(n, task)) = 0
          /\ \A q \in Nodes : Cardinality(PendingAt(n, q, task)) = 0
        BY <2>2, FS_EmptySet, Zenon
    <2>5. 0 <= MaxPending
        BY BoundsAssumption
    <2>. HIDE DEF Init
    <2>. QED
        BY <2>3, <2>4, <2>5 DEF Balanced
<1>. QED
    BY <1>3, <1>4, <1>5, <1>6, <1>7 DEF Inv

LEMMA NextInv ==
    ASSUME Inv, [Next]_vars
    PROVE  Inv'
<1>1. ASSUME NEW n \in Nodes, NEW k \in Keys, NEW command \in Commands,
             UserWrite(n, k, command)
      PROVE  Inv'
    BY <1>1, UserWriteInv
<1>2. ASSUME NEW c \in Pairs, ClientStep(c[1], c[2])
      PROVE  Inv'
    <2>1. CASE ConnectForWaiting(c[1], c[2])
        BY <2>1, ConnectForWaitingInv
    <2>2. CASE ConnectForQueue(c[1], c[2])
        BY <2>2, ConnectForQueueInv
    <2>3. CASE WaitingResumes(c[1], c[2])
        BY <2>3, WaitingResumesInv
    <2>4. CASE WaitingFails(c[1], c[2])
        BY <2>4, WaitingFailsInv
    <2>5. CASE ItemFails(c[1], c[2])
        BY <2>5, ItemFailsInv
    <2>6. CASE PeerExecutes(c[1], c[2])
        BY <2>6, PeerExecutesInv
    <2>7. CASE Answer(c[1], c[2])
        BY <2>7, AnswerInv
    <2>8. CASE LoseConnection(c[1], c[2])
        BY <2>8, LoseConnectionInv
    <2>. QED
        BY <1>2, <2>1, <2>2, <2>3, <2>4, <2>5, <2>6, <2>7, <2>8 DEF ClientStep
<1>3. ASSUME NEW c \in Pairs, NEW w \in Writes, LateArrival(c[1], c[2], w)
      PROVE  Inv'
    BY <1>3, LateArrivalInv
<1>4. ASSUME NEW n \in Nodes, CloseEngine(n)
      PROVE  Inv'
    BY <1>4, CloseEngineInv
<1>5. ASSUME NEW n \in Nodes, Restart(n)
      PROVE  Inv'
    BY <1>5, RestartInv
<1>6. CASE UNCHANGED vars
    <2>. USE <1>6 DEF vars
    <2>1. TypeOK' /\ IssuedAreWrites' /\ TasksArePrimarys' /\ LateLinesAreGivenUp'
        BY DEF Inv, TypeOK, IssuedAreWrites, TasksArePrimarys, LateLinesAreGivenUp
    <2>2. ClientHoldsPending' /\ TakenWereIssued' /\ TakenAtMostOnce' /\ SucceededIsTaken'
        BY DEF Inv, ClientHoldsPending, TakenWereIssued, TakenAtMostOnce, SucceededIsTaken
    <2>3. PendingTracksFanOuts'
        BY DEF Inv, PendingTracksFanOuts, Open
    <2>. QED
        BY <2>1, <2>2, <2>3 DEF Inv
<1>. QED
    BY <1>1, <1>2, <1>3, <1>4, <1>5, <1>6 DEF Next

\* The invariant of replication, for every cluster and every number of writes and restarts:
\* what the clients hold is what is pending, what is late was given up, and the counters of
\* ReplicationStats balance.
THEOREM Safety == Spec => []Inv
<1>1. Init => Inv
    BY InitInv
<1>2. Inv /\ [Next]_vars => Inv'
    BY NextInv
<1>. QED
    BY <1>1, <1>2, PTL DEF Spec

\* The engines, the clients and the tasks keep their types (replication-engine.js:29-60).
THEOREM TypeCorrect == Spec => []TypeOK
<1>1. Inv => TypeOK
    BY DEF Inv
<1>. QED
    BY <1>1, Safety, PTL

\* #pending counts the open fan-outs and stays within maxPending, and attempted is succeeded
\* plus failed plus what is pending (replication-engine.js:84-129), however the connections,
\* the peers and close() end a fan-out.
THEOREM PendingTracksFanOutsHolds == Spec => []PendingTracksFanOuts
<1>1. Inv => PendingTracksFanOuts
    BY DEF Inv
<1>. QED
    BY <1>1, Safety, PTL

\* A write counted as succeeded was taken by the peer (replication-engine.js:109-129).
THEOREM SucceededIsTakenHolds == Spec => []SucceededIsTaken
<1>1. Inv => SucceededIsTaken
    BY DEF Inv
<1>. QED
    BY <1>1, Safety, PTL

\* No line of unknown fate is sent again: a node takes a write at most once
\* (cache-client.js:348-386).
THEOREM TakenAtMostOnceHolds == Spec => []TakenAtMostOnce
<1>1. Inv => TakenAtMostOnce
    BY DEF Inv
<1>. QED
    BY <1>1, Safety, PTL

\* The order of one connection, for every cluster: as long as no process restarts and a pair has
\* not lost its first connection, lines arrive in the order of the writes, and a late one of
\* close() last of all (replication-engine.js:104-129, cache-client.js:324-361).
THEOREM OrderSafety == Spec => []OrderInv
<1>1. Init => Inv /\ OrderInv
    BY InitInv, InitOrder
<1>2. Inv /\ OrderInv /\ [Next]_vars => (Inv /\ OrderInv)'
    BY NextInv, NextOrder
<1>. QED
    BY <1>1, <1>2, PTL DEF Spec

\* Eventual consistency on the first connection: once every write of a key is counted as succeeded
\* at a peer, the peer holds what the primary holds, whatever else goes on in the cluster
\* (replication-engine.js:104-129).
THEOREM ConvergesOnOneConnectionHolds == Spec => []ConvergesOnOneConnection
<1>1. Inv /\ OrderInv => ConvergesOnOneConnection
    BY OrderConverges
<1>. QED
    BY <1>1, Safety, OrderSafety, PTL
=============================================================================
