------------------------- MODULE CacheClientProofs -------------------------
(***************************************************************************)
(* The safety of CacheClient, for any number of commands and any limit on   *)
(* the attempts to connect.                                                 *)
(***************************************************************************)
EXTENDS CacheClient, Functions, FiniteSetTheorems, SequenceTheorems,
        WellFoundedInduction, TLAPS

-----------------------------------------------------------------------------
(* The inductive invariant                                                 *)

\* The queue's loop works for its item.
Holding == pump \in {"attempt", "delay", "ready", "waiting"}

\* The lines on their way to the server over connection i, and all that ever left the client
\* and were not lost.
Lines(i) == Range(conns[i].up)
Written == Range(executed) \cup UNION {Lines(i) : i \in Conns}

Increasing(s) == \A i, j \in DOMAIN s : i < j => s[i] < s[j]

\* An attempt is made after the last socket is gone; the others are no more than the lines they
\* still carry.
OneConnection ==
    /\ socket = None \/ connecting = None
    /\ \A i \in Conns :
         /\ i # socket => /\ conns[i].state \in {"gone", "connecting"}
                          /\ conns[i].fin = "no" /\ conns[i].down = <<>>
         /\ conns[i].state = "connecting" => i = connecting /\ conns[i].up = <<>>

\* A delay is followed by one more attempt.
AttemptsRemain ==
    /\ pump = "delay" => pumpTry < MaxReconnectAttempts
    /\ connector = "delay" => connectorTry < MaxReconnectAttempts

\* Commands leave in the order they were issued: what was written comes before the item, and the
\* item before the queue.
LeaveInOrder ==
    /\ \A b, c \in Commands : b < c /\ outcome[b] = "none" => outcome[c] = "none"
    /\ Increasing(queue)
    /\ \A c \in Range(queue) : outcome[c] = "pending"
    /\ Holding => /\ item \in Commands /\ outcome[item] = "pending"
                  /\ \A c \in Range(queue) : item < c
    /\ \A c \in Written :
         /\ outcome[c] # "none"
         /\ \A q \in Range(queue) : c < q
         /\ Holding => c < item \/ (c = item /\ pump = "waiting")

\* A command is written once, and is executed or still on its way.
WrittenOnce ==
    /\ IsInjective(executed)
    /\ \A i \in Conns : IsInjective(conns[i].up) /\ Lines(i) \cap Range(executed) = {}
    /\ \A i, j \in Conns : i # j => Lines(i) \cap Lines(j) = {}

\* The socket carries the line in flight or its answer, which comes first; before the server's
\* end() there is nothing else on it.
SocketServesItem ==
    socket # None =>
        LET s == conns[socket]
        IN  /\ \A k \in DOMAIN s.down : s.down[k] # IdleErr =>
                 k = 1 /\ pump = "waiting" /\ s.down[k] = item /\ item \in Range(executed)
            /\ s.fin = "no" =>
                 /\ \A k \in DOMAIN s.down : s.down[k] # IdleErr
                 /\ s.up # <<>> => pump = "waiting" /\ s.up = <<item>> /\ s.down = <<>>

\* The answer of a resolved command is its own, given after the server executed it.
ResolvedByOwn ==
    \A c \in Commands : outcome[c] = "resolved" => answer[c] = c /\ c \in Range(executed)

\* When the server executed a command that was answered, or still may be, it had executed none
\* that was issued later.
ExecutedInTurn ==
    \A i, j \in DOMAIN executed :
        /\ i < j
        /\ outcome[executed[j]] = "resolved" \/ (pump = "waiting" /\ executed[j] = item)
        => executed[i] < executed[j]

WireIsKnown == pump = "waiting" => wire # None

Inv ==
    /\ TypeOK
    /\ OneConnection
    /\ AttemptsRemain
    /\ LeaveInOrder
    /\ WrittenOnce
    /\ SocketServesItem
    /\ ResolvedByOwn
    /\ ExecutedInTurn
    /\ WireIsKnown

-----------------------------------------------------------------------------
(* Sequences of commands                                                   *)

LEMMA SeqFacts ==
    ASSUME NEW S, NEW s \in Seq(S)
    PROVE  /\ Len(s) \in Nat /\ DOMAIN s = 1..Len(s)
           /\ Range(s) \subseteq S
           /\ \A i \in DOMAIN s : s[i] \in S /\ s[i] \in Range(s)
           /\ \A w \in Range(s) : \E i \in DOMAIN s : s[i] = w
BY DEF Range

LEMMA EmptyFacts ==
    /\ Range(<<>>) = {} /\ IsInjective(<<>>) /\ Increasing(<<>>) /\ DOMAIN <<>> = {}
    /\ \A S : <<>> \in Seq(S)
BY DEF Range, IsInjective, Increasing

LEMMA AppendFacts ==
    ASSUME NEW S, NEW s \in Seq(S), NEW w \in S
    PROVE  /\ Append(s, w) \in Seq(S)
           /\ Range(Append(s, w)) = Range(s) \cup {w}
           /\ DOMAIN Append(s, w) = DOMAIN s \cup {Len(s) + 1}
           /\ \A i \in DOMAIN s : i < Len(s) + 1 /\ Append(s, w)[i] = s[i]
           /\ Append(s, w)[Len(s) + 1] = w
           /\ IsInjective(s) /\ w \notin Range(s) => IsInjective(Append(s, w))
           /\ Increasing(s) /\ (\A v \in Range(s) : v < w) => Increasing(Append(s, w))
<1>. DEFINE t == Append(s, w)
<1>1. /\ t \in Seq(S) /\ Len(t) = Len(s) + 1 /\ DOMAIN t = 1..Len(s) + 1
      /\ DOMAIN s = 1..Len(s) /\ Len(s) \in Nat
      /\ \A i \in DOMAIN s : t[i] = s[i]
      /\ t[Len(s) + 1] = w
    BY AppendProperties
<1>. HIDE DEF t
<1>2. DOMAIN t = DOMAIN s \cup {Len(s) + 1} /\ \A i \in DOMAIN s : i < Len(s) + 1
    BY <1>1
<1>3. Range(t) = Range(s) \cup {w}
    BY <1>1, <1>2 DEF Range
<1>4. ASSUME IsInjective(s), w \notin Range(s) PROVE IsInjective(t)
    <2>1. \A i \in DOMAIN s : s[i] # w
        BY <1>4 DEF Range
    <2>. QED
        BY <1>1, <1>2, <1>4, <2>1 DEF IsInjective
<1>5. ASSUME Increasing(s), \A v \in Range(s) : v < w PROVE Increasing(t)
    <2>1. \A i \in DOMAIN s : s[i] < w
        BY <1>5 DEF Range
    <2>. QED
        BY <1>1, <1>2, <1>5, <2>1 DEF Increasing
<1>. QED
    BY <1>1, <1>2, <1>3, <1>4, <1>5 DEF t

LEMMA TailFacts ==
    ASSUME NEW S, NEW s \in Seq(S), s # <<>>
    PROVE  /\ Head(s) \in S /\ Tail(s) \in Seq(S)
           /\ Range(s) = {Head(s)} \cup Range(Tail(s))
           /\ IsInjective(s) => Head(s) \notin Range(Tail(s)) /\ IsInjective(Tail(s))
           /\ Increasing(s) => (\A v \in Range(Tail(s)) : Head(s) < v) /\ Increasing(Tail(s))
<1>. DEFINE t == Tail(s)
<1>1. /\ Len(s) \in Nat /\ Len(s) > 0 /\ DOMAIN s = 1..Len(s) /\ Head(s) = s[1]
      /\ t \in Seq(S) /\ Len(t) = Len(s) - 1 /\ DOMAIN t = 1..Len(s) - 1
      /\ \A i \in DOMAIN t : t[i] = s[i + 1] /\ i + 1 \in DOMAIN s
      /\ 1 \in DOMAIN s /\ s[1] \in S
      /\ \A i \in DOMAIN s : i # 1 => i - 1 \in DOMAIN t /\ t[i - 1] = s[i]
    BY HeadTailProperties, EmptySeq
<1>. HIDE DEF t
<1>2. Range(s) = {s[1]} \cup Range(t)
    <2>1. ASSUME NEW v \in Range(s) PROVE v \in {s[1]} \cup Range(t)
        <3>1. PICK i \in DOMAIN s : s[i] = v
            BY <2>1 DEF Range
        <3>2. CASE i # 1
            <4>1. i - 1 \in DOMAIN t /\ t[i - 1] = v
                BY <1>1, <3>1, <3>2
            <4>. QED
                BY <4>1 DEF Range
        <3>. QED
            BY <3>1, <3>2
    <2>2. ASSUME NEW v \in Range(t) PROVE v \in Range(s)
        <3>1. PICK i \in DOMAIN t : t[i] = v
            BY <2>2 DEF Range
        <3>2. i + 1 \in DOMAIN s /\ s[i + 1] = v
            BY <1>1, <3>1
        <3>. QED
            BY <3>2 DEF Range
    <2>3. s[1] \in Range(s)
        BY <1>1 DEF Range
    <2>. QED
        BY <2>1, <2>2, <2>3
<1>3. ASSUME IsInjective(s) PROVE s[1] \notin Range(t) /\ IsInjective(t)
    <2>1. \A i \in DOMAIN t : s[1] # t[i]
        BY <1>1, <1>3 DEF IsInjective
    <2>2. IsInjective(t)
        BY <1>1, <1>3 DEF IsInjective
    <2>. QED
        BY <2>1, <2>2 DEF Range
<1>4. ASSUME Increasing(s) PROVE (\A v \in Range(t) : s[1] < v) /\ Increasing(t)
    <2>0. \A i \in DOMAIN t : 1 < i + 1
        BY <1>1
    <2>1. \A i \in DOMAIN t : s[1] < t[i]
        BY <1>1, <1>4, <2>0 DEF Increasing
    <2>2. Increasing(t)
        BY <1>1, <1>4 DEF Increasing
    <2>. QED
        BY <2>1, <2>2 DEF Range
<1>. QED
    BY <1>1, <1>2, <1>3, <1>4 DEF t

-----------------------------------------------------------------------------
(* The two halves of the state: connections, and the loops over commands   *)

NetworkOK ==
    /\ conns \in [Conns -> ConnType]
    /\ socket \in Conns \cup {None} /\ connecting \in Conns \cup {None}
    /\ connecting # None => conns[connecting].state = "connecting"
    /\ socket # None => conns[socket].state \in {"open", "ended"}
    /\ OneConnection

LoopsOK ==
    /\ autoReconnect \in BOOLEAN
    /\ queue \in Seq(Commands)
    /\ pump \in {"off", "starting", "next", "attempt", "delay", "ready", "waiting", "finishing"}
    /\ item \in Commands \cup {None}
    /\ pumpTry \in Tries /\ connectorTry \in Tries
    /\ connector \in {"off", "attempt", "delay"}
    /\ closed \in BOOLEAN
    /\ outcome \in [Commands -> Outcomes]
    /\ answer \in [Commands -> Commands \cup {None, IdleErr}]
    /\ wire \in Conns \cup {None}
    /\ executed \in Seq(Commands)
    /\ AttemptsRemain

LEMMA Halves == TypeOK /\ OneConnection /\ AttemptsRemain <=> NetworkOK /\ LoopsOK
BY DEF TypeOK, NetworkOK, LoopsOK

LEMMA HalvesNext == TypeOK' /\ OneConnection' /\ AttemptsRemain' <=> NetworkOK' /\ LoopsOK'
BY DEF TypeOK, NetworkOK, LoopsOK

LEMMA Numbers ==
    /\ None \notin Conns /\ None \notin Commands /\ IdleErr \notin Commands
    /\ MaxReconnectAttempts \in Nat \ {0} /\ Commands \subseteq Nat /\ Tries \subseteq Nat
    /\ 1 \in Tries
BY ClientAssumption DEF None, Conns, Commands, IdleErr, Tries

\* What a step does to the commands, unless it issues one, writes one or executes one: some
\* settle, the queue gets shorter, and its loop goes on.
Drains ==
    /\ UNCHANGED executed
    /\ \A i \in Conns : conns'[i].up = conns[i].up \/ conns'[i].up = <<>>
    /\ \A c \in Commands :
         /\ outcome'[c] = "none" <=> outcome[c] = "none"
         /\ outcome'[c] = "resolved" =>
              \/ outcome[c] = "resolved" /\ answer'[c] = answer[c]
              \/ /\ c = item /\ pump = "waiting" /\ pump' # "waiting"
                 /\ answer'[c] = c /\ c \in Range(executed)
    /\ Range(queue') \subseteq Range(queue) /\ Increasing(queue')
    /\ \A c \in Range(queue') : outcome'[c] = "pending"
    /\ pump' = "waiting" => pump = "waiting" /\ wire' = wire
    /\ Holding' => /\ item' \in Commands /\ outcome'[item'] = "pending"
                   /\ \A c \in Range(queue') : item' < c
                   /\ \/ Holding /\ item' = item /\ (pump' = "waiting" <=> pump = "waiting")
                      \/ item' \in Range(queue) /\ pump' # "waiting"

LEMMA DrainInv ==
    ASSUME Inv, Drains, NetworkOK', LoopsOK', SocketServesItem'
    PROVE  Inv'
<1>1. /\ LeaveInOrder /\ WrittenOnce /\ ResolvedByOwn /\ ExecutedInTurn /\ WireIsKnown
      /\ executed \in Seq(Commands) /\ queue \in Seq(Commands) /\ conns \in [Conns -> ConnType]
    BY DEF Inv, TypeOK
<1>2. TypeOK' /\ OneConnection' /\ AttemptsRemain'
    BY HalvesNext
<1>3. \A i \in Conns : Lines(i)' \subseteq Lines(i) /\ (IsInjective(conns[i].up) => IsInjective(conns'[i].up))
    BY EmptyFacts DEF Drains, Lines
<1>4. Written' \subseteq Written
    BY <1>3 DEF Written, Drains
<1>5. Written \subseteq Commands /\ Range(queue) \subseteq Commands
    <2>1. \A i \in Conns : conns[i].up \in Seq(Commands)
        BY <1>1 DEF ConnType
    <2>. QED
        BY <1>1, <2>1, SeqFacts DEF Written, Lines
<1>6. WrittenOnce'
    BY <1>1, <1>3 DEF WrittenOnce, Drains
<1>7. LeaveInOrder'
    <2>1. \A b, c \in Commands : b < c /\ outcome'[b] = "none" => outcome'[c] = "none"
        BY <1>1 DEF LeaveInOrder, Drains
    <2>2. ASSUME NEW c \in Written'
          PROVE  /\ outcome'[c] # "none"
                 /\ \A q \in Range(queue') : c < q
                 /\ Holding' => c < item' \/ (c = item' /\ pump' = "waiting")
        BY <1>1, <1>4, <1>5 DEF LeaveInOrder, Drains
    <2>. QED
        BY <2>1, <2>2 DEF LeaveInOrder, Drains
<1>8. ResolvedByOwn'
    BY <1>1 DEF ResolvedByOwn, Drains
<1>9. ExecutedInTurn'
    <2>1. \A i \in DOMAIN executed : executed[i] \in Commands
        BY <1>1, SeqFacts
    <2>2. pump' = "waiting" => pump = "waiting" /\ (item' = item \/ item' \in Range(queue))
        BY DEF Drains, Holding
    <2>3. pump' = "waiting" => item' = item
        BY DEF Drains, Holding
    <2>. QED
        BY <1>1, <2>1, <2>2, <2>3 DEF ExecutedInTurn, Drains
<1>10. WireIsKnown'
    BY <1>1 DEF WireIsKnown, Drains
<1>. QED
    BY <1>2, <1>6, <1>7, <1>8, <1>9, <1>10 DEF Inv

-----------------------------------------------------------------------------
(* Connections                                                             *)

LEMMA GoneFacts ==
    /\ Gone \in ConnType /\ Gone.state = "gone" /\ Gone.fin = "no"
    /\ Gone.up = <<>> /\ Gone.down = <<>>
    /\ \A c \in ConnType : LET d == [Gone EXCEPT !.up = c.up]
                          IN  /\ d \in ConnType /\ d.state = "gone" /\ d.fin = "no"
                              /\ d.up = c.up /\ d.down = <<>>
BY EmptyFacts DEF Gone, ConnType, Fins

\* The socket is destroyed, and with it what it had for the client.
LEMMA DestroyedFacts ==
    ASSUME NetworkOK
    PROVE  LET cs == Destroyed(conns, socket)
           IN  /\ cs \in [Conns -> ConnType]
               /\ \A i \in Conns :
                    /\ cs[i].up = conns[i].up
                    /\ i # socket => cs[i] = conns[i]
                    /\ cs[i].state = IF i = connecting THEN "connecting" ELSE "gone"
                    /\ cs[i].fin = "no" /\ cs[i].down = <<>>
<1>. DEFINE cs == Destroyed(conns, socket)
<1>1. /\ conns \in [Conns -> ConnType]
      /\ socket \in Conns \cup {None} /\ connecting \in Conns \cup {None}
      /\ connecting # None => conns[connecting].state = "connecting"
      /\ socket = None \/ connecting = None
      /\ \A i \in Conns : i # socket =>
           /\ conns[i].state \in {"gone", "connecting"}
           /\ conns[i].fin = "no" /\ conns[i].down = <<>>
           /\ conns[i].state = "connecting" => i = connecting
    BY DEF NetworkOK, OneConnection
<1>2. CASE socket = None
    BY <1>1, <1>2, Numbers DEF Destroyed
<1>3. CASE socket # None
    <2>. DEFINE d == [Gone EXCEPT !.up = conns[socket].up]
    <2>1. /\ cs = [conns EXCEPT ![socket] = d] /\ d \in ConnType /\ d.state = "gone"
          /\ d.fin = "no" /\ d.up = conns[socket].up /\ d.down = <<>>
        BY <1>1, <1>3, GoneFacts DEF Destroyed
    <2>. HIDE DEF d
    <2>2. cs[socket] = d /\ \A i \in Conns : i # socket => cs[i] = conns[i]
        BY <1>1, <1>3, <2>1
    <2>3. cs \in [Conns -> ConnType]
        BY <1>1, <1>3, <2>1
    <2>4. \A i \in Conns : i # connecting
        BY <1>1, <1>3, Numbers
    <2>. HIDE DEF cs
    <2>. QED
        BY <1>1, <2>1, <2>2, <2>3, <2>4 DEF cs
<1>. QED
    BY <1>2, <1>3

\* A connection that is neither gone nor being made is the socket.
LEMMA OpenIsSocket ==
    ASSUME NetworkOK, NEW i \in Conns, conns[i].state \in {"open", "ended"}
    PROVE  i = socket /\ connecting = None
BY Numbers DEF NetworkOK, OneConnection

LosesSocket ==
    conns' = Destroyed(conns, socket) /\ socket' = None /\ UNCHANGED connecting

SameUp == \A i \in Conns : conns'[i].up = conns[i].up

LEMMA LosesSocketFacts ==
    ASSUME NetworkOK, LosesSocket
    PROVE  NetworkOK' /\ SocketServesItem' /\ SameUp
<1>1. /\ conns' \in [Conns -> ConnType] /\ SameUp
      /\ \A i \in Conns : /\ conns'[i].state = IF i = connecting THEN "connecting" ELSE "gone"
                          /\ conns'[i].fin = "no" /\ conns'[i].down = <<>>
                          /\ i # socket => conns'[i] = conns[i]
    BY DestroyedFacts DEF LosesSocket, SameUp
<1>2. \A i \in Conns : conns'[i].state = "connecting" => i = connecting /\ conns'[i].up = <<>>
    BY <1>1, Numbers DEF NetworkOK, OneConnection
<1>. QED
    BY <1>1, <1>2 DEF NetworkOK, OneConnection, LosesSocket, SocketServesItem

LEMMA SameNetworkFacts ==
    ASSUME NetworkOK, SocketServesItem, UNCHANGED <<network, executed>>,
           pump # "waiting" \/ UNCHANGED <<pump, item>>
    PROVE  NetworkOK' /\ SocketServesItem' /\ SameUp
BY DEF NetworkOK, OneConnection, SocketServesItem, SameUp, network

\* There is always a number for the next socket: the others carry a line each.
LEMMA FreshFacts ==
    ASSUME NetworkOK, WrittenOnce, connecting = None
    PROVE  LET cs == Destroyed(conns, socket)
           IN  Fresh(cs) \in Conns /\ cs[Fresh(cs)] = Gone
<1>. DEFINE cs == Destroyed(conns, socket)
            G == {i \in Conns : cs[i] = Gone}
<1>1. /\ cs \in [Conns -> ConnType]
      /\ \A i \in Conns : /\ cs[i].up = conns[i].up /\ cs[i].state = "gone"
                          /\ cs[i].fin = "no" /\ cs[i].down = <<>>
    BY DestroyedFacts, Numbers
<1>. HIDE DEF cs
<1>2. G # {}
    <2>. SUFFICES ASSUME \A i \in Conns : cs[i] # Gone
                  PROVE  FALSE
        OBVIOUS
    <2>1. ASSUME NEW i \in Conns
          PROVE  cs[i].up \in Seq(Commands) /\ cs[i].up # <<>>
        <3>1. cs[i] \in ConnType
            BY <1>1
        <3>2. cs[i] = [state |-> cs[i].state, fin |-> cs[i].fin, up |-> cs[i].up, down |-> cs[i].down]
            BY <3>1 DEF ConnType
        <3>3. cs[i].up \in Seq(Commands)
            BY <3>1 DEF ConnType
        <3>. QED
            BY <1>1, <3>2, <3>3 DEF Gone
    <2>. DEFINE f == [i \in Conns |-> Head(cs[i].up)]
    <2>2. f \in [Conns -> Commands]
        BY <2>1, TailFacts
    <2>3. \A i \in Conns : f[i] \in Lines(i)
        BY <1>1, <2>1, TailFacts DEF Lines
    <2>4. /\ MaxCommands \in Nat
          /\ IsFiniteSet(Conns) /\ Cardinality(Conns) = MaxCommands + 1
          /\ IsFiniteSet(Commands) /\ Cardinality(Commands) = MaxCommands
        BY ClientAssumption, FS_Interval DEF Conns, Commands
    <2>. HIDE DEF f
    <2>5. PICK i, j \in Conns : i # j /\ f[i] = f[j]
        BY <2>2, <2>4, FS_PigeonHole
    <2>. QED
        BY <2>3, <2>5 DEF WrittenOnce
<1>3. \E i \in G : \A j \in G : i <= j
    <2>1. G \subseteq Conns /\ Conns \subseteq Nat
        BY ClientAssumption DEF Conns
    <2>. DEFINE Less == {ss \in Nat \X Nat : ss[1] < ss[2]}
    <2>2. IsWellFoundedOn(Less, Nat)
        BY NatLessThanWellFounded DEF OpToRel
    <2>3. G \subseteq Nat /\ G # {}
        BY <1>2, <2>1
    <2>. HIDE DEF Less, G
    <2>4. \E i \in G : \A j \in G : ~(<<j, i>> \in Less)
        BY <2>2, <2>3, WFMin
    <2>5. PICK i \in G : \A j \in G : ~(<<j, i>> \in Less)
        BY <2>4
    <2>6. ASSUME NEW j \in G PROVE i <= j
        <3>1. i \in Nat /\ j \in Nat /\ ~(<<j, i>> \in Less)
            BY <2>3, <2>5
        <3>2. ~(j < i)
            BY <3>1 DEF Less
        <3>. QED
            BY <3>1, <3>2
    <2>. QED
        BY <2>6
<1>4. Fresh(cs) = CHOOSE i \in Conns : cs[i] = Gone /\ \A j \in Conns : cs[j] = Gone => i <= j
    BY DEF Fresh
<1>. QED
    BY <1>3, <1>4 DEF cs

\* A socket under way leaves the rest as it is, but for the old socket.
LEMMA ConnectOnceFacts ==
    ASSUME NetworkOK, SocketServesItem, WrittenOnce, ConnectOnce, UNCHANGED executed,
           pump # "waiting" \/ UNCHANGED <<pump, item>>
    PROVE  NetworkOK' /\ SocketServesItem' /\ SameUp
<1>1. CASE connecting # None
    <2>1. UNCHANGED network
        BY <1>1 DEF ConnectOnce
    <2>. QED
        BY <2>1, SameNetworkFacts
<1>2. CASE connecting = None
    <2>. DEFINE cs == Destroyed(conns, socket)
                n == Fresh(cs)
    <2>1. /\ cs \in [Conns -> ConnType]
          /\ \A i \in Conns : /\ cs[i].up = conns[i].up /\ cs[i].state = "gone"
                              /\ cs[i].fin = "no" /\ cs[i].down = <<>>
        BY <1>2, DestroyedFacts, Numbers
    <2>2. n \in Conns /\ cs[n] = Gone
        BY <1>2, FreshFacts
    <2>3. /\ connecting' = n /\ socket' = None
          /\ conns' = [cs EXCEPT ![n].state = "connecting"]
        BY <1>2 DEF ConnectOnce
    <2>. HIDE DEF n, cs
    <2>. DEFINE d == [Gone EXCEPT !.state = "connecting"]
    <2>4. /\ d \in ConnType /\ d.state = "connecting" /\ d.fin = "no" /\ d.up = <<>>
          /\ d.down = <<>>
        BY EmptyFacts DEF Gone, ConnType, Fins
    <2>5. conns' = [cs EXCEPT ![n] = d]
        BY <2>1, <2>2, <2>3
    <2>. HIDE DEF d
    <2>6. /\ conns' \in [Conns -> ConnType] /\ conns'[n] = d
          /\ \A i \in Conns : i # n => conns'[i] = cs[i]
        BY <2>1, <2>2, <2>4, <2>5
    <2>7. SameUp
        BY <2>1, <2>2, <2>4, <2>6, GoneFacts DEF SameUp
    <2>8. NetworkOK' /\ SocketServesItem'
        BY <2>1, <2>2, <2>3, <2>4, <2>6, Numbers
        DEF NetworkOK, OneConnection, SocketServesItem
    <2>. QED
        BY <2>7, <2>8
<1>. QED
    BY <1>1, <1>2

\* Something happens on the socket.
LEMMA SocketChanges ==
    ASSUME NetworkOK, socket # None, NEW d \in ConnType, d.state \in {"open", "ended"},
           conns' = [conns EXCEPT ![socket] = d], UNCHANGED <<socket, connecting>>
    PROVE  /\ NetworkOK' /\ conns'[socket] = d
           /\ \A i \in Conns : i # socket => conns'[i] = conns[i]
<1>1. /\ conns \in [Conns -> ConnType] /\ socket \in Conns /\ connecting = None
      /\ \A i \in Conns : i # socket =>
           /\ conns[i].state \in {"gone", "connecting"}
           /\ conns[i].fin = "no" /\ conns[i].down = <<>>
           /\ conns[i].state = "connecting" => i = connecting
    BY DEF NetworkOK, OneConnection
<1>2. /\ conns' \in [Conns -> ConnType] /\ conns'[socket] = d
      /\ \A i \in Conns : i # socket => conns'[i] = conns[i]
    BY <1>1
<1>3. \A i \in Conns : conns'[i].state # "connecting"
    BY <1>1, <1>2, Numbers
<1>. QED
    BY <1>1, <1>2, <1>3 DEF NetworkOK, OneConnection

-----------------------------------------------------------------------------
(* Commands                                                                *)

LEMMA InvParts ==
    ASSUME Inv
    PROVE  /\ NetworkOK /\ LoopsOK /\ LeaveInOrder /\ WrittenOnce /\ SocketServesItem
           /\ ResolvedByOwn /\ ExecutedInTurn /\ WireIsKnown
BY Halves DEF Inv

LosesLines == \A i \in Conns : conns'[i].up = conns[i].up \/ conns'[i].up = <<>>

\* No command is touched.
LEMMA KeepsCommands ==
    ASSUME Inv, LosesLines, UNCHANGED <<executed, outcome, answer, queue>>,
           \/ UNCHANGED <<pump, item, wire>>
           \/ pump # "waiting" /\ pump' # "waiting" /\ (Holding' => Holding /\ item' = item)
    PROVE  Drains
BY InvParts DEF LeaveInOrder, Drains, LosesLines, Holding

Failures == {"serverError", "timeout", "lost", "closed", "notConnected"}

\* The item fails.
LEMMA ItemSettles ==
    ASSUME Inv, LosesLines, UNCHANGED <<executed, queue>>, Holding, ~Holding',
           NEW why \in Failures, outcome' = [outcome EXCEPT ![item] = why],
           \A c \in Commands : c # item => answer'[c] = answer[c]
    PROVE  Drains
<1>1. /\ item \in Commands /\ outcome[item] = "pending" /\ outcome \in [Commands -> Outcomes]
      /\ \A c \in Range(queue) : item < c /\ outcome[c] = "pending"
      /\ Increasing(queue) /\ Range(queue) \subseteq Commands
    BY InvParts, SeqFacts DEF LeaveInOrder, LoopsOK
<1>2. \A c \in Range(queue) : c # item
    BY <1>1, Numbers
<1>3. \A c \in Commands : outcome'[c] = IF c = item THEN why ELSE outcome[c]
    BY <1>1
<1>4. ~Holding' /\ pump' # "waiting"
    BY DEF Holding
<1>. HIDE DEF Holding
<1>. QED
    BY <1>1, <1>2, <1>3, <1>4 DEF Drains, LosesLines, Failures

LEMMA FinishInv ==
    ASSUME Inv, Finish
    PROVE  Inv'
<1>1. /\ UNCHANGED <<network, executed, outcome, answer, queue>> /\ pump = "finishing"
      /\ pump' \in {"next", "off"}
    BY DEF Finish, results
<1>2. NetworkOK' /\ SocketServesItem' /\ SameUp
    BY <1>1, InvParts, SameNetworkFacts
<1>3. LoopsOK'
    BY InvParts DEF LoopsOK, Finish, results, options, connectLoop, AttemptsRemain
<1>4. Drains
    BY <1>1, <1>2, KeepsCommands DEF Holding, LosesLines, SameUp
<1>. QED
    BY <1>2, <1>3, <1>4, DrainInv

LEMMA ConnectInv ==
    ASSUME Inv, Connect
    PROVE  Inv'
<1>1. ConnectOnce /\ UNCHANGED <<drainLoop, results, options>>
    BY DEF Connect
<1>2. NetworkOK' /\ SocketServesItem' /\ SameUp
    BY <1>1, InvParts, ConnectOnceFacts DEF drainLoop, results
<1>3. LoopsOK'
    BY InvParts, Numbers DEF LoopsOK, Connect, drainLoop, results, options, AttemptsRemain
<1>4. Drains
    BY <1>1, <1>2, KeepsCommands DEF LosesLines, SameUp, drainLoop, results
<1>. QED
    BY <1>2, <1>3, <1>4, DrainInv

LEMMA ConnectorDelayOverInv ==
    ASSUME Inv, ConnectorDelayOver
    PROVE  Inv'
<1>1. ConnectOnce \/ UNCHANGED network
    BY DEF ConnectorDelayOver
<1>2. UNCHANGED <<drainLoop, results, options>>
    BY DEF ConnectorDelayOver
<1>3. NetworkOK' /\ SocketServesItem' /\ SameUp
    BY <1>1, <1>2, InvParts, ConnectOnceFacts, SameNetworkFacts DEF drainLoop, results
<1>4. LoopsOK'
    <2>1. connectorTry + 1 \in Tries
        BY InvParts, Numbers DEF LoopsOK, AttemptsRemain, ConnectorDelayOver, Tries
    <2>. QED
        BY <2>1, InvParts
        DEF LoopsOK, ConnectorDelayOver, drainLoop, results, options, AttemptsRemain
<1>5. Drains
    BY <1>2, <1>3, KeepsCommands DEF LosesLines, SameUp, drainLoop, results
<1>. QED
    BY <1>3, <1>4, <1>5, DrainInv

LEMMA PumpDelayOverInv ==
    ASSUME Inv, PumpDelayOver
    PROVE  Inv'
<1>1. /\ ConnectOnce \/ UNCHANGED network
      /\ pump = "delay" /\ pump' \in {"ready", "attempt"} /\ pumpTry' = pumpTry + 1
      /\ UNCHANGED <<connectLoop, results, options, queue, item>>
    BY DEF PumpDelayOver
<1>2. NetworkOK' /\ SocketServesItem' /\ SameUp
    BY <1>1, InvParts, ConnectOnceFacts, SameNetworkFacts DEF results
<1>3. LoopsOK'
    <2>1. pumpTry + 1 \in Tries
        BY <1>1, InvParts, Numbers DEF LoopsOK, AttemptsRemain, Tries
    <2>. QED
        BY <1>1, <2>1, InvParts DEF LoopsOK, connectLoop, results, options, AttemptsRemain
<1>4. Drains
    BY <1>1, <1>2, KeepsCommands DEF Holding, LosesLines, SameUp, results
<1>. QED
    BY <1>2, <1>3, <1>4, DrainInv

LEMMA ConnUpInv ==
    ASSUME Inv, ConnUp
    PROVE  Inv'
<1>1. /\ connecting # None /\ pump # "ready"
      /\ conns' = [conns EXCEPT ![connecting].state = "open"]
      /\ socket' = connecting /\ connecting' = None
      /\ pump' = IF pump = "attempt" THEN "ready" ELSE pump
      /\ UNCHANGED <<results, options, queue, item, pumpTry, connectorTry>>
    BY DEF ConnUp, Microtask
<1>2. /\ conns \in [Conns -> ConnType] /\ connecting \in Conns /\ socket = None
      /\ \A i \in Conns : /\ conns[i].state \in {"gone", "connecting"}
                          /\ conns[i].fin = "no" /\ conns[i].down = <<>>
                          /\ conns[i].state = "connecting" => i = connecting
      /\ conns[connecting].up = <<>>
    BY <1>1, InvParts, Numbers DEF NetworkOK, OneConnection
<1>. DEFINE d == [conns[connecting] EXCEPT !.state = "open"]
<1>3. /\ d \in ConnType /\ d.state = "open" /\ d.fin = "no" /\ d.up = <<>> /\ d.down = <<>>
    BY <1>2 DEF ConnType
<1>4. /\ conns' \in [Conns -> ConnType] /\ conns'[connecting] = d
      /\ \A i \in Conns : i # connecting => conns'[i] = conns[i]
    BY <1>1, <1>2, <1>3
<1>. HIDE DEF d
<1>5. SameUp
    BY <1>2, <1>3, <1>4 DEF SameUp
<1>6. NetworkOK'
    <2>1. \A i \in Conns : i # connecting =>
            /\ conns'[i].state = "gone" /\ conns'[i].fin = "no" /\ conns'[i].down = <<>>
        BY <1>2, <1>4
    <2>2. \A i \in Conns : conns'[i].state # "connecting"
        BY <1>3, <1>4, <2>1
    <2>. QED
        BY <1>1, <1>2, <1>3, <1>4, <2>1, <2>2 DEF NetworkOK, OneConnection
<1>7. SocketServesItem'
    BY <1>1, <1>3, <1>4, EmptyFacts DEF SocketServesItem
<1>8. LoopsOK'
    BY <1>1, InvParts DEF ConnUp, LoopsOK, results, options, AttemptsRemain
<1>9. Drains
    BY <1>1, <1>5, KeepsCommands DEF Holding, LosesLines, SameUp, results
<1>. QED
    BY <1>6, <1>7, <1>8, <1>9, DrainInv

LEMMA ConnFailInv ==
    ASSUME Inv, ConnFail
    PROVE  Inv'
<1>1. /\ connecting # None
      /\ conns' = [conns EXCEPT ![connecting] = Gone]
      /\ connecting' = None
      /\ connector' = IF connector # "attempt" THEN connector
                      ELSE IF LastTry(connectorTry) THEN "off" ELSE "delay"
      /\ UNCHANGED <<options, socket, queue, pumpTry, connectorTry, answer, wire, executed>>
    BY DEF ConnFail
<1>2. /\ conns \in [Conns -> ConnType] /\ connecting \in Conns /\ socket = None
      /\ \A i \in Conns : /\ conns[i].state \in {"gone", "connecting"}
                          /\ conns[i].fin = "no" /\ conns[i].down = <<>>
                          /\ conns[i].state = "connecting" => i = connecting
      /\ conns[connecting].up = <<>>
    BY <1>1, InvParts, Numbers DEF NetworkOK, OneConnection
<1>3. /\ conns' \in [Conns -> ConnType] /\ conns'[connecting] = Gone
      /\ \A i \in Conns : i # connecting => conns'[i] = conns[i]
    BY <1>1, <1>2, GoneFacts
<1>4. LosesLines
    BY <1>2, <1>3, GoneFacts DEF LosesLines
<1>5. NetworkOK' /\ SocketServesItem'
    <2>1. \A i \in Conns :
            /\ conns'[i].state = "gone" /\ conns'[i].fin = "no" /\ conns'[i].down = <<>>
        BY <1>2, <1>3, GoneFacts
    <2>. QED
        BY <1>1, <1>2, <1>3, <2>1 DEF NetworkOK, OneConnection, SocketServesItem
<1>6. /\ connector' \in {"off", "attempt", "delay"}
      /\ connector' = "delay" => connectorTry < MaxReconnectAttempts
    BY <1>1, InvParts, Numbers DEF LoopsOK, AttemptsRemain, LastTry, Tries
<1>7. CASE pump = "attempt" /\ LastTry(pumpTry)
    <2>1. /\ pump' = "next" /\ item' = None
          /\ outcome' = [outcome EXCEPT ![item] = "notConnected"]
        BY <1>7 DEF ConnFail
    <2>2. LoopsOK'
        BY <1>1, <1>6, <2>1, InvParts DEF LoopsOK, options, AttemptsRemain, Outcomes
    <2>3. Drains
        BY <1>1, <1>4, <1>7, <2>1, ItemSettles DEF Holding, Failures
    <2>. QED
        BY <1>5, <2>2, <2>3, DrainInv
<1>8. CASE ~(pump = "attempt" /\ LastTry(pumpTry))
    <2>1. /\ pump' = IF pump = "attempt" THEN "delay" ELSE pump
          /\ UNCHANGED <<item, outcome>>
        BY <1>8 DEF ConnFail
    <2>2. pump' = "delay" => pumpTry < MaxReconnectAttempts
        BY <1>8, <2>1, InvParts, Numbers DEF LoopsOK, AttemptsRemain, LastTry, Tries
    <2>3. LoopsOK'
        BY <1>1, <1>6, <2>1, <2>2, InvParts DEF LoopsOK, options, AttemptsRemain
    <2>4. Drains
        BY <1>1, <1>4, <1>8, <2>1, KeepsCommands DEF Holding
    <2>. QED
        BY <1>5, <2>3, <2>4, DrainInv
<1>. QED
    BY <1>7, <1>8

\* The queue's first command becomes the item, and goes on or fails.
LEMMA TakeDrains ==
    ASSUME Inv, SameUp, UNCHANGED <<executed, answer>>, queue # <<>>, Take,
           pump \in {"starting", "next"},
           \/ pump' \in {"ready", "attempt"} /\ UNCHANGED outcome
           \/ pump' = "next" /\ outcome' = [outcome EXCEPT ![item'] = "notConnected"]
    PROVE  Drains
<1>1. /\ queue \in Seq(Commands) /\ outcome \in [Commands -> Outcomes] /\ Increasing(queue)
      /\ \A c \in Range(queue) : outcome[c] = "pending"
    BY InvParts DEF LoopsOK, LeaveInOrder
<1>2. item' = Head(queue) /\ queue' = Tail(queue)
    BY DEF Take
<1>3. /\ item' \in Commands /\ Range(queue) = {item'} \cup Range(queue')
      /\ \A c \in Range(queue') : item' < c
      /\ Increasing(queue') /\ Range(queue) \subseteq Commands
    BY <1>1, <1>2, TailFacts, SeqFacts
<1>4. \A c \in Range(queue') : c # item'
    BY <1>3, Numbers
<1>5. CASE pump' \in {"ready", "attempt"} /\ UNCHANGED outcome
    BY <1>1, <1>3, <1>5 DEF Drains, SameUp, Holding
<1>6. CASE pump' = "next" /\ outcome' = [outcome EXCEPT ![item'] = "notConnected"]
    <2>1. \A c \in Commands : outcome'[c] = IF c = item' THEN "notConnected" ELSE outcome[c]
        BY <1>1, <1>3, <1>6
    <2>2. ~Holding' /\ pump' # "waiting"
        BY <1>6 DEF Holding
    <2>. QED
        BY <1>1, <1>3, <1>4, <2>1, <2>2 DEF Drains, SameUp
<1>. QED
    BY <1>5, <1>6

LEMMA IterateInv ==
    ASSUME Inv, Iterate
    PROVE  Inv'
<1>1. /\ pump \in {"starting", "next"}
      /\ UNCHANGED <<connectLoop, options, answer, wire, executed>>
    BY DEF Iterate
<1>2. CASE queue = <<>> \/ closed
    <2>1. /\ pump' = "finishing" /\ UNCHANGED <<network, queue, item, pumpTry, outcome>>
        BY <1>2 DEF Iterate
    <2>2. NetworkOK' /\ SocketServesItem' /\ SameUp
        BY <1>1, <2>1, InvParts, SameNetworkFacts
    <2>3. LoopsOK'
        BY <1>1, <2>1, InvParts DEF LoopsOK, options, connectLoop, AttemptsRemain
    <2>4. Drains
        BY <1>1, <2>1, <2>2, KeepsCommands DEF Holding, LosesLines, SameUp
    <2>. QED
        BY <2>2, <2>3, <2>4, DrainInv
<1>3. CASE ~(queue = <<>> \/ closed)
    <2>1. /\ Take /\ (ConnectOnce \/ UNCHANGED network)
          /\ \/ pump' \in {"ready", "attempt"} /\ UNCHANGED outcome
             \/ pump' = "next" /\ outcome' = [outcome EXCEPT ![item'] = "notConnected"]
          /\ pumpTry' \in {1, pumpTry}
        BY <1>3 DEF Iterate
    <2>2. NetworkOK' /\ SocketServesItem' /\ SameUp
        BY <1>1, <2>1, InvParts, ConnectOnceFacts, SameNetworkFacts
    <2>3. Drains
        BY <1>1, <1>3, <2>1, <2>2, TakeDrains
    <2>4. LoopsOK'
        <3>1. item' \in Commands /\ queue' \in Seq(Commands)
            BY <1>3, <2>1, InvParts, TailFacts DEF LoopsOK, Take
        <3>2. outcome' \in [Commands -> Outcomes]
            BY <2>1, InvParts DEF LoopsOK, Outcomes
        <3>3. pumpTry' \in Tries /\ pump' \in {"ready", "attempt", "next"}
            BY <2>1, InvParts, Numbers DEF LoopsOK
        <3>. QED
            BY <1>1, <3>1, <3>2, <3>3, InvParts DEF LoopsOK, options, connectLoop, AttemptsRemain
    <2>. QED
        BY <2>2, <2>3, <2>4, DrainInv
<1>. QED
    BY <1>2, <1>3

\* The command in flight settles, if there is one.
LEMMA SettleDrains ==
    ASSUME Inv, LosesLines, UNCHANGED <<executed, answer, queue>>, NEW why \in Failures,
           SettleInFlight(why)
    PROVE  Drains
<1>1. CASE pump = "waiting"
    BY <1>1, ItemSettles DEF SettleInFlight, Holding
<1>2. CASE pump # "waiting"
    BY <1>2, KeepsCommands DEF SettleInFlight
<1>. QED
    BY <1>1, <1>2

\* What a step that settles the command in flight leaves of the loops.
LEMMA SettleLoops ==
    ASSUME Inv, NEW why \in Failures, SettleInFlight(why),
           UNCHANGED <<connectLoop, options, pumpTry, answer, executed, queue>>
    PROVE  LoopsOK'
BY InvParts
DEF LoopsOK, SettleInFlight, connectLoop, options, AttemptsRemain, Failures, Outcomes

LEMMA CommandTimeoutInv ==
    ASSUME Inv, CommandTimeout
    PROVE  Inv'
<1>1. /\ SettleInFlight("timeout") /\ LosesSocket
      /\ UNCHANGED <<connectLoop, options, queue, pumpTry, answer, executed>>
    BY DEF CommandTimeout, LosesSocket
<1>2. "timeout" \in Failures
    BY DEF Failures
<1>3. NetworkOK' /\ SocketServesItem' /\ SameUp
    BY <1>1, InvParts, LosesSocketFacts
<1>4. Drains /\ LoopsOK'
    BY <1>1, <1>2, <1>3, SettleDrains, SettleLoops DEF LosesLines, SameUp
<1>. QED
    BY <1>3, <1>4, DrainInv

LEMMA SocketClosesInv ==
    ASSUME Inv, NEW i \in Conns, SocketCloses(i)
    PROVE  Inv'
<1>1. i = socket /\ connecting = None /\ socket # None
    BY InvParts, OpenIsSocket, Numbers DEF SocketCloses
<1>2. UNCHANGED <<connectLoop, options, connecting, queue, pumpTry, answer, executed>>
    BY DEF SocketCloses
<1>3. LosesSocket
    <2>1. CASE closed
        BY <1>1, <2>1 DEF SocketCloses, LosesSocket
    <2>2. CASE ~closed
        <3>1. conns' = Destroyed(Destroyed(conns, i), socket)
            BY <2>2 DEF SocketCloses
        <3>2. Destroyed(Destroyed(conns, i), socket) = Destroyed(conns, socket)
            <4>. DEFINE d == [Gone EXCEPT !.up = conns[socket].up]
                        e == [Gone EXCEPT !.up = d.up]
            <4>1. conns \in [Conns -> ConnType] /\ d.up = conns[socket].up
                BY <1>1, InvParts, GoneFacts DEF NetworkOK
            <4>2. e = d
                BY <4>1
            <4>3. Destroyed(conns, socket) = [conns EXCEPT ![socket] = d]
                BY <1>1 DEF Destroyed
            <4>4. Destroyed([conns EXCEPT ![socket] = d], socket) =
                    [[conns EXCEPT ![socket] = d] EXCEPT ![socket] = e]
                BY <1>1, <4>1 DEF Destroyed
            <4>. HIDE DEF d, e
            <4>. QED
                BY <1>1, <4>1, <4>2, <4>3, <4>4
        <3>. QED
            BY <2>2, <3>1, <3>2 DEF SocketCloses, LosesSocket
    <2>. QED
        BY <2>1, <2>2
<1>4. NetworkOK' /\ SocketServesItem' /\ SameUp
    BY <1>3, InvParts, LosesSocketFacts
<1>5. CASE closed
    <2>1. UNCHANGED <<outcome, pump, item, wire>>
        BY <1>5 DEF SocketCloses
    <2>2. LoopsOK'
        BY <1>2, <2>1, InvParts DEF LoopsOK, connectLoop, options, AttemptsRemain
    <2>3. Drains
        BY <1>2, <1>4, <2>1, KeepsCommands DEF LosesLines, SameUp
    <2>. QED
        BY <1>4, <2>2, <2>3, DrainInv
<1>6. CASE ~closed
    <2>1. SettleInFlight("lost") /\ "lost" \in Failures
        BY <1>6 DEF SocketCloses, Failures
    <2>2. Drains /\ LoopsOK'
        BY <1>2, <1>4, <2>1, SettleDrains, SettleLoops DEF LosesLines, SameUp
    <2>. QED
        BY <1>4, <2>2, DrainInv
<1>. QED
    BY <1>5, <1>6

LEMMA CloseInv ==
    ASSUME Inv, Close
    PROVE  Inv'
<1>1. /\ LosesSocket /\ queue' = <<>> /\ closed' = TRUE
      /\ UNCHANGED <<connectLoop, autoReconnect, connecting, pumpTry, answer, executed>>
      /\ IF pump = "waiting" THEN pump' = "next" /\ item' = None /\ wire' = None
                             ELSE UNCHANGED <<pump, item, wire>>
    BY DEF Close, LosesSocket
<1>2. outcome' = [c \in Commands |->
                    IF \/ \E i \in DOMAIN queue : queue[i] = c
                       \/ pump = "waiting" /\ item = c
                    THEN "closed" ELSE outcome[c]]
    BY DEF Close
<1>3. NetworkOK' /\ SocketServesItem' /\ SameUp
    BY <1>1, InvParts, LosesSocketFacts
<1>4. LoopsOK'
    <2>1. outcome' \in [Commands -> Outcomes]
        BY <1>2, InvParts DEF LoopsOK, Outcomes
    <2>. QED
        BY <1>1, <2>1, InvParts, EmptyFacts DEF LoopsOK, connectLoop, AttemptsRemain
<1>5. Drains
    <2>1. /\ queue \in Seq(Commands) /\ \A c \in Range(queue) : outcome[c] = "pending"
          /\ Holding => /\ item \in Commands /\ outcome[item] = "pending"
                        /\ \A c \in Range(queue) : item < c
        BY InvParts DEF LoopsOK, LeaveInOrder
    <2>2. \A c \in Commands :
            outcome'[c] = IF c \in Range(queue) \/ (pump = "waiting" /\ item = c)
                          THEN "closed" ELSE outcome[c]
        BY <1>2, <2>1, SeqFacts DEF Range
    <2>3. \A c \in Commands :
            /\ outcome'[c] = "none" <=> outcome[c] = "none"
            /\ outcome'[c] = "resolved" => outcome[c] = "resolved" /\ answer'[c] = answer[c]
        BY <1>1, <2>1, <2>2 DEF Holding
    <2>4. pump' # "waiting"
        BY <1>1
    <2>5. Holding' => /\ Holding /\ item' = item /\ pump # "waiting"
                      /\ item' \in Commands /\ outcome'[item'] = "pending"
        <3>1. SUFFICES ASSUME Holding'
                       PROVE  /\ Holding /\ item' = item /\ pump # "waiting"
                              /\ item' \in Commands /\ outcome'[item'] = "pending"
            OBVIOUS
        <3>2. Holding /\ item' = item /\ pump # "waiting"
            BY <1>1, <3>1 DEF Holding
        <3>3. item \notin Range(queue)
            <4>1. item \in Nat /\ \A c \in Range(queue) : item < c
                BY <2>1, <3>2, Numbers
            <4>. QED
                BY <4>1
        <3>. QED
            BY <2>1, <2>2, <3>2, <3>3
    <2>. QED
        BY <1>1, <1>3, <2>3, <2>4, <2>5, EmptyFacts DEF Drains, SameUp
<1>. QED
    BY <1>3, <1>4, <1>5, DrainInv

\* Only the connection changes.
LEMMA OnlyConnsInv ==
    ASSUME Inv, UNCHANGED <<connectLoop, drainLoop, results, options>>, LosesLines,
           NetworkOK', SocketServesItem'
    PROVE  Inv'
<1>. USE DEF connectLoop, drainLoop, results, options
<1>1. LoopsOK'
    BY InvParts DEF LoopsOK, AttemptsRemain
<1>2. Drains
    BY KeepsCommands
<1>. QED
    BY <1>1, <1>2, DrainInv

LEMMA SocketEndsInv ==
    ASSUME Inv, SocketEnds
    PROVE  Inv'
<1>. DEFINE d == [conns[socket] EXCEPT !.state = "ended"]
<1>1. /\ socket # None /\ conns' = [conns EXCEPT ![socket].state = "ended"]
      /\ UNCHANGED <<connectLoop, drainLoop, results, options, socket, connecting>>
    BY DEF SocketEnds, IsConnected
<1>2. /\ conns \in [Conns -> ConnType] /\ socket \in Conns /\ conns[socket] \in ConnType
    BY <1>1, InvParts DEF NetworkOK
<1>3. /\ d \in ConnType /\ d.state = "ended" /\ d.fin = conns[socket].fin
      /\ d.up = conns[socket].up /\ d.down = conns[socket].down
    BY <1>2 DEF ConnType
<1>4. conns' = [conns EXCEPT ![socket] = d]
    BY <1>1, <1>2
<1>. HIDE DEF d
<1>5. /\ NetworkOK' /\ conns'[socket] = d
      /\ \A i \in Conns : i # socket => conns'[i] = conns[i]
    BY <1>1, <1>3, <1>4, InvParts, SocketChanges
<1>6. LosesLines
    BY <1>3, <1>5 DEF LosesLines
<1>7. SocketServesItem'
    BY <1>1, <1>3, <1>5, InvParts DEF SocketServesItem, drainLoop, results
<1>. QED
    BY <1>1, <1>5, <1>6, <1>7, OnlyConnsInv

LEMMA ServerEndsInv ==
    ASSUME Inv, NEW i \in Conns, NEW idle \in BOOLEAN, ServerEnds(i, idle)
    PROVE  Inv'
<1>. DEFINE q == IF idle THEN Append(conns[i].down, IdleErr) ELSE conns[i].down
            d == [conns[i] EXCEPT !.fin = "end", !.down = q]
<1>1. /\ conns[i].state = "open" /\ conns[i].fin = "no"
      /\ conns' = [conns EXCEPT ![i].fin = "end",
                                ![i].down = IF idle THEN Append(@, IdleErr) ELSE @]
      /\ UNCHANGED <<connectLoop, drainLoop, results, options, socket, connecting>>
    BY DEF ServerEnds
<1>2. /\ i = socket /\ conns \in [Conns -> ConnType] /\ conns[i] \in ConnType /\ socket # None
    BY <1>1, InvParts, OpenIsSocket, Numbers DEF NetworkOK
<1>3. /\ conns[i].down \in Seq(Commands \cup {IdleErr}) /\ q \in Seq(Commands \cup {IdleErr})
      /\ \A k \in DOMAIN q : q[k] # IdleErr =>
           k \in DOMAIN conns[i].down /\ q[k] = conns[i].down[k]
    <2>1. conns[i].down \in Seq(Commands \cup {IdleErr})
        BY <1>2 DEF ConnType
    <2>. QED
        BY <2>1, AppendFacts
<1>4. conns' = [conns EXCEPT ![i] = d]
    BY <1>1, <1>2
<1>. HIDE DEF q
<1>5. d \in ConnType /\ d.state = "open" /\ d.fin = "end" /\ d.up = conns[i].up /\ d.down = q
    BY <1>1, <1>2, <1>3 DEF ConnType, Fins
<1>. HIDE DEF d
<1>6. /\ NetworkOK' /\ conns'[socket] = d
      /\ \A j \in Conns : j # socket => conns'[j] = conns[j]
    BY <1>1, <1>2, <1>4, <1>5, InvParts, SocketChanges
<1>7. LosesLines
    BY <1>2, <1>5, <1>6 DEF LosesLines
<1>8. SocketServesItem'
    BY <1>1, <1>2, <1>3, <1>5, <1>6, InvParts DEF SocketServesItem, drainLoop, results
<1>. QED
    BY <1>1, <1>6, <1>7, <1>8, OnlyConnsInv

LEMMA ServerResetsInv ==
    ASSUME Inv, NEW i \in Conns, ServerResets(i)
    PROVE  Inv'
<1>. DEFINE d == [conns[i] EXCEPT !.fin = "reset", !.up = <<>>, !.down = <<>>]
<1>1. /\ conns[i].state = "open"
      /\ conns' = [conns EXCEPT ![i].fin = "reset", ![i].up = <<>>, ![i].down = <<>>]
      /\ UNCHANGED <<connectLoop, drainLoop, results, options, socket, connecting>>
    BY DEF ServerResets
<1>2. /\ i = socket /\ conns \in [Conns -> ConnType] /\ conns[i] \in ConnType /\ socket # None
    BY <1>1, InvParts, OpenIsSocket, Numbers DEF NetworkOK
<1>3. conns' = [conns EXCEPT ![i] = d]
    BY <1>1, <1>2
<1>4. d \in ConnType /\ d.state = "open" /\ d.fin = "reset" /\ d.up = <<>> /\ d.down = <<>>
    BY <1>1, <1>2, EmptyFacts DEF ConnType, Fins
<1>. HIDE DEF d
<1>5. /\ NetworkOK' /\ conns'[socket] = d
      /\ \A j \in Conns : j # socket => conns'[j] = conns[j]
    BY <1>1, <1>2, <1>3, <1>4, InvParts, SocketChanges
<1>6. LosesLines
    BY <1>2, <1>4, <1>5 DEF LosesLines
<1>7. SocketServesItem'
    BY <1>1, <1>2, <1>4, <1>5, EmptyFacts DEF SocketServesItem
<1>. QED
    BY <1>1, <1>5, <1>6, <1>7, OnlyConnsInv

LEMMA DataInv ==
    ASSUME Inv, NEW n \in 1..(MaxCommands + 1), Data(n)
    PROVE  Inv'
<1>. DEFINE s == conns[socket].down
            q == SubSeq(s, n + 1, Len(s))
            d == [conns[socket] EXCEPT !.down = q]
            line == s[1]
            why == IF line = IdleErr THEN "serverError" ELSE "resolved"
<1>1. /\ socket # None /\ n \in 1..Len(s)
      /\ conns' = [conns EXCEPT ![socket].down = SubSeq(@, n + 1, Len(@))]
      /\ SettleInFlight(why)
      /\ answer' = IF pump = "waiting" THEN [answer EXCEPT ![item] = line] ELSE answer
      /\ UNCHANGED <<connectLoop, options, socket, connecting, queue, pumpTry, executed>>
    BY DEF Data
<1>2. /\ conns \in [Conns -> ConnType] /\ socket \in Conns /\ conns[socket] \in ConnType
      /\ conns[socket].state \in {"open", "ended"}
      /\ s \in Seq(Commands \cup {IdleErr})
    BY <1>1, InvParts DEF NetworkOK, ConnType
<1>3. /\ q \in Seq(Commands \cup {IdleErr}) /\ DOMAIN q = 1..Len(s) - n
      /\ \A k \in DOMAIN q : q[k] = s[n + k]
      /\ 1 \in DOMAIN s /\ line \in Commands \cup {IdleErr} /\ n \in Nat /\ n >= 1
      /\ Len(s) \in Nat /\ DOMAIN s = 1..Len(s)
    BY <1>1, <1>2
<1>4. conns' = [conns EXCEPT ![socket] = d]
    BY <1>1, <1>2
<1>. HIDE DEF q
<1>5. /\ d \in ConnType /\ d.state = conns[socket].state /\ d.fin = conns[socket].fin
      /\ d.up = conns[socket].up /\ d.down = q
    BY <1>2, <1>3 DEF ConnType
<1>. HIDE DEF d
<1>6. /\ NetworkOK' /\ conns'[socket] = d
      /\ \A i \in Conns : i # socket => conns'[i] = conns[i]
    BY <1>1, <1>2, <1>4, <1>5, InvParts, SocketChanges
<1>7. LosesLines /\ SameUp
    BY <1>5, <1>6 DEF LosesLines, SameUp
<1>8. /\ \A k \in DOMAIN s : s[k] # IdleErr =>
           k = 1 /\ pump = "waiting" /\ s[k] = item /\ item \in Range(executed)
      /\ conns[socket].fin = "no" =>
           /\ \A k \in DOMAIN s : s[k] # IdleErr
           /\ conns[socket].up # <<>> => s = <<>>
    BY <1>1, InvParts DEF SocketServesItem
<1>. HIDE DEF s
<1>9. \A k \in DOMAIN q : q[k] = IdleErr
    <2>. SUFFICES ASSUME NEW k \in DOMAIN q PROVE q[k] = IdleErr
        OBVIOUS
    <2>1. n + k \in DOMAIN s /\ n + k # 1 /\ q[k] = s[n + k]
        BY <1>3
    <2>. QED
        BY <1>8, <2>1
<1>10. SocketServesItem'
    <2>1. conns[socket].fin = "no" => DOMAIN q = {} /\ conns[socket].up = <<>>
        <3>. SUFFICES ASSUME conns[socket].fin = "no"
                      PROVE  DOMAIN q = {} /\ conns[socket].up = <<>>
            OBVIOUS
        <3>1. \A k \in DOMAIN q : FALSE
            <4>. SUFFICES ASSUME NEW k \in DOMAIN q PROVE FALSE
                OBVIOUS
            <4>1. n + k \in DOMAIN s /\ q[k] = s[n + k]
                BY <1>3
            <4>. QED
                BY <1>8, <1>9, <4>1
        <3>2. s # <<>>
            BY <1>3, EmptyFacts
        <3>. QED
            BY <1>8, <3>1, <3>2
    <2>. QED
        BY <1>1, <1>5, <1>6, <1>9, <2>1 DEF SocketServesItem
<1>11. LoopsOK'
    <2>1. why \in Outcomes
        BY DEF Outcomes
    <2>2. item \in Commands \cup {None} /\ outcome \in [Commands -> Outcomes]
          /\ answer \in [Commands -> Commands \cup {None, IdleErr}]
        BY InvParts DEF LoopsOK
    <2>. HIDE DEF why, line
    <2>3. answer' \in [Commands -> Commands \cup {None, IdleErr}]
        BY <1>1, <1>3, <2>2
    <2>4. outcome' \in [Commands -> Outcomes]
        BY <1>1, <2>1, <2>2 DEF SettleInFlight
    <2>5. /\ wire' \in Conns \cup {None} /\ item' \in Commands \cup {None}
          /\ pump' \in {pump, "next"}
        BY <1>1, InvParts DEF SettleInFlight, LoopsOK
    <2>. QED
        BY <1>1, <2>3, <2>4, <2>5, InvParts DEF LoopsOK, connectLoop, options, AttemptsRemain
<1>12. Drains
    <2>1. CASE pump # "waiting"
        BY <1>1, <1>7, <2>1, KeepsCommands DEF SettleInFlight
    <2>2. CASE pump = "waiting"
        <3>1. /\ item \in Commands /\ Holding /\ ~Holding' /\ pump' = "next"
              /\ outcome \in [Commands -> Outcomes]
              /\ answer \in [Commands -> Commands \cup {None, IdleErr}]
              /\ outcome' = [outcome EXCEPT ![item] = why]
              /\ answer' = [answer EXCEPT ![item] = line]
            BY <1>1, <2>2, InvParts DEF SettleInFlight, Holding, LeaveInOrder, LoopsOK
        <3>2. CASE line = IdleErr
            <4>1. why \in Failures /\ \A c \in Commands : c # item => answer'[c] = answer[c]
                BY <3>1, <3>2 DEF Failures
            <4>. HIDE DEF why, line
            <4>. QED
                BY <1>1, <1>7, <3>1, <4>1, ItemSettles
        <3>3. CASE line # IdleErr
            <4>1. line = item /\ item \in Range(executed)
                BY <1>3, <1>8, <3>3
            <4>2. \A c \in Commands :
                    /\ outcome'[c] = IF c = item THEN "resolved" ELSE outcome[c]
                    /\ answer'[c] = IF c = item THEN item ELSE answer[c]
                BY <3>1, <3>3, <4>1
            <4>3. /\ outcome[item] = "pending" /\ Increasing(queue)
                  /\ \A c \in Range(queue) : c \in Commands /\ item < c /\ outcome[c] = "pending"
                BY <3>1, InvParts, SeqFacts DEF LeaveInOrder, LoopsOK
            <4>4. \A c \in Range(queue) : c # item
                <5>1. item \in Nat /\ \A c \in Range(queue) : item < c
                    BY <3>1, <4>3, Numbers
                <5>. QED
                    BY <5>1
            <4>. HIDE DEF Holding
            <4>. QED
                BY <1>1, <1>7, <2>2, <3>1, <4>1, <4>2, <4>3, <4>4 DEF Drains, SameUp
        <3>. QED
            BY <3>2, <3>3
    <2>. QED
        BY <2>1, <2>2
<1>. QED
    BY <1>6, <1>10, <1>11, <1>12, DrainInv

LEMMA CommandInv ==
    ASSUME Inv, NEW c \in Commands, Command(c)
    PROVE  Inv'
<1>1. /\ outcome[c] = "none" /\ pump # "starting"
      /\ UNCHANGED <<network, connectLoop, options, item, pumpTry, answer, wire, executed>>
    BY DEF Command, UserMayRun
<1>2. /\ outcome \in [Commands -> Outcomes] /\ queue \in Seq(Commands)
      /\ \A a, b \in Commands : a < b /\ outcome[a] = "none" => outcome[b] = "none"
      /\ \A b \in 1..(c - 1) : outcome[b] # "none"
      /\ Commands \subseteq Nat /\ Commands = 1..MaxCommands
    BY InvParts, Numbers DEF LoopsOK, LeaveInOrder, Command, Commands
<1>3. PICK why \in {"closed", "pending"} : outcome' = [outcome EXCEPT ![c] = why]
    BY DEF Command
<1>4. \A b \in Commands : outcome'[b] = IF b = c THEN why ELSE outcome[b]
    BY <1>2, <1>3
<1>5. /\ pump' = IF queue' # queue /\ pump = "off" THEN "starting" ELSE pump
      /\ (why = "closed" /\ queue' = queue) \/ (why = "pending" /\ queue' = Append(queue, c))
    <2>1. CASE closed
        <3>1. outcome' = [outcome EXCEPT ![c] = "closed"] /\ UNCHANGED <<queue, pump>>
            BY <2>1 DEF Command
        <3>. QED
            BY <1>2, <1>3, <3>1
    <2>2. CASE ~closed
        <3>1. /\ outcome' = [outcome EXCEPT ![c] = "pending"] /\ queue' = Append(queue, c)
              /\ pump' = IF pump = "off" THEN "starting" ELSE pump
            BY <2>2 DEF Command
        <3>2. queue' # queue
            BY <1>2, <3>1
        <3>. QED
            BY <1>2, <1>3, <3>1, <3>2
    <2>. QED
        BY <2>1, <2>2
<1>6. \A b \in Commands : outcome[b] # "none" => b < c
    BY <1>1, <1>2
<1>7. /\ queue' \in Seq(Commands) /\ Increasing(queue')
      /\ \A b \in Range(queue') : outcome'[b] = "pending" /\ (b = c \/ b \in Range(queue))
    <2>1. /\ Increasing(queue)
          /\ \A b \in Range(queue) : b \in Commands /\ outcome[b] = "pending" /\ b < c
        BY <1>2, <1>6, InvParts, SeqFacts DEF LeaveInOrder
    <2>2. CASE why = "closed" /\ queue' = queue
        <3>1. \A b \in Range(queue) : b \in Commands /\ outcome[b] = "pending" /\ b # c
            BY <1>1, <2>1
        <3>2. \A b \in Range(queue) : outcome'[b] = "pending"
            BY <1>4, <3>1
        <3>3. queue' \in Seq(Commands) /\ Increasing(queue') /\ Range(queue') = Range(queue)
            BY <1>2, <2>1, <2>2
        <3>. QED
            BY <3>2, <3>3
    <2>3. CASE why = "pending" /\ queue' = Append(queue, c)
        <3>1. /\ queue' \in Seq(Commands) /\ Increasing(queue')
              /\ Range(queue') = Range(queue) \cup {c}
            <4>1. queue \in Seq(Commands)
                BY <1>2
            <4>2. /\ Append(queue, c) \in Seq(Commands) /\ Increasing(Append(queue, c))
                  /\ Range(Append(queue, c)) = Range(queue) \cup {c}
                BY <2>1, <4>1, AppendFacts
            <4>. QED
                BY <2>3, <4>2
        <3>2. \A b \in Range(queue) : outcome'[b] = "pending"
            BY <1>4, <2>1, <2>3
        <3>3. outcome'[c] = "pending"
            BY <1>4, <2>3
        <3>. QED
            BY <3>1, <3>2, <3>3
    <2>. QED
        BY <1>5, <2>2, <2>3
<1>8. (Holding' <=> Holding) /\ (pump' = "waiting" <=> pump = "waiting")
    BY <1>5 DEF Holding
<1>9. NetworkOK' /\ SocketServesItem'
    BY <1>1, <1>8, InvParts DEF NetworkOK, OneConnection, SocketServesItem, network
<1>10. LoopsOK'
    <2>1. outcome' \in [Commands -> Outcomes]
        BY <1>2, <1>3 DEF Outcomes
    <2>. QED
        BY <1>1, <1>5, <1>7, <2>1, InvParts DEF LoopsOK, connectLoop, options, AttemptsRemain
<1>11. WrittenOnce' /\ Written' = Written /\ WireIsKnown'
    BY <1>1, <1>8, InvParts DEF WrittenOnce, Written, Lines, WireIsKnown, network
<1>12. Written \subseteq Commands /\ Range(queue) \subseteq Commands
    <2>1. /\ executed \in Seq(Commands) /\ queue \in Seq(Commands)
          /\ \A i \in Conns : conns[i].up \in Seq(Commands)
        BY InvParts DEF LoopsOK, NetworkOK, ConnType
    <2>. QED
        BY <2>1, SeqFacts DEF Written, Lines
<1>13. LeaveInOrder'
    <2>1. \A a, b \in Commands : a < b /\ outcome'[a] = "none" => outcome'[b] = "none"
        <3>1. \A a \in Commands : outcome'[a] = "none" => outcome[a] = "none" /\ a # c
            BY <1>3, <1>4
        <3>2. \A a \in Commands : outcome[a] = "none" => c <= a
            BY <1>2
        <3>. QED
            BY <1>2, <1>4, <3>1, <3>2
    <2>2. Holding' => /\ item' \in Commands /\ outcome'[item'] = "pending"
                      /\ \A b \in Range(queue') : item' < b
        <3>. SUFFICES ASSUME Holding'
                      PROVE  /\ item' \in Commands /\ outcome'[item'] = "pending"
                             /\ \A b \in Range(queue') : item' < b
            OBVIOUS
        <3>1. /\ item \in Commands /\ outcome[item] = "pending" /\ item' = item
              /\ \A b \in Range(queue) : item < b
            BY <1>1, <1>8, InvParts DEF LeaveInOrder
        <3>2. item < c /\ item # c
            BY <1>1, <1>6, <3>1
        <3>. QED
            BY <1>4, <1>7, <3>1, <3>2
    <2>3. ASSUME NEW b \in Written'
          PROVE  /\ outcome'[b] # "none"
                 /\ \A q \in Range(queue') : b < q
                 /\ Holding' => b < item' \/ (b = item' /\ pump' = "waiting")
        <3>1. /\ b \in Commands /\ outcome[b] # "none" /\ \A q \in Range(queue) : b < q
              /\ Holding => b < item \/ (b = item /\ pump = "waiting")
            BY <1>11, <1>12, InvParts DEF LeaveInOrder
        <3>2. b < c /\ b # c
            BY <1>1, <1>6, <3>1
        <3>. QED
            BY <1>1, <1>4, <1>7, <1>8, <3>1, <3>2
    <2>. QED
        BY <1>7, <2>1, <2>2, <2>3 DEF LeaveInOrder
<1>14. ResolvedByOwn'
    BY <1>1, <1>3, <1>4, InvParts DEF ResolvedByOwn
<1>15. ExecutedInTurn'
    <2>1. \A i \in DOMAIN executed : executed[i] \in Commands
        BY InvParts, SeqFacts DEF LoopsOK
    <2>. QED
        BY <1>1, <1>3, <1>4, <1>8, <2>1, InvParts DEF ExecutedInTurn
<1>. QED
    BY <1>9, <1>10, <1>11, <1>13, <1>14, <1>15, HalvesNext DEF Inv

\* The item goes out on the socket, the one place it is then.
LEMMA WriteInv ==
    ASSUME Inv, Write
    PROVE  Inv'
<1>1. /\ pump = "ready"
      /\ UNCHANGED <<connectLoop, options, socket, connecting, queue, pumpTry, answer, executed>>
    BY DEF Write
<1>2. /\ Holding /\ item \in Commands /\ outcome[item] = "pending"
      /\ \A c \in Range(queue) : item < c
      /\ \A c \in Written : c < item
    BY <1>1, InvParts DEF Holding, LeaveInOrder
<1>3. CASE socket = None
    <2>1. /\ pump' = "next" /\ item' = None /\ UNCHANGED <<conns, wire>>
          /\ outcome' = [outcome EXCEPT ![item] = "notConnected"]
        BY <1>3 DEF Write
    <2>2. NetworkOK' /\ SocketServesItem' /\ SameUp
        BY <1>1, <2>1, InvParts, SameNetworkFacts DEF network
    <2>3. LoopsOK'
        BY <1>1, <2>1, InvParts DEF LoopsOK, connectLoop, options, AttemptsRemain, Outcomes
    <2>4. Drains
        BY <1>1, <1>2, <2>1, <2>2, ItemSettles DEF Holding, Failures, LosesLines, SameUp
    <2>. QED
        BY <2>2, <2>3, <2>4, DrainInv
<1>4. CASE socket # None
    <2>1. /\ pump' = "waiting" /\ wire' = socket /\ UNCHANGED <<item, outcome>>
          /\ conns' = IF conns[socket].fin = "reset" THEN conns
                      ELSE [conns EXCEPT ![socket].up = Append(@, item)]
        BY <1>4 DEF Write
    <2>2. /\ conns \in [Conns -> ConnType] /\ socket \in Conns /\ conns[socket] \in ConnType
          /\ conns[socket].state \in {"open", "ended"}
          /\ \A i \in Conns : conns[i].up \in Seq(Commands)
        BY <1>4, InvParts DEF NetworkOK, ConnType
    <2>. DEFINE q == IF conns[socket].fin = "reset" THEN conns[socket].up
                     ELSE Append(conns[socket].up, item)
                d == [conns[socket] EXCEPT !.up = q]
    <2>3. /\ q \in Seq(Commands)
          /\ Range(q) \subseteq Lines(socket) \cup {item}
          /\ item \notin Lines(socket) /\ IsInjective(conns[socket].up) => IsInjective(q)
          /\ conns[socket].fin = "no" => q = Append(conns[socket].up, item)
        <3>1. CASE conns[socket].fin = "reset"
            BY <2>2, <3>1 DEF Lines
        <3>2. CASE conns[socket].fin # "reset"
            <4>1. q = Append(conns[socket].up, item)
                BY <3>2
            <4>. QED
                BY <1>2, <2>2, <4>1, AppendFacts DEF Lines
        <3>. QED
            BY <3>1, <3>2
    <2>4. conns' = [conns EXCEPT ![socket] = d]
        <3>1. CASE conns[socket].fin = "reset"
            <4>1. d = conns[socket]
                BY <2>2, <3>1 DEF ConnType
            <4>. QED
                BY <2>1, <2>2, <3>1, <4>1
        <3>2. CASE conns[socket].fin # "reset"
            <4>1. conns' = [conns EXCEPT ![socket].up = Append(@, item)]
                BY <2>1, <3>2
            <4>2. q = Append(conns[socket].up, item)
                BY <3>2
            <4>. HIDE DEF q
            <4>. QED
                BY <2>2, <4>1, <4>2
        <3>. QED
            BY <3>1, <3>2
    <2>. HIDE DEF q
    <2>5. /\ d \in ConnType /\ d.state = conns[socket].state /\ d.fin = conns[socket].fin
          /\ d.up = q /\ d.down = conns[socket].down
        BY <2>2, <2>3 DEF ConnType
    <2>. HIDE DEF d
    <2>6. /\ NetworkOK' /\ conns'[socket] = d
          /\ \A i \in Conns : i # socket => conns'[i] = conns[i]
        BY <1>1, <1>4, <2>2, <2>4, <2>5, InvParts, SocketChanges
    <2>7. item \notin Range(executed) /\ \A i \in Conns : item \notin Lines(i)
        <3>1. item \notin Written
            BY <1>2, Numbers
        <3>. QED
            BY <3>1 DEF Written
    <2>8. \A i \in Conns : Lines(i)' \subseteq Lines(i) \cup {item}
                          /\ (i # socket => Lines(i)' = Lines(i))
        BY <2>3, <2>5, <2>6 DEF Lines
    <2>9. Written' \subseteq Written \cup {item}
        BY <1>1, <2>8 DEF Written
    <2>10. WrittenOnce'
        <3>1. \A i \in Conns : IsInjective(conns'[i].up)
            BY <2>3, <2>5, <2>6, <2>7, InvParts DEF WrittenOnce
        <3>2. \A i \in Conns : Lines(i)' \cap Range(executed) = {}
            BY <2>7, <2>8, InvParts DEF WrittenOnce
        <3>3. \A i, j \in Conns : i # j => Lines(i)' \cap Lines(j)' = {}
            BY <2>7, <2>8, InvParts DEF WrittenOnce
        <3>. QED
            BY <1>1, <3>1, <3>2, <3>3, InvParts DEF WrittenOnce
    <2>11. LeaveInOrder'
        <3>1. Holding'
            BY <2>1 DEF Holding
        <3>2. ASSUME NEW c \in Written'
              PROVE  /\ outcome[c] # "none" /\ \A x \in Range(queue) : c < x
                     /\ c < item \/ c = item
            BY <1>2, <2>9, InvParts DEF LeaveInOrder
        <3>. QED
            BY <1>1, <1>2, <2>1, <3>1, <3>2, InvParts DEF LeaveInOrder
    <2>12. SocketServesItem'
        <3>. DEFINE t == conns[socket]
        <3>1. /\ \A k \in DOMAIN t.down : t.down[k] = IdleErr
              /\ t.fin = "no" => /\ \A k \in DOMAIN t.down : t.down[k] # IdleErr
                                 /\ t.up = <<>>
            BY <1>1, <1>4, InvParts DEF SocketServesItem
        <3>2. t.fin = "no" => t.down = <<>> /\ q = <<item>>
            <4>1. t.down \in Seq(Commands \cup {IdleErr})
                BY <2>2 DEF ConnType
            <4>2. ASSUME t.fin = "no", NEW k \in DOMAIN t.down
                  PROVE  FALSE
                BY <3>1, <4>2
            <4>3. t.fin = "no" => t.down = <<>>
                <5>1. t.fin = "no" => DOMAIN t.down = {}
                    BY <4>2
                <5>2. DOMAIN t.down = 1..Len(t.down) /\ Len(t.down) \in Nat
                    BY <4>1
                <5>3. t.fin = "no" => 1 \notin 1..Len(t.down)
                    BY <5>1, <5>2
                <5>4. t.fin = "no" => Len(t.down) = 0
                    BY <5>2, <5>3
                <5>. HIDE DEF t
                <5>. QED
                    BY <4>1, <5>4, EmptySeq
            <4>4. t.fin = "no" => q = <<item>>
                BY <2>3, <3>1
            <4>. QED
                BY <4>3, <4>4
        <3>. HIDE DEF t
        <3>3. /\ d.down = t.down /\ d.fin = t.fin
            BY <2>5 DEF t
        <3>. QED
            BY <1>1, <1>4, <2>1, <2>5, <2>6, <3>1, <3>2, <3>3 DEF SocketServesItem
    <2>13. LoopsOK'
        BY <1>1, <2>1, <2>2, InvParts DEF LoopsOK, connectLoop, options, AttemptsRemain
    <2>14. ResolvedByOwn'
        BY <1>1, <2>1, InvParts DEF ResolvedByOwn
    <2>15. ExecutedInTurn'
        <3>1. \A i \in DOMAIN executed : executed[i] # item
            BY <2>7 DEF Range
        <3>. QED
            BY <1>1, <2>1, <3>1, InvParts DEF ExecutedInTurn
    <2>16. WireIsKnown'
        BY <1>4, <2>1 DEF WireIsKnown
    <2>. QED
        BY <2>6, <2>10, <2>11, <2>12, <2>13, <2>14, <2>15, <2>16, HalvesNext DEF Inv
<1>. QED
    BY <1>3, <1>4

\* The server executes a line it was sent, the socket's or one that a lost connection left.
LEMMA ServerExecutesInv ==
    ASSUME Inv, NEW i \in Conns, ServerExecutes(i)
    PROVE  Inv'
<1>. DEFINE s == conns[i]
            c == Head(s.up)
            t == Tail(s.up)
            down == IF s.state = "gone" \/ s.fin # "no" THEN s.down ELSE Append(s.down, c)
            d == [s EXCEPT !.up = t, !.down = down]
<1>1. /\ s.up # <<>> /\ s.fin # "reset"
      /\ executed' = Append(executed, c)
      /\ conns' = [conns EXCEPT ![i].up = t, ![i].down = down]
      /\ UNCHANGED <<connectLoop, drainLoop, options, socket, connecting, outcome, answer, wire>>
    BY DEF ServerExecutes
<1>2. /\ conns \in [Conns -> ConnType] /\ s \in ConnType /\ executed \in Seq(Commands)
      /\ s.up \in Seq(Commands) /\ s.down \in Seq(Commands \cup {IdleErr})
      /\ i # socket => s.state \in {"gone", "connecting"} /\ s.fin = "no" /\ s.down = <<>>
      /\ s.state = "connecting" => s.up = <<>>
      /\ socket = None \/ connecting = None
      /\ IsInjective(executed) /\ IsInjective(s.up) /\ Lines(i) \cap Range(executed) = {}
    BY InvParts DEF NetworkOK, LoopsOK, ConnType, OneConnection, WrittenOnce
<1>3. /\ c \in Commands /\ t \in Seq(Commands) /\ Lines(i) = {c} \cup Range(t)
      /\ c \notin Range(t) /\ IsInjective(t) /\ c \notin Range(executed)
    <2>1. /\ c \in Commands /\ t \in Seq(Commands) /\ Range(s.up) = {c} \cup Range(t)
          /\ c \notin Range(t) /\ IsInjective(t)
        BY <1>1, <1>2, TailFacts
    <2>. QED
        BY <1>2, <2>1 DEF Lines
<1>4. conns' = [conns EXCEPT ![i] = d]
    BY <1>1, <1>2
<1>5. /\ executed' \in Seq(Commands) /\ Range(executed') = Range(executed) \cup {c}
      /\ IsInjective(executed')
      /\ DOMAIN executed' = DOMAIN executed \cup {Len(executed) + 1}
      /\ \A k \in DOMAIN executed : executed'[k] = executed[k]
      /\ executed'[Len(executed) + 1] = c
    BY <1>1, <1>2, <1>3, AppendFacts
<1>6. down \in Seq(Commands \cup {IdleErr})
    BY <1>2, <1>3
<1>7. s.state # "gone" /\ s.fin = "no" =>
        /\ i = socket /\ pump = "waiting" /\ s.down = <<>> /\ s.up = <<item>>
        /\ c = item /\ t = <<>> /\ down = <<item>>
    <2>. SUFFICES ASSUME s.state # "gone" /\ s.fin = "no"
                  PROVE  /\ i = socket /\ pump = "waiting" /\ s.down = <<>> /\ s.up = <<item>>
                         /\ c = item /\ t = <<>> /\ down = <<item>>
        OBVIOUS
    <2>1. i = socket /\ socket # None
        BY <1>1, <1>2, Numbers
    <2>2. pump = "waiting" /\ s.down = <<>> /\ s.up = <<item>>
        BY <1>1, <2>1, InvParts DEF SocketServesItem
    <2>. QED
        BY <2>1, <2>2
<1>8. ~(s.state # "gone" /\ s.fin = "no") => down = s.down
    OBVIOUS
<1>. HIDE DEF down, t, c
<1>9. d \in ConnType /\ d.state = s.state /\ d.fin = s.fin /\ d.up = t /\ d.down = down
    BY <1>2, <1>3, <1>6 DEF ConnType
<1>. HIDE DEF d
<1>10. /\ conns' \in [Conns -> ConnType] /\ conns'[i] = d
       /\ \A j \in Conns : j # i => conns'[j] = conns[j]
    BY <1>2, <1>4, <1>9
<1>11. NetworkOK'
    <2>1. \A j \in Conns : conns'[j].state = conns[j].state /\ conns'[j].fin = conns[j].fin
        BY <1>9, <1>10
    <2>2. \A j \in Conns : j # i => conns'[j].down = conns[j].down /\ conns'[j].up = conns[j].up
        BY <1>10
    <2>3. s.state # "connecting"
        BY <1>1, <1>2
    <2>4. i # socket => conns'[i].down = <<>>
        BY <1>2, <1>7, <1>8, <1>9, <1>10
    <2>5. OneConnection'
        BY <1>1, <2>1, <2>2, <2>3, <2>4, InvParts DEF NetworkOK, OneConnection
    <2>. QED
        BY <1>1, <1>10, <2>1, <2>5, InvParts DEF NetworkOK
<1>12. /\ Lines(i)' = Range(t) /\ \A j \in Conns : j # i => Lines(j)' = Lines(j)
    BY <1>9, <1>10 DEF Lines
<1>13. Written' = Written
    <2>1. Lines(i) = Lines(i)' \cup {c}
        BY <1>3, <1>12
    <2>. QED
        BY <1>5, <1>12, <2>1 DEF Written
<1>14. WrittenOnce'
    <2>1. \A j \in Conns : IsInjective(conns'[j].up)
        BY <1>3, <1>9, <1>10, InvParts DEF WrittenOnce
    <2>2. \A j \in Conns : Lines(j)' \subseteq Lines(j) /\ c \notin Lines(j)'
        BY <1>3, <1>12, InvParts DEF WrittenOnce
    <2>3. \A j \in Conns : Lines(j)' \cap Range(executed') = {}
        BY <1>5, <2>2, InvParts DEF WrittenOnce
    <2>4. \A j, k \in Conns : j # k => Lines(j)' \cap Lines(k)' = {}
        BY <2>2, InvParts DEF WrittenOnce
    <2>. QED
        BY <1>5, <2>1, <2>3, <2>4 DEF WrittenOnce
<1>15. LeaveInOrder'
    BY <1>1, <1>13, InvParts DEF LeaveInOrder, drainLoop, Holding
<1>16. SocketServesItem'
    <2>. SUFFICES ASSUME socket # None PROVE SocketServesItem'
        BY <1>1 DEF SocketServesItem
    <2>1. CASE s.state # "gone" /\ s.fin = "no"
        <3>1. conns'[socket] = d /\ d.down = <<item>> /\ d.up = <<>> /\ item \in Range(executed')
            BY <1>5, <1>7, <1>9, <1>10, <2>1
        <3>2. \A k \in DOMAIN d.down : k = 1 /\ d.down[k] = item /\ item # IdleErr
            BY <1>3, <1>7, <2>1, <3>1, Numbers
        <3>3. pump' = "waiting" /\ item' = item /\ socket' = socket
            BY <1>1, <1>7, <2>1 DEF drainLoop
        <3>. QED
            BY <3>1, <3>2, <3>3 DEF SocketServesItem
    <2>2. CASE ~(s.state # "gone" /\ s.fin = "no")
        <3>1. conns'[socket].down = conns[socket].down /\ conns'[socket].fin = conns[socket].fin
            BY <1>8, <1>9, <1>10, <2>2, InvParts DEF NetworkOK
        <3>2. conns'[socket].fin = "no" => conns'[socket].up = conns[socket].up
            <4>1. conns[socket].state # "gone"
                BY InvParts DEF NetworkOK
            <4>. QED
                BY <1>9, <1>10, <2>2, <4>1, InvParts DEF NetworkOK
        <3>. QED
            BY <1>1, <1>5, <3>1, <3>2, InvParts DEF SocketServesItem, drainLoop
    <2>. QED
        BY <2>1, <2>2
<1>17. ResolvedByOwn'
    BY <1>1, <1>5, InvParts DEF ResolvedByOwn
<1>18. ExecutedInTurn'
    <2>. SUFFICES ASSUME NEW a \in DOMAIN executed', NEW b \in DOMAIN executed', a < b,
                         \/ outcome[executed'[b]] = "resolved"
                         \/ pump = "waiting" /\ executed'[b] = item
                  PROVE  executed'[a] < executed'[b]
        BY <1>1 DEF ExecutedInTurn, drainLoop
    <2>1. a \in DOMAIN executed
        BY <1>2, <1>5, SeqFacts
    <2>2. CASE b \in DOMAIN executed
        BY <1>5, <2>1, <2>2, InvParts DEF ExecutedInTurn
    <2>3. CASE b = Len(executed) + 1
        <3>1. executed'[b] = c /\ executed'[a] = executed[a]
            BY <1>5, <2>1, <2>3
        <3>2. pump = "waiting" /\ c = item
            BY <1>3, <3>1, InvParts DEF ResolvedByOwn
        <3>3. executed[a] \in Range(executed) /\ executed[a] # item
            BY <1>2, <1>3, <2>1, <3>2, SeqFacts
        <3>4. executed[a] \in Written
            BY <3>3 DEF Written
        <3>5. Holding
            BY <3>2 DEF Holding
        <3>. QED
            BY <3>1, <3>2, <3>3, <3>4, <3>5, InvParts DEF LeaveInOrder
    <2>. QED
        BY <1>5, <2>2, <2>3
<1>19. LoopsOK' /\ WireIsKnown'
    BY <1>1, <1>5, InvParts DEF LoopsOK, WireIsKnown, connectLoop, drainLoop, options, AttemptsRemain
<1>. QED
    BY <1>11, <1>14, <1>15, <1>16, <1>17, <1>18, <1>19, HalvesNext DEF Inv

LEMMA InitInv == Init => Inv
<1>. SUFFICES ASSUME Init PROVE Inv
    OBVIOUS
<1>1. /\ conns \in [Conns -> ConnType] /\ \A i \in Conns : conns[i] = Gone
      /\ socket = None /\ connecting = None
    BY GoneFacts DEF Init
<1>2. NetworkOK
    BY <1>1, GoneFacts, Numbers DEF NetworkOK, OneConnection
<1>3. LoopsOK
    <2>1. 0 \in Tries /\ queue \in Seq(Commands) /\ executed \in Seq(Commands)
        BY Numbers, EmptyFacts DEF Init, Tries
    <2>2. outcome \in [Commands -> Outcomes] /\ answer \in [Commands -> Commands \cup {None, IdleErr}]
        BY DEF Init, Outcomes
    <2>. QED
        BY <2>1, <2>2 DEF Init, LoopsOK, AttemptsRemain
<1>4. \A i \in Conns : Lines(i) = {}
    BY <1>1, GoneFacts, EmptyFacts DEF Lines
<1>5. Written = {} /\ Range(queue) = {} /\ Increasing(queue) /\ IsInjective(executed)
      /\ DOMAIN executed = {}
    BY <1>4, EmptyFacts DEF Init, Written
<1>6. LeaveInOrder /\ ResolvedByOwn
    BY <1>5 DEF Init, LeaveInOrder, ResolvedByOwn, Holding
<1>7. WrittenOnce
    BY <1>1, <1>4, <1>5, GoneFacts, EmptyFacts DEF WrittenOnce
<1>8. SocketServesItem /\ ExecutedInTurn /\ WireIsKnown
    BY <1>1, <1>5 DEF Init, SocketServesItem, ExecutedInTurn, WireIsKnown
<1>. QED
    BY <1>2, <1>3, <1>6, <1>7, <1>8, Halves DEF Inv

LEMMA NextInv == Inv /\ [Next]_vars => Inv'
<1>. SUFFICES ASSUME Inv, [Next]_vars PROVE Inv'
    OBVIOUS
<1>1. ASSUME NEW c \in Commands, Command(c) PROVE Inv'
    BY <1>1, CommandInv
<1>2. CASE Connect
    BY <1>2, ConnectInv
<1>3. CASE Close
    BY <1>3, CloseInv
<1>4. CASE Iterate
    BY <1>4, IterateInv
<1>5. CASE Write
    BY <1>5, WriteInv
<1>6. CASE Finish
    BY <1>6, FinishInv
<1>7. CASE ConnUp
    BY <1>7, ConnUpInv
<1>8. CASE ConnFail
    BY <1>8, ConnFailInv
<1>9. CASE ConnectorDelayOver
    BY <1>9, ConnectorDelayOverInv
<1>10. CASE PumpDelayOver
    BY <1>10, PumpDelayOverInv
<1>11. CASE CommandTimeout
    BY <1>11, CommandTimeoutInv
<1>12. ASSUME NEW n \in 1..(MaxCommands + 1), Data(n) PROVE Inv'
    BY <1>12, DataInv
<1>13. CASE SocketEnds
    BY <1>13, SocketEndsInv
<1>14. ASSUME NEW i \in Conns, SocketCloses(i) PROVE Inv'
    BY <1>14, SocketClosesInv
<1>15. ASSUME NEW i \in Conns, ServerExecutes(i) PROVE Inv'
    BY <1>15, ServerExecutesInv
<1>16. ASSUME NEW i \in Conns, NEW idle \in BOOLEAN, ServerEnds(i, idle) PROVE Inv'
    BY <1>16, ServerEndsInv
<1>17. ASSUME NEW i \in Conns, ServerResets(i) PROVE Inv'
    BY <1>17, ServerResetsInv
<1>18. CASE UNCHANGED vars
    <2>1. UNCHANGED <<network, connectLoop, drainLoop, results, options>>
        BY <1>18 DEF vars
    <2>2. NetworkOK' /\ SocketServesItem' /\ SameUp
        BY <2>1, InvParts, SameNetworkFacts DEF drainLoop, results
    <2>3. LoopsOK'
        BY <2>1, InvParts DEF LoopsOK, AttemptsRemain, connectLoop, drainLoop, results, options
    <2>4. Drains
        BY <2>1, <2>2, KeepsCommands DEF LosesLines, SameUp, drainLoop, results
    <2>. QED
        BY <2>2, <2>3, <2>4, DrainInv
<1>. QED
    BY <1>1, <1>2, <1>3, <1>4, <1>5, <1>6, <1>7, <1>8, <1>9, <1>10, <1>11, <1>12, <1>13,
       <1>14, <1>15, <1>16, <1>17, <1>18 DEF Next

-----------------------------------------------------------------------------
(* Theorems                                                                *)

\* The inductive invariant holds in every reachable state: one connection at a time, commands
\* that leave in order and once, and a socket that carries nothing but the item in flight.
THEOREM Safety == Spec => []Inv
BY InitInv, NextInv, PTL DEF Spec

\* Every variable keeps its type.  It is no matter of course: a new connection needs a free
\* number, which there is only because a gone one holds a command's line of its own.
THEOREM TypeCorrect == Spec => []TypeOK
BY Safety, PTL DEF Inv

\* A command is resolved by its own answer only (cache-client.js:349-353, 526-561, 571-579).
THEOREM AnswerIsOwnHolds == Spec => []AnswerIsOwn
<1>1. Inv => AnswerIsOwn
    BY DEF Inv, ResolvedByOwn, AnswerIsOwn
<1>. QED
    BY <1>1, Safety, PTL

\* No reconnect sends a line again (cache-client.js:349-361, 571-579).
THEOREM ExecutedAtMostOnceHolds == Spec => []ExecutedAtMostOnce
<1>1. Inv => ExecutedAtMostOnce
    BY DEF Inv, WrittenOnce, IsInjective, ExecutedAtMostOnce
<1>. QED
    BY <1>1, Safety, PTL

\* Of two answered commands, the one issued first was executed first (cache-client.js:304-361).
THEOREM AnsweredInOrderHolds == Spec => []AnsweredInOrder
<1>1. Inv => AnsweredInOrder
    BY DEF Inv, ExecutedInTurn, AnsweredInOrder
<1>. QED
    BY <1>1, Safety, PTL

\* Only the close of a connection loses a command, the one in flight.
LEMMA LostByClose ==
    ASSUME Inv, [Next]_vars, NEW c \in Commands, outcome[c] = "pending", outcome'[c] = "lost"
    PROVE  \E i \in Conns : SocketCloses(i) /\ pump = "waiting"
<1>. SUFFICES ASSUME ~\E i \in Conns : SocketCloses(i) /\ pump = "waiting"
              PROVE  FALSE
    OBVIOUS
<1>0. outcome \in [Commands -> Outcomes] /\ outcome' # outcome /\ item \in Commands \cup {None}
    BY InvParts DEF LoopsOK
<1>1. ASSUME NEW b \in Commands, Command(b) PROVE FALSE
    BY <1>0, <1>1 DEF Command
<1>2. CASE Connect
    BY <1>0, <1>2 DEF Connect, results
<1>3. CASE Close
    BY <1>0, <1>3 DEF Close
<1>4. CASE Iterate
    BY <1>0, <1>4 DEF Iterate
<1>5. CASE Write
    BY <1>0, <1>5 DEF Write
<1>6. CASE Finish
    BY <1>0, <1>6 DEF Finish, results
<1>7. CASE ConnUp
    BY <1>0, <1>7 DEF ConnUp, results
<1>8. CASE ConnFail
    BY <1>0, <1>8 DEF ConnFail
<1>9. CASE ConnectorDelayOver
    BY <1>0, <1>9 DEF ConnectorDelayOver, results
<1>10. CASE PumpDelayOver
    BY <1>0, <1>10 DEF PumpDelayOver, results
<1>11. CASE CommandTimeout
    BY <1>0, <1>11 DEF CommandTimeout, SettleInFlight
<1>12. ASSUME NEW n \in 1..(MaxCommands + 1), Data(n) PROVE FALSE
    BY <1>0, <1>12 DEF Data, SettleInFlight
<1>13. CASE SocketEnds
    BY <1>0, <1>13 DEF SocketEnds, results
<1>14. ASSUME NEW i \in Conns, SocketCloses(i) PROVE FALSE
    BY <1>0, <1>14 DEF SocketCloses, SettleInFlight
<1>15. ASSUME NEW i \in Conns, ServerExecutes(i) PROVE FALSE
    BY <1>0, <1>15 DEF ServerExecutes
<1>16. ASSUME NEW i \in Conns, NEW idle \in BOOLEAN, ServerEnds(i, idle) PROVE FALSE
    BY <1>0, <1>16 DEF ServerEnds, results
<1>17. ASSUME NEW i \in Conns, ServerResets(i) PROVE FALSE
    BY <1>0, <1>17 DEF ServerResets, results
<1>18. CASE UNCHANGED vars
    BY <1>0, <1>18 DEF vars, results
<1>. QED
    BY <1>1, <1>2, <1>3, <1>4, <1>5, <1>6, <1>7, <1>8, <1>9, <1>10, <1>11, <1>12, <1>13,
       <1>14, <1>15, <1>16, <1>17, <1>18 DEF Next

\* The connection that closes is the socket; one that the item was written to before is gone.
LEMMA WireIsLost ==
    ASSUME Inv, NEW i \in Conns, SocketCloses(i), pump = "waiting"
    PROVE  wire # None /\ (conns[wire].fin # "no" \/ conns[wire].state # "open")
<1>1. wire \in Conns
    BY InvParts DEF WireIsKnown, LoopsOK
<1>2. conns[i].state = "ended" \/ (conns[i].state = "open" /\ conns[i].fin = "reset")
    BY DEF SocketCloses
<1>3. CASE wire = i
    BY <1>1, <1>2, <1>3, Numbers
<1>4. CASE wire # i
    <2>1. i = socket
        BY <1>2, InvParts DEF NetworkOK, OneConnection
    <2>2. conns[wire].state \in {"gone", "connecting"}
        BY <1>1, <1>4, <2>1, InvParts DEF NetworkOK, OneConnection
    <2>. QED
        BY <1>1, <2>2, Numbers
<1>. QED
    BY <1>3, <1>4

\* A command fails for a lost connection only when its own is lost (cache-client.js:571-579).
THEOREM FailureIsOwnHolds == Spec => FailureIsOwn
<1>1. Inv /\ [Next]_vars =>
        [\A c \in Commands :
           (outcome[c] = "pending" /\ outcome'[c] = "lost")
             => wire # None /\ (conns[wire].fin # "no" \/ conns[wire].state # "open")]_vars
    BY LostByClose, WireIsLost
<1>. QED
    BY <1>1, Safety, PTL DEF Spec, FailureIsOwn

=============================================================================
