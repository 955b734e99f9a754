---------------------------- MODULE CacheServer ----------------------------
(***************************************************************************)
(* apps/cache-node/src/server.js: the life of a cache node's TCP server,    *)
(* its connections, and the replication engine it hands writes to.          *)
(*                                                                         *)
(* An action is one call of a method or one event of Node's net module:     *)
(* the code between two awaits runs alone.  What a connection carries is a  *)
(* stream of body bytes and newlines that arrives in chunks of any size;    *)
(* every line that is not blank is a write this node is primary for (what   *)
(* commands mean is CacheStore's and Protocol's business).                  *)
(***************************************************************************)
EXTENDS Integers, Sequences, FiniteSetsExt

CONSTANTS
    Conns,       \* the connections clients make
    Streams,     \* what a client may send on each of them
    MaxLine,     \* maxLineBytes
    MaxListens,  \* bound: calls of listen()
    MaxEngines,  \* bound: engines made by the constructor and by enableReplication()
    Closers      \* bound: calls of close()

ASSUME ServerAssumption ==
    /\ Streams \in [Conns -> SUBSET Seq({"byte", "newline"})]
    /\ MaxLine \in Nat \ {0}
    /\ MaxListens \in Nat \ {0} /\ MaxEngines \in Nat

None == 0
Servers == 1..MaxListens
Engines == 1..MaxEngines

VARIABLES
    server,        \* #server, or None
    status,        \* of every net.Server: see Statuses
    closing,       \* #closing
    engine,        \* #replicationEngine (with its #replicationConfig), or None
    engines,       \* the engines made so far
    closedEngines, \* those close() was called on
    conns,         \* per connection, its socket and what its data handler keeps
    closes         \* per call of close(), where it stands

serverVars == <<server, status, closing>>
engineVars == <<engine, engines, closedEngines>>
vars == <<serverVars, engineVars, conns, closes>>

\* failed: listen() was rejected; stopped: server.close() was called.
Statuses == {"none", "opening", "listening", "failed", "stopped"}

Answers == {"done", "line too long", "input too large", "idle timeout"}

\* ended: socket.end() was called, the client has not closed its side yet.
\* tracked: in #sockets, with handlers.  replicated: accepted while there was an engine.
\* alone: its writes that were answered and handed to no open engine.
ConnType ==
    [sock : {"none", "open", "ended", "closed"}, of : Servers \cup {None}, tracked : BOOLEAN,
     stream : Seq({"byte", "newline"}), read : Nat, buffer : Seq({"byte", "newline"}),
     answers : Seq(Answers), replicated : BOOLEAN, alone : Nat]

\* timer: the timer that destroys the sockets is set.
CloseType ==
    [at : {"none", "engine", "waiting", "resolved", "rejected"}, of : Servers \cup {None},
     timer : BOOLEAN]

\* #sockets holds the connections that are not gone, and no others: what close() and its timer
\* end and destroy is all there is.
TypeOK ==
    /\ server \in Servers \cup {None}
    /\ status \in [Servers -> Statuses]
    /\ closing \in BOOLEAN
    /\ engine \in Engines \cup {None}
    /\ engines \in 0..MaxEngines
    /\ closedEngines \subseteq Engines
    /\ conns \in [Conns -> ConnType]
    /\ \A c \in Conns : /\ conns[c].read <= Len(conns[c].stream)
                        /\ conns[c].tracked <=> conns[c].sock \in {"open", "ended"}
    /\ closes \in [Closers -> CloseType]

NoConn == [sock |-> "none", of |-> None, tracked |-> FALSE, stream |-> <<>>, read |-> 0,
           buffer |-> <<>>, answers |-> <<>>, replicated |-> FALSE, alone |-> 0]

\* The constructor, with options.replication or without.
Init ==
    /\ server = None /\ status = [s \in Servers |-> "none"]
    /\ closing = FALSE
    /\ engine \in {None} \cup (Engines \cap {1})
    /\ engines = engine
    /\ closedEngines = {}
    /\ conns = [c \in Conns |-> NoConn]
    /\ closes = [p \in Closers |-> [at |-> "none", of |-> None, timer |-> FALSE]]

-----------------------------------------------------------------------------
(* Lines                                                                   *)

Newlines(s) == {i \in DOMAIN s : s[i] = "newline"}

\* Where the last line before position i of s ends, or 0.
LineEnd(s, i) == Max({0} \cup {h \in Newlines(s) : h < i})

\* The length of the line that the newline at i ends.
LineLength(s, i) == i - 1 - LineEnd(s, i)

\* What s holds after its last newline.
Rest(s) == SubSeq(s, LineEnd(s, Len(s) + 1) + 1, Len(s))

AnswerTo(length) == IF length > MaxLine THEN "line too long" ELSE "done"

\* The newlines of the lines of s that get an answer: blank ones get none.
Asking(s) == {i \in Newlines(s) : LineLength(s, i) > 0}

\* The j-th smallest number of a set.
Nth(S, j) == CHOOSE i \in S : Cardinality({h \in S : h <= i}) = j

\* The answers to the lines of s.
Responses(s) ==
    [j \in 1..Cardinality(Asking(s)) |-> AnswerTo(LineLength(s, Nth(Asking(s), j)))]

-----------------------------------------------------------------------------
(* Sockets                                                                 *)

\* destroy(), or the end of a connection: 'close' or 'error', and cleanup.  What is left is
\* what the properties say of it.
Gone(conn) == [NoConn EXCEPT !.sock = "closed", !.of = conn.of,
                             !.replicated = conn.replicated, !.alone = conn.alone]

\* socket.end()
End(conn) == IF conn.sock = "open" THEN [conn EXCEPT !.sock = "ended"] ELSE conn

\* socket.write() of some answers; after end() it is an error, which destroys the socket.
Answered(conn, answers) ==
    IF answers = <<>> \/ conn.sock = "open" THEN [conn EXCEPT !.answers = @ \o answers]
    ELSE Gone(conn)

\* Those of #sockets, after f: what close() and its timer do.
EndAll == [c \in Conns |-> IF conns[c].tracked THEN End(conns[c]) ELSE conns[c]]
DestroyAll == [c \in Conns |-> IF conns[c].tracked THEN Gone(conns[c]) ELSE conns[c]]

Alive(c) == conns[c].sock \in {"open", "ended"}

EngineTakes == engine # None /\ engine \notin closedEngines

\* Mutant: a connection made while the server closes is left alone, without handlers.
ConnectIgnored(c, s, stream) ==
    /\ status[s] = "listening" /\ conns[c].sock = "none"
    /\ conns' = [conns EXCEPT ![c] =
          [NoConn EXCEPT !.sock = "open", !.of = s, !.tracked = ~closing, !.stream = stream,
                         !.replicated = engine # None]]
    /\ UNCHANGED <<serverVars, engineVars, closes>>

\* #onConnection, from any net.Server that still listens.
Connect(c, s, stream) ==
    /\ status[s] = "listening" /\ conns[c].sock = "none"
    /\ conns' = [conns EXCEPT ![c] =
          IF closing THEN [NoConn EXCEPT !.sock = "closed", !.of = s]
          ELSE [NoConn EXCEPT !.sock = "open", !.of = s, !.tracked = TRUE, !.stream = stream,
                              !.replicated = engine # None]]
    /\ UNCHANGED <<serverVars, engineVars, closes>>

\* Mutant: the buffer starts anew with every chunk.
DataAnew(c, n) ==
    LET conn == conns[c]
        buffer == SubSeq(conn.stream, conn.read + 1, conn.read + n)
    IN  /\ conn.tracked /\ n \in 1..(Len(conn.stream) - conn.read)
        /\ conns' = [conns EXCEPT ![c] =
              Answered([conn EXCEPT !.read = @ + n, !.buffer = Rest(buffer)], Responses(buffer))]
        /\ UNCHANGED <<serverVars, engineVars, closes>>

\* The data event with the next n characters.  Lines are executed and then answered, also
\* after end(); the first answer after end() destroys the socket.
Data(c, n) ==
    LET conn == conns[c]
        buffer == conn.buffer \o SubSeq(conn.stream, conn.read + 1, conn.read + n)
        writes == Cardinality({j \in DOMAIN Responses(buffer) : Responses(buffer)[j] = "done"})
    IN  /\ conn.tracked /\ n \in 1..(Len(conn.stream) - conn.read)
        /\ conns' = [conns EXCEPT ![c] =
              IF Len(buffer) > 2 * MaxLine
                THEN End(Answered([conn EXCEPT !.read = @ + n, !.buffer = buffer],
                                  <<"input too large">>))
                ELSE Answered([conn EXCEPT !.read = @ + n, !.buffer = Rest(buffer),
                                           !.alone = IF EngineTakes \/ conn.sock = "ended" THEN @
                                                     ELSE @ + writes],
                              Responses(buffer))]
        /\ UNCHANGED <<serverVars, engineVars, closes>>

\* Mutant: the timer is stopped by its first timeout.
TimeoutOnce(c) ==
    /\ conns[c].tracked /\ conns[c].sock = "open"
    /\ conns' = [conns EXCEPT ![c] = End(Answered(@, <<"idle timeout">>))]
    /\ UNCHANGED <<serverVars, engineVars, closes>>

\* The idle timeout.  The write sets the timer again: when the client does not close its side,
\* the next timeout's write is one after end().
Timeout(c) ==
    /\ conns[c].tracked
    /\ conns' = [conns EXCEPT ![c] = End(Answered(@, <<"idle timeout">>))]
    /\ UNCHANGED <<serverVars, engineVars, closes>>

\* The client closes, or the connection breaks.
PeerGoes(c) ==
    /\ Alive(c)
    /\ conns' = [conns EXCEPT ![c] = Gone(@)]
    /\ UNCHANGED <<serverVars, engineVars, closes>>

-----------------------------------------------------------------------------
(* listen(), enableReplication(), close()                                  *)

\* listen(), unless there is a #server already.
Listen(s) ==
    /\ server = None /\ status[s] = "none" /\ \A r \in 1..(s - 1) : status[r] # "none"
    /\ closing' = FALSE
    /\ server' = s
    /\ status' = [status EXCEPT ![s] = "opening"]
    /\ UNCHANGED <<engineVars, conns, closes>>

\* The port is free, or it is another's: an older server of ours that still listens, or a
\* process unknown.
ListenEnds(s) ==
    /\ status[s] = "opening"
    /\ \/ /\ \A r \in Servers : status[r] # "listening"
          /\ status' = [status EXCEPT ![s] = "listening"]
       \/ status' = [status EXCEPT ![s] = "failed"]
    /\ UNCHANGED <<server, closing, engineVars, conns, closes>>

EnableReplication ==
    /\ engines < MaxEngines
    /\ engines' = engines + 1
    /\ engine' = engines'
    /\ UNCHANGED <<serverVars, closedEngines, conns, closes>>

\* server.close(cb) of call p, with its timer; a server that failed to listen is an error.
StopServer(p, s) ==
    IF status[s] = "listening"
      THEN /\ status' = [status EXCEPT ![s] = "stopped"]
           /\ closes' = [closes EXCEPT ![p] = [at |-> "waiting", of |-> s, timer |-> TRUE]]
      ELSE /\ closes' = [closes EXCEPT ![p] = [at |-> "rejected", of |-> s, timer |-> FALSE]]
           /\ UNCHANGED status

\* Mutant: the engine goes first, the clients are told once it is closed.
CloseEngineFirst(p) ==
    /\ closes[p].at = "none" /\ (server # None => status[server] # "opening")
    /\ closing' = TRUE
    /\ server' = None
    /\ engine' = IF server = None THEN engine ELSE None
    /\ closedEngines' = IF server = None \/ engine = None THEN closedEngines
                        ELSE closedEngines \cup {engine}
    /\ IF server = None
         THEN /\ closes' = [closes EXCEPT ![p].at = "resolved"]
              /\ UNCHANGED status
         ELSE IF engine # None
         THEN /\ closes' = [closes EXCEPT ![p] = [at |-> "engine", of |-> server, timer |-> FALSE]]
              /\ UNCHANGED status
         ELSE StopServer(p, server)
    /\ UNCHANGED <<engines, conns>>

\* close() up to its first await, or to its return when there is no #server.  It is called
\* when listen() has returned (bin/cache-node.js:109-129).
Close(p) ==
    /\ closes[p].at = "none" /\ (server # None => status[server] # "opening")
    /\ closing' = TRUE
    /\ conns' = EndAll
    /\ server' = None
    /\ IF server = None
         THEN /\ closes' = [closes EXCEPT ![p].at = "resolved"]
              /\ UNCHANGED <<status, engine, closedEngines>>
         ELSE /\ engine' = None
              /\ IF engine # None
                   THEN /\ closedEngines' = closedEngines \cup {engine}
                        /\ closes' = [closes EXCEPT ![p] = [at |-> "engine", of |-> server,
                                                            timer |-> FALSE]]
                        /\ UNCHANGED status
                   ELSE /\ StopServer(p, server)
                        /\ UNCHANGED closedEngines
    /\ UNCHANGED engines

\* engine.close() returns.
EngineClosed(p) ==
    /\ closes[p].at = "engine"
    /\ StopServer(p, closes[p].of)
    /\ UNCHANGED <<server, closing, engineVars, conns>>

\* Mutant: the timer only ends the sockets once more.
TimerEnds(p) ==
    /\ closes[p].at = "waiting" /\ closes[p].timer
    /\ conns' = EndAll
    /\ closes' = [closes EXCEPT ![p].timer = FALSE]
    /\ UNCHANGED <<serverVars, engineVars>>

\* The timer destroys what is in #sockets by then, whatever server it came from.
TimerFires(p) ==
    /\ closes[p].at = "waiting" /\ closes[p].timer
    /\ conns' = DestroyAll
    /\ closes' = [closes EXCEPT ![p].timer = FALSE]
    /\ UNCHANGED <<serverVars, engineVars>>

\* server.close() calls back when its last connection is gone.
ServerClosed(p) ==
    /\ closes[p].at = "waiting"
    /\ \A c \in Conns : conns[c].of = closes[p].of => ~Alive(c)
    /\ closes' = [closes EXCEPT ![p].at = "resolved", ![p].timer = FALSE]
    /\ UNCHANGED <<serverVars, engineVars, conns>>

-----------------------------------------------------------------------------

Next ==
    \/ \E c \in Conns : \/ \E s \in Servers, stream \in Streams[c] : Connect(c, s, stream)
                        \/ \E n \in 1..Len(conns[c].stream) : Data(c, n)
                        \/ Timeout(c)
                        \/ PeerGoes(c)
    \/ \E s \in Servers : Listen(s) \/ ListenEnds(s)
    \/ EnableReplication
    \/ \E p \in Closers : Close(p) \/ EngineClosed(p) \/ TimerFires(p) \/ ServerClosed(p)

Spec == Init /\ [][Next]_vars

\* The event loop calls back and its timers fire.  Nothing is assumed of the clients.
Fairness ==
    /\ \A s \in Servers : WF_vars(ListenEnds(s))
    /\ \A p \in Closers : /\ WF_vars(EngineClosed(p))
                          /\ WF_vars(TimerFires(p))
                          /\ WF_vars(ServerClosed(p))

FairSpec == Spec /\ Fairness

-----------------------------------------------------------------------------
(* Properties                                                              *)

Arrived(c) == SubSeq(conns[c].stream, 1, conns[c].read)

\* However the stream is cut into chunks, a connection that is still served got exactly the
\* answers its stream asks for, line by line and in order, and the rest is kept for the next
\* chunk (server.js:194-230).
FramingIsExact ==
    \A c \in Conns :
        conns[c].sock = "open" =>
            /\ conns[c].answers = Responses(Arrived(c))
            /\ conns[c].buffer = Rest(Arrived(c))

\* On a connection accepted by a server that replicates, no write is answered that was not
\* handed to an open engine, whatever closes, opens again or replaces the engine meanwhile:
\* close() ends every socket before it takes the engine away (server.js:139-153).
AnsweredWritesAreHandedOver ==
    \A c \in Conns : conns[c].replicated => conns[c].alone = 0

\* Every close() settles, and no client can keep it waiting (server.js:156-171).
CloseSettles ==
    \A p \in Closers : closes[p].at # "none" ~> closes[p].at \in {"resolved", "rejected"}

\* If the idle timers fire, no connection stays for ever, not even one whose client never
\* closes its side: there the second timeout has to do it (server.js:192, 232-235).
IdleConnectionsGo ==
    (\A c \in Conns : WF_vars(Timeout(c))) =>
        \A c \in Conns : conns[c].sock = "open" ~> conns[c].sock = "closed"
=============================================================================
