---------------------------- MODULE CacheClient ----------------------------
(***************************************************************************)
(* packages/client/src/cache-client.js: one client, its TCP connections and *)
(* the server at their other end (apps/cache-node/src/server.js).           *)
(*                                                                         *)
(* An action is one callback of the event loop.  #processNext is a loop     *)
(* with awaits: `pump` says where it stands.  Between two callbacks all     *)
(* microtasks run, so while #processNext can go on by itself (Microtask)    *)
(* only user code, which may run in microtasks too, comes in between.       *)
(***************************************************************************)
EXTENDS Integers, Sequences, FiniteSets

CONSTANTS
    MaxCommands,            \* bound: commands are numbered in the order they are issued
    MaxReconnectAttempts    \* options.maxReconnectAttempts

ASSUME ClientAssumption ==
    /\ MaxCommands \in Nat
    /\ MaxReconnectAttempts \in Nat \ {0}

Commands == 1..MaxCommands
None == 0
IdleErr == MaxCommands + 1      \* the line "ERR idle timeout", which answers nothing
Conns == 1..(MaxCommands + 1)   \* enough: of the gone ones, each holds a command's line
Tries == 0..MaxReconnectAttempts

VARIABLES
    autoReconnect,
    conns,        \* the connections, by number; see ConnType
    socket,       \* #socket, or None
    connecting,   \* the connection of #connectingPromise, or None
    queue,        \* #queue
    pump,         \* where #processNext stands; "off" is not draining
    item,         \* the command it took off the queue, or None
    pumpTry,      \* its attempt to connect
    connector,    \* where the loop of connect() stands
    connectorTry,
    closed,       \* #closed and #intentionalClose
    outcome,      \* what the caller of each command got
    answer,       \* the line that resolved or rejected each command
    wire,         \* the connection the item was written to
    executed      \* the commands the server has executed

network == <<conns, socket, connecting>>
connectLoop == <<connector, connectorTry>>
drainLoop == <<queue, pump, item, pumpTry>>
results == <<outcome, answer, wire, executed>>
options == <<autoReconnect, closed>>
vars == <<network, connectLoop, drainLoop, results, options>>

\* What the server's side of a connection has done: nothing, end(), or died.
Fins == {"no", "end", "reset"}

\* ended: the client has seen the server's FIN, the socket is not writable any more.
ConnType == [state : {"gone", "connecting", "open", "ended"}, fin : Fins,
             up : Seq(Commands), down : Seq(Commands \cup {IdleErr})]

Outcomes == {"none", "pending", "resolved", "serverError", "timeout", "lost", "closed",
             "notConnected"}

TypeOK ==
    /\ autoReconnect \in BOOLEAN
    /\ conns \in [Conns -> ConnType]
    /\ socket \in Conns \cup {None} /\ connecting \in Conns \cup {None}
    /\ connecting # None => conns[connecting].state = "connecting"
    /\ socket # None => conns[socket].state \in {"open", "ended"}
    /\ queue \in Seq(Commands)
    /\ pump \in {"off", "starting", "next", "attempt", "delay", "ready", "waiting", "finishing"}
    /\ item \in Commands \cup {None}
    /\ pumpTry \in Tries /\ connectorTry \in Tries
    /\ connector \in {"off", "attempt", "delay"}
    /\ closed \in BOOLEAN
    /\ outcome \in [Commands -> Outcomes]
    /\ answer \in [Commands -> Commands \cup {None, IdleErr}]
    /\ wire \in Conns \cup {None}
    /\ executed \in Seq(Commands)

Gone == [state |-> "gone", fin |-> "no", up |-> <<>>, down |-> <<>>]

Init ==
    /\ autoReconnect \in BOOLEAN          \* options.autoReconnect
    /\ conns = [i \in Conns |-> Gone]
    /\ socket = None /\ connecting = None
    /\ queue = <<>> /\ item = None
    /\ pump = "off" /\ pumpTry = 0
    /\ connector = "off" /\ connectorTry = 0
    /\ closed = FALSE
    /\ outcome = [c \in Commands |-> "none"]
    /\ answer = [c \in Commands |-> None]
    /\ wire = None
    /\ executed = <<>>

Microtask == pump \in {"starting", "next", "ready", "finishing"}

\* User code runs between callbacks and in microtasks, but not within #drainQueue.
UserMayRun == pump # "starting"

IsConnected == socket # None /\ conns[socket].state = "open"

-----------------------------------------------------------------------------
(* Connections                                                             *)

\* Mutant: the listeners stay, and the close event is still to come.
DestroyedListening(cs, i) ==
    IF i = None THEN cs ELSE [cs EXCEPT ![i].state = "ended", ![i].fin = "end", ![i].down = <<>>]

\* #destroySocket: no event of it is heard any more.  A line on its way to the server may
\* still arrive there, or never.
Destroyed(cs, i) ==
    IF i = None THEN cs ELSE [cs EXCEPT ![i] = [Gone EXCEPT !.up = cs[i].up]]

\* A socket number that nothing is left of.
Fresh(cs) ==
    CHOOSE i \in Conns : /\ cs[i] = Gone
                         /\ \A j \in Conns : cs[j] = Gone => i <= j

\* #connectOnce when there is no connection: join the attempt under way or begin one.
ConnectOnce ==
    IF connecting # None
      THEN UNCHANGED <<network>>
      ELSE LET cs == Destroyed(conns, socket)
           IN  /\ connecting' = Fresh(cs)
               /\ conns' = [cs EXCEPT ![Fresh(cs)].state = "connecting"]
               /\ socket' = None

\* onConnected: both loops that await the attempt go on.
ConnUp ==
    /\ connecting # None /\ ~Microtask
    /\ conns' = [conns EXCEPT ![connecting].state = "open"]
    /\ socket' = connecting
    /\ connecting' = None
    /\ pump' = IF pump = "attempt" THEN "ready" ELSE pump
    /\ connector' = IF connector = "attempt" THEN "off" ELSE connector
    /\ UNCHANGED <<results, options, queue, item, pumpTry, connectorTry>>

\* Mutant: one attempt too many.
PastLastTry(n) == n > MaxReconnectAttempts

LastTry(n) == n = MaxReconnectAttempts

\* onError or the connect timeout: each loop waits for its next attempt, or gives up.
ConnFail ==
    /\ connecting # None /\ ~Microtask
    /\ conns' = [conns EXCEPT ![connecting] = Gone]
    /\ connecting' = None
    /\ connector' = IF connector # "attempt" THEN connector
                    ELSE IF LastTry(connectorTry) THEN "off" ELSE "delay"
    /\ IF pump = "attempt" /\ LastTry(pumpTry)
         THEN /\ pump' = "next"
              /\ item' = None
              /\ outcome' = [outcome EXCEPT ![item] = "notConnected"]
         ELSE /\ pump' = IF pump = "attempt" THEN "delay" ELSE pump
              /\ UNCHANGED <<item, outcome>>
    /\ UNCHANGED <<options, socket, queue, pumpTry, connectorTry, answer, wire, executed>>

\* connect(): its callers share one loop of attempts.
Connect ==
    /\ UserMayRun
    /\ ~closed /\ ~IsConnected /\ connector = "off"
    /\ connector' = "attempt" /\ connectorTry' = 1
    /\ ConnectOnce
    /\ UNCHANGED <<drainLoop, results, options>>

ConnectorDelayOver ==
    /\ connector = "delay" /\ ~Microtask
    /\ connectorTry' = connectorTry + 1
    /\ IF IsConnected THEN connector' = "off" /\ UNCHANGED <<network>>
                      ELSE connector' = "attempt" /\ ConnectOnce
    /\ UNCHANGED <<drainLoop, results, options>>

-----------------------------------------------------------------------------
(* Commands: #commandLine, #drainQueue, #processNext                       *)

\* The user issues command c: #commandLine and #drainQueue.
Command(c) ==
    /\ UserMayRun
    /\ outcome[c] = "none" /\ \A b \in 1..(c - 1) : outcome[b] # "none"
    /\ IF closed
         THEN /\ outcome' = [outcome EXCEPT ![c] = "closed"]
              /\ UNCHANGED <<queue, pump>>
         ELSE /\ outcome' = [outcome EXCEPT ![c] = "pending"]
              /\ queue' = Append(queue, c)
              /\ pump' = IF pump = "off" THEN "starting" ELSE pump
    /\ UNCHANGED <<network, connectLoop, options, item, pumpTry, answer, wire, executed>>

\* Mutant: pop() in place of shift().
TakeLast ==
    /\ item' = queue[Len(queue)]
    /\ queue' = SubSeq(queue, 1, Len(queue) - 1)

Take ==
    /\ item' = Head(queue)
    /\ queue' = Tail(queue)

\* The head of #processNext's loop, up to its first await.
Iterate ==
    /\ pump \in {"starting", "next"}
    /\ IF queue = <<>> \/ closed
         THEN /\ pump' = "finishing"
              /\ UNCHANGED <<network, queue, item, pumpTry, outcome>>
         ELSE /\ Take
              /\ \/ /\ IsConnected
                    /\ pump' = "ready"
                    /\ UNCHANGED <<network, pumpTry, outcome>>
                 \/ /\ ~IsConnected /\ ~autoReconnect
                    /\ outcome' = [outcome EXCEPT ![item'] = "notConnected"]
                    /\ pump' = "next"
                    /\ UNCHANGED <<network, pumpTry>>
                 \/ /\ ~IsConnected /\ autoReconnect
                    /\ pump' = "attempt" /\ pumpTry' = 1
                    /\ ConnectOnce
                    /\ UNCHANGED outcome
    /\ UNCHANGED <<connectLoop, options, answer, wire, executed>>

PumpDelayOver ==
    /\ pump = "delay"
    /\ pumpTry' = pumpTry + 1
    /\ IF IsConnected THEN pump' = "ready" /\ UNCHANGED <<network>>
                      ELSE pump' = "attempt" /\ ConnectOnce
    /\ UNCHANGED <<connectLoop, results, options, queue, item>>

\* The connection is there: write the line and wait.  close() may have taken it away again.
Write ==
    /\ pump = "ready"
    /\ IF socket = None
         THEN /\ pump' = "next" /\ item' = None
              /\ outcome' = [outcome EXCEPT ![item] = "notConnected"]
              /\ UNCHANGED <<conns, wire>>
         ELSE /\ pump' = "waiting"
              /\ wire' = socket
              /\ conns' = IF conns[socket].fin = "reset" THEN conns
                          ELSE [conns EXCEPT ![socket].up = Append(@, item)]
              /\ UNCHANGED <<item, outcome>>
    /\ UNCHANGED <<connectLoop, options, socket, connecting, queue, pumpTry, answer, executed>>

\* Mutant: what was queued while #processNext returned is not looked for.
FinishWithoutRecheck ==
    /\ pump = "finishing"
    /\ pump' = "off"
    /\ item' = None
    /\ UNCHANGED <<network, connectLoop, results, options, queue, pumpTry>>

\* The finally of #drainQueue.
Finish ==
    /\ pump = "finishing"
    /\ pump' = IF queue # <<>> THEN "next" ELSE "off"
    /\ item' = None
    /\ UNCHANGED <<network, connectLoop, results, options, queue, pumpTry>>

-----------------------------------------------------------------------------
(* Events of the socket, timers, close()                                   *)

\* #failInFlight and #dispatchResponseLine: the command in flight, if any, gets its outcome.
SettleInFlight(why) ==
    IF pump = "waiting"
      THEN /\ outcome' = [outcome EXCEPT ![item] = why]
           /\ pump' = "next" /\ item' = None /\ wire' = None
      ELSE UNCHANGED <<outcome, pump, item, wire>>

\* A data event with n lines: the first answers the command in flight, and the others find none.
Data(n) ==
    /\ socket # None /\ ~Microtask
    /\ n \in 1..Len(conns[socket].down)
    /\ conns' = [conns EXCEPT ![socket].down = SubSeq(@, n + 1, Len(@))]
    /\ LET line == conns[socket].down[1]
       IN  /\ SettleInFlight(IF line = IdleErr THEN "serverError" ELSE "resolved")
           /\ answer' = IF pump = "waiting" THEN [answer EXCEPT ![item] = line] ELSE answer
    /\ UNCHANGED <<connectLoop, options, socket, connecting, queue, pumpTry, executed>>

\* The server's FIN arrives, after its lines: the socket ends its own side.
SocketEnds ==
    /\ IsConnected /\ ~Microtask
    /\ conns[socket].fin = "end" /\ conns[socket].down = <<>>
    /\ conns' = [conns EXCEPT ![socket].state = "ended"]
    /\ UNCHANGED <<connectLoop, drainLoop, results, options, socket, connecting>>

\* Mutant: the command in flight is queued again.
SocketClosesAndRetries(i) ==
    /\ ~Microtask
    /\ conns[i].state = "ended" \/ (conns[i].state = "open" /\ conns[i].fin = "reset")
    /\ IF pump = "waiting" /\ ~closed
         THEN /\ queue' = <<item>> \o queue
              /\ pump' = "next" /\ item' = None /\ wire' = None
         ELSE UNCHANGED <<queue, pump, item, wire>>
    /\ conns' = Destroyed(Destroyed(conns, i), socket)
    /\ socket' = None
    /\ UNCHANGED <<connectLoop, options, connecting, pumpTry, outcome, answer, executed>>

\* The close or error event of connection i, which #attachSocketHandlers listens to.  After
\* close() (#intentionalClose) the handlers do nothing.
SocketCloses(i) ==
    /\ ~Microtask
    /\ conns[i].state = "ended" \/ (conns[i].state = "open" /\ conns[i].fin = "reset")
    /\ IF closed
         THEN /\ conns' = Destroyed(conns, i)
              /\ socket' = None       \* destroyed: of no use any more
              /\ UNCHANGED <<outcome, pump, item, wire>>
         ELSE /\ SettleInFlight("lost")
              /\ conns' = Destroyed(Destroyed(conns, i), socket)
              /\ socket' = None
    /\ UNCHANGED <<connectLoop, options, connecting, queue, pumpTry, answer, executed>>

\* Mutant: the connection is kept.
TimeoutKeepsSocket ==
    /\ pump = "waiting"
    /\ SettleInFlight("timeout")
    /\ UNCHANGED <<network, connectLoop, options, queue, pumpTry, answer, executed>>

\* The command timer: the command fails and its connection goes, with any late answer.
CommandTimeout ==
    /\ pump = "waiting"
    /\ SettleInFlight("timeout")
    /\ conns' = Destroyed(conns, socket)
    /\ socket' = None
    /\ UNCHANGED <<connectLoop, options, connecting, queue, pumpTry, answer, executed>>

\* close(): what is queued or in flight is rejected; an attempt under way goes on.
Close ==
    /\ UserMayRun
    /\ ~closed
    /\ closed' = TRUE
    /\ outcome' = [c \in Commands |->
                     IF \/ \E i \in DOMAIN queue : queue[i] = c
                        \/ pump = "waiting" /\ item = c
                     THEN "closed" ELSE outcome[c]]
    /\ queue' = <<>>
    /\ IF pump = "waiting" THEN pump' = "next" /\ item' = None /\ wire' = None
                           ELSE UNCHANGED <<pump, item, wire>>
    /\ conns' = Destroyed(conns, socket)
    /\ socket' = None
    /\ UNCHANGED <<connectLoop, autoReconnect, connecting, pumpTry, answer, executed>>

-----------------------------------------------------------------------------
(* The server's end of connection i, and the network                       *)

\* Whatever its side of the socket is, the server executes what it reads; after end() its
\* answers go nowhere.
ServerExecutes(i) ==
    /\ conns[i].up # <<>> /\ conns[i].fin # "reset"
    /\ executed' = Append(executed, Head(conns[i].up))
    /\ conns' = [conns EXCEPT
          ![i].up = Tail(@),
          ![i].down = IF conns[i].state = "gone" \/ conns[i].fin # "no" THEN @
                      ELSE Append(@, Head(conns[i].up))]
    /\ UNCHANGED <<connectLoop, drainLoop, options, socket, connecting, outcome, answer, wire>>

\* The idle timeout (with its ERR line) or the server's close(): end().
ServerEnds(i, idle) ==
    /\ conns[i].state = "open" /\ conns[i].fin = "no"
    /\ conns' = [conns EXCEPT ![i].fin = "end",
                              ![i].down = IF idle THEN Append(@, IdleErr) ELSE @]
    /\ UNCHANGED <<connectLoop, drainLoop, results, options, socket, connecting>>

\* The server dies, or the connection breaks: lines on their way are lost.
ServerResets(i) ==
    /\ conns[i].state = "open" /\ conns[i].fin = "no"
    /\ conns' = [conns EXCEPT ![i].fin = "reset", ![i].up = <<>>, ![i].down = <<>>]
    /\ UNCHANGED <<connectLoop, drainLoop, results, options, socket, connecting>>

-----------------------------------------------------------------------------

Next ==
    \/ \E c \in Commands : Command(c)
    \/ Connect
    \/ Close
    \/ Iterate
    \/ Write
    \/ Finish
    \/ ConnUp
    \/ ConnFail
    \/ ConnectorDelayOver
    \/ PumpDelayOver
    \/ CommandTimeout
    \/ \E n \in 1..(MaxCommands + 1) : Data(n)
    \/ SocketEnds
    \/ \E i \in Conns : \/ SocketCloses(i)
                        \/ ServerExecutes(i)
                        \/ \E idle \in BOOLEAN : ServerEnds(i, idle)
                        \/ ServerResets(i)

Spec == Init /\ [][Next]_vars

\* The event loop runs microtasks and timers: attempts to connect end, delays and command
\* timeouts fire.  Nothing is assumed of the server or the network.
Fairness ==
    /\ WF_vars(Iterate \/ Write \/ Finish)
    /\ WF_vars(ConnUp \/ ConnFail)
    /\ WF_vars(PumpDelayOver)
    /\ WF_vars(CommandTimeout)

FairSpec == Spec /\ Fairness

-----------------------------------------------------------------------------
(* Properties                                                              *)

\* A command is resolved by its own answer only, whatever was lost, timed out or reconnected
\* before: answers carry no number, only the order and the destroyed socket keep them apart
\* (cache-client.js:349-353, 526-561, 571-579).
AnswerIsOwn == \A c \in Commands : outcome[c] = "resolved" => answer[c] = c

\* The server executes a command at most once: no reconnect sends a line again.
ExecutedAtMostOnce == \A i, j \in DOMAIN executed : executed[i] = executed[j] => i = j

\* FIFO (README.md:87): of two commands that were both answered, the server executed the one
\* issued first before the other.  (One that failed may still be executed, even later.)
AnsweredInOrder ==
    \A i, j \in DOMAIN executed :
        (i < j /\ outcome[executed[i]] = "resolved" /\ outcome[executed[j]] = "resolved")
          => executed[i] < executed[j]

\* A command fails for a lost connection only when the one it was written to is: the close
\* event of an older socket never takes another command down (cache-client.js:571-579).
FailureIsOwn ==
    [][\A c \in Commands :
         (outcome[c] = "pending" /\ outcome'[c] = "lost")
           => wire # None /\ (conns[wire].fin # "no" \/ conns[wire].state # "open")]_vars

\* Every command gets an outcome: the queue never stalls, through lost connections, timeouts,
\* half-closed sockets and close().
CommandsSettle == \A c \in Commands : outcome[c] = "pending" ~> outcome[c] # "pending"

\* What close() says by rejecting the queue and the command in flight with "client is closed",
\* and #commandLine by refusing others (cache-client.js:150-159, 295-297): a closed client has
\* no command in flight.
ClosedRunsNothing == closed => pump # "waiting"
=============================================================================
