------------------------ MODULE ClusterClientProofs ------------------------
(***************************************************************************)
(* The safety of ClusterClient, for any clients, nodes and configurations, *)
(* and any number of calls and restarts.  At the end, the lines in which    *)
(* its writes travel: the safety of Protocol.                              *)
(***************************************************************************)
EXTENDS ClusterClient, Protocol, FiniteSetTheorems, SequenceTheorems, TLAPS

-----------------------------------------------------------------------------
(* The inductive invariant                                                 *)

IsWrite(i) == call[i].kind = "SET"

\* No node has taken write i, none is to get it, and no fan-out of it began.
Fresh(i) ==
    /\ \A n \in Nodes : i \notin Range(applied[n]) /\ <<i, n>> \notin repl
    /\ handed[i] = {} /\ i \notin dropped

\* What MayCall counts.
WithinBounds ==
    /\ Cardinality({i \in DOMAIN call : IsWrite(i)}) <= MaxWrites
    /\ Len(call) - Cardinality({i \in DOMAIN call : IsWrite(i)}) <= MaxBroadcasts

\* A call saw writes made before it, acknowledged for good.
SeenWereAcknowledged ==
    \A i \in DOMAIN call : \A j \in call[i].seen :
        j \in DOMAIN call /\ j < i /\ IsWrite(j) /\ call[j].outcome = "OK"

UnmadeCalls ==
    \A i \in Calls \ DOMAIN call : Fresh(i) /\ \A n \in Nodes : request[i][n] = "none"

\* A write is sent to one node.
OneTarget ==
    \A i \in DOMAIN call : IsWrite(i) =>
        \A n \in Nodes : request[i][n] # "none" => n = ResolveNodeIndex(call[i].by)

\* Until its line is executed, a write is nowhere, and it is not acknowledged.
UnexecutedWrites ==
    \A i \in DOMAIN call : IsWrite(i) =>
        \A n \in Nodes : request[i][n] \in {"asked", "late"} =>
            Fresh(i) /\ call[i].outcome # "OK"

\* A REPL line under way is for a node that does not have the write.
LinesAreNew ==
    \A l \in repl : l[1] \notin Range(applied[l[2]])

\* No REPL line goes to the primary.
PrimaryGetsNoLine ==
    Agreed => \A n \in Nodes : IsPrimary(n) => \A i \in Calls : <<i, n>> \notin repl

\* Only writes that were handed on take up room in an engine.
PendingIsHandedOn ==
    \A n \in Nodes : \A w \in pending[n] : handed[w] = Peers(n) /\ handed[w] # {}

\* Write i was executed where its client sent it, and the answer is due or was received.
Executed(i) ==
    /\ IsWrite(i)
    /\ call[i].outcome = "OK" \/ \E n \in Nodes : request[i][n] = "executed"

\* It was handed on, and what the primary took last is no write that was acknowledged before.
ExecutedIsSafe ==
    Agreed => \A i \in DOMAIN call, n \in Nodes :
        Executed(i) /\ IsPrimary(n) =>
            /\ HandedOn(i, n)
            /\ applied[n] # <<>> => applied[n][Len(applied[n])] \notin call[i].seen

Inv ==
    /\ TypeOK
    /\ WithinBounds
    /\ SeenWereAcknowledged
    /\ UnmadeCalls
    /\ OneTarget
    /\ UnexecutedWrites
    /\ LinesAreNew
    /\ TakenOnce
    /\ PrimaryGetsNoLine
    /\ PendingIsHandedOn
    /\ ExecutedIsSafe

-----------------------------------------------------------------------------
(* Types                                                                   *)

LEMMA CallIndices ==
    ASSUME call \in Seq(CallType), Len(call) <= MaxWrites + MaxBroadcasts
    PROVE  /\ DOMAIN call = 1..Len(call) /\ Len(call) \in Nat
           /\ DOMAIN call \subseteq Calls
           /\ \A i \in DOMAIN call : call[i] \in CallType
BY ClusterAssumption DEF Calls

LEMMA CallsFinite == IsFiniteSet(Calls)
BY FS_Interval, ClusterAssumption DEF Calls

\* A client routes a key to one of the nodes.
LEMMA RoutesToNode ==
    ASSUME setup \in Setups, NEW c \in Clients
    PROVE  ResolveNodeIndex(c) \in Nodes
<1>1. setup \in Setup
    BY ClusterAssumption
<1>2. 1 \in 1..Cardinality(Nodes)
    BY ClusterAssumption, FS_CardinalityType, FS_EmptySet
<1>3. setup.walk[setup.client[c]] \in Orders
    BY <1>1 DEF Setup
<1>4. Ring(setup.client[c])[1] \in Nodes
    BY <1>2, <1>3 DEF Orders, Ring
<1>. QED
    BY <1>1, <1>4 DEF ResolveNodeIndex, Setup

\* Where all agree, the clients route to the primary.
LEMMA RoutesToPrimary ==
    ASSUME Agreed, NEW n \in Nodes, IsPrimary(n), NEW c \in Clients
    PROVE  ResolveNodeIndex(c) = n
<1>1. PICK config \in Configs : /\ \A d \in Clients : setup.client[d] = config
                                                     /\ setup.route[d] = Null
                                /\ \A m \in Nodes : setup.node[m] = config
    BY DEF Agreed
<1>. QED
    BY <1>1 DEF IsPrimary, ResolveNodeIndex

\* What the processes were started with decides all of this.
LEMMA SetupStays ==
    ASSUME setup' = setup
    PROVE  /\ Agreed' <=> Agreed
           /\ \A n : IsPrimary(n)' <=> IsPrimary(n)
           /\ \A n : Peers(n)' = Peers(n)
           /\ \A c : ResolveNodeIndex(c)' = ResolveNodeIndex(c)
BY DEF Agreed, IsPrimary, Peers, ResolveNodeIndex, Ring

LEMMA HandedOnStays ==
    ASSUME UNCHANGED <<setup, handed, dropped>>, NEW i, NEW n
    PROVE  HandedOn(i, n)' <=> HandedOn(i, n)
<1>1. Peers(n)' = Peers(n)
    BY SetupStays
<1>. QED
    BY <1>1 DEF HandedOn

-----------------------------------------------------------------------------
(* Steps that execute nothing                                              *)

\* Outcomes and requests only move on, and writes are acknowledged after their execution.
Quiet ==
    /\ UNCHANGED <<setup, handed, dropped, repl>>
    /\ \A n \in Nodes : applied'[n] = applied[n] \/ applied'[n] = <<>>
    /\ \A n \in Nodes : pending'[n] \subseteq pending[n]
    /\ DOMAIN call' = DOMAIN call
    /\ \A i \in DOMAIN call :
         /\ call'[i].kind = call[i].kind /\ call'[i].by = call[i].by
         /\ call'[i].seen = call[i].seen
         /\ call[i].outcome = "OK" => call'[i].outcome = "OK"
         /\ (IsWrite(i) /\ call[i].outcome # "OK" /\ call'[i].outcome = "OK") =>
              Executed(i) /\ \A n \in Nodes : request'[i][n] \in {"none", "done"}
    /\ \A i \in Calls, n \in Nodes :
         \/ request'[i][n] = request[i][n]
         \/ /\ request[i][n] # "none" /\ request'[i][n] \in {"late", "done"}
            /\ request'[i][n] = "late" => request[i][n] = "asked"

LEMMA QuietInv ==
    ASSUME Inv, TypeOK', Quiet
    PROVE  Inv'
<1>1. /\ DOMAIN call = 1..Len(call) /\ Len(call) \in Nat
      /\ DOMAIN call \subseteq Calls
    BY CallIndices DEF Inv, TypeOK
<1>2. Len(call') = Len(call)
    BY <1>1 DEF Quiet, TypeOK
<1>3. WithinBounds'
    <2>1. {i \in DOMAIN call' : call'[i].kind = "SET"} = {i \in DOMAIN call : call[i].kind = "SET"}
        BY DEF Quiet
    <2>. QED
        BY <1>2, <2>1 DEF Inv, WithinBounds, IsWrite
<1>4. \A i : Fresh(i) => Fresh(i)'
    BY DEF Quiet, Fresh, Range
<1>5. SeenWereAcknowledged'
    BY DEF Inv, SeenWereAcknowledged, Quiet, IsWrite
<1>6. UnmadeCalls'
    BY <1>4 DEF Inv, UnmadeCalls, Quiet
<1>7. OneTarget'
    BY <1>1 DEF Inv, OneTarget, Quiet, IsWrite, ResolveNodeIndex, Ring
<1>8. UnexecutedWrites'
    BY <1>1, <1>4 DEF Inv, UnexecutedWrites, Quiet, IsWrite
<1>9. LinesAreNew'
    BY DEF Inv, LinesAreNew, Quiet, Range, TypeOK
<1>10. TakenOnce'
    BY DEF Inv, TakenOnce, Quiet, IsInjective
<1>11. PrimaryGetsNoLine'
    BY DEF Inv, PrimaryGetsNoLine, Quiet, Agreed, IsPrimary, Ring
<1>12. ASSUME NEW i \in DOMAIN call, Executed(i)'
       PROVE  Executed(i)
    BY <1>1, <1>12 DEF Quiet, Executed, IsWrite
<1>13. PendingIsHandedOn'
    BY DEF Inv, PendingIsHandedOn, Quiet, Peers, Ring
<1>14. \A i, n : HandedOn(i, n)' <=> HandedOn(i, n)
    BY HandedOnStays DEF Quiet
<1>15. ExecutedIsSafe'
    BY <1>12, <1>14 DEF Inv, ExecutedIsSafe, Quiet, Agreed, IsPrimary, Ring
<1>. QED
    BY <1>3, <1>5, <1>6, <1>7, <1>8, <1>9, <1>10, <1>11, <1>13, <1>15 DEF Inv

\* A failure never acknowledges, nor takes back, anything.
LEMMA RejectKeeps ==
    ASSUME TypeOK, NEW i \in DOMAIN call, NEW codes,
           codes \subseteq {"CONNECT_TIMEOUT", "CONNECTION_ERROR", "CONNECTION_CLOSED",
                            "COMMAND_TIMEOUT", "SERVER_ERROR"},
           call[i].kind = "connect" => codes \subseteq {"CONNECT_TIMEOUT", "CONNECTION_ERROR"},
           Reject(i, codes)
    PROVE  /\ call' \in Seq(CallType) /\ Len(call') = Len(call) /\ DOMAIN call' = DOMAIN call
           /\ \A j \in DOMAIN call :
                /\ call'[j].kind = call[j].kind /\ call'[j].by = call[j].by
                /\ call'[j].seen = call[j].seen
                /\ call'[j].outcome = "OK" <=> call[j].outcome = "OK"
<1>1. /\ DOMAIN call = 1..Len(call) /\ Len(call) \in Nat
      /\ \A j \in DOMAIN call : call[j] \in CallType
    BY CallIndices DEF TypeOK
<1>2. PICK outcome \in {Wrap(call[i].kind, code) : code \in codes} :
        call' = IF call[i].outcome = "pending" THEN [call EXCEPT ![i].outcome = outcome] ELSE call
    BY DEF Reject
<1>3. outcome \in {"NODE_UNAVAILABLE", "SERVER_ERROR", "CONNECT_TIMEOUT", "CONNECTION_ERROR"}
    BY DEF Wrap
<1>4. CASE call[i].outcome # "pending"
    BY <1>1, <1>2, <1>4 DEF TypeOK
<1>5. CASE call[i].outcome = "pending"
    <2>. DEFINE settled == [call[i] EXCEPT !.outcome = outcome]
    <2>1. settled \in CallType
        BY <1>1, <1>3 DEF CallType
    <2>2. call' = [call EXCEPT ![i] = settled]
        BY <1>2, <1>5
    <2>3. /\ settled.kind = call[i].kind /\ settled.by = call[i].by /\ settled.seen = call[i].seen
          /\ settled.outcome # "OK"
        BY <1>1, <1>3 DEF CallType
    <2>. HIDE DEF settled
    <2>. QED
        BY <1>1, <1>5, <2>1, <2>2, <2>3, ExceptSeq DEF TypeOK
<1>. QED
    BY <1>4, <1>5

LEMMA CannotConnectInv ==
    ASSUME Inv, NEW i \in DOMAIN call, NEW n \in Nodes, CannotConnect(i, n)
    PROVE  Inv'
<1>. DEFINE codes == {"CONNECT_TIMEOUT", "CONNECTION_ERROR"}
                       \cup IF call[i].kind = "connect" THEN {} ELSE {"CONNECTION_CLOSED"}
<1>1. TypeOK /\ i \in Calls
    BY CallIndices DEF Inv, TypeOK
<1>2. Reject(i, codes)
    BY DEF CannotConnect
<1>3. /\ call' \in Seq(CallType) /\ Len(call') = Len(call) /\ DOMAIN call' = DOMAIN call
      /\ \A j \in DOMAIN call :
           /\ call'[j].kind = call[j].kind /\ call'[j].by = call[j].by
           /\ call'[j].seen = call[j].seen
           /\ call'[j].outcome = "OK" <=> call[j].outcome = "OK"
    BY <1>1, <1>2, RejectKeeps
<1>4. /\ request[i][n] = "asked" /\ request' = [request EXCEPT ![i][n] = "done"]
      /\ UNCHANGED <<setup, clientVars, serverVars>>
    BY DEF CannotConnect
<1>5. TypeOK'
    BY <1>1, <1>3, <1>4 DEF TypeOK, RequestStates, clientVars, serverVars
<1>6. Quiet
    BY <1>1, <1>3, <1>4 DEF Quiet, TypeOK, serverVars
<1>. QED
    BY <1>5, <1>6, QuietInv

LEMMA LoseAnswerInv ==
    ASSUME Inv, NEW i \in DOMAIN call, NEW n \in Nodes, LoseAnswer(i, n)
    PROVE  Inv'
<1>1. TypeOK /\ i \in Calls
    BY CallIndices DEF Inv, TypeOK
<1>. DEFINE codes == {"COMMAND_TIMEOUT", "CONNECTION_CLOSED", "CONNECTION_ERROR"}
                       \cup IF request[i][n] = "asked" THEN {"SERVER_ERROR"} ELSE {}
<1>2. /\ call[i].kind # "connect" /\ request[i][n] \in {"asked", "executed"}
      /\ Reject(i, codes)
    BY DEF LoseAnswer, IsHead, Waits
<1>3. /\ call' \in Seq(CallType) /\ Len(call') = Len(call) /\ DOMAIN call' = DOMAIN call
      /\ \A j \in DOMAIN call :
           /\ call'[j].kind = call[j].kind /\ call'[j].by = call[j].by
           /\ call'[j].seen = call[j].seen
           /\ call'[j].outcome = "OK" <=> call[j].outcome = "OK"
    BY <1>1, <1>2, RejectKeeps
<1>4. /\ request' = [request EXCEPT ![i][n] = Leftover(i, n)]
      /\ UNCHANGED <<setup, clientVars, serverVars>>
    BY DEF LoseAnswer
<1>5. Leftover(i, n) \in {"late", "done"} /\ (Leftover(i, n) = "late" => request[i][n] = "asked")
    BY DEF Leftover
<1>6. TypeOK'
    BY <1>1, <1>3, <1>4, <1>5 DEF TypeOK, RequestStates, clientVars, serverVars
<1>7. Quiet
    BY <1>1, <1>2, <1>3, <1>4, <1>5 DEF Quiet, TypeOK, serverVars
<1>. QED
    BY <1>6, <1>7, QuietInv

LEMMA AnswerInv ==
    ASSUME Inv, NEW i \in DOMAIN call, NEW n \in Nodes, Answer(i, n)
    PROVE  Inv'
<1>1. /\ TypeOK /\ i \in Calls
      /\ DOMAIN call = 1..Len(call) /\ Len(call) \in Nat
      /\ \A j \in DOMAIN call : call[j] \in CallType
    BY CallIndices DEF Inv, TypeOK
<1>2. request[i][n] \in {"asked", "executed"} /\ (IsWrite(i) => request[i][n] = "executed")
    BY <1>1 DEF Answer, IsHead, Waits, IsWrite, CallType, Kinds
<1>3. /\ request' = [request EXCEPT ![i][n] = "done"]
      /\ call' = Resolve(i, n)
      /\ UNCHANGED <<setup, clientVars, serverVars>>
    BY DEF Answer
<1>4. CASE call' = call
    <2>1. TypeOK'
        BY <1>1, <1>3, <1>4 DEF TypeOK, RequestStates, clientVars, serverVars
    <2>2. Quiet
        BY <1>1, <1>2, <1>3, <1>4 DEF Quiet, TypeOK, serverVars
    <2>. QED
        BY <2>1, <2>2, QuietInv
<1>5. CASE call' # call
    <2>. DEFINE ok == [call[i] EXCEPT !.outcome = "OK"]
    <2>1. /\ call' = [call EXCEPT ![i] = ok]
          /\ \A m \in Nodes \ {n} : request[i][m] \in {"none", "done"}
        BY <1>3, <1>5 DEF Resolve
    <2>2. /\ ok \in CallType /\ ok.kind = call[i].kind /\ ok.by = call[i].by
          /\ ok.seen = call[i].seen /\ ok.outcome = "OK"
        BY <1>1 DEF CallType
    <2>. HIDE DEF ok
    <2>3. call' \in Seq(CallType) /\ Len(call') = Len(call) /\ DOMAIN call' = DOMAIN call
        BY <1>1, <2>1, <2>2, ExceptSeq DEF TypeOK
    <2>4. TypeOK'
        BY <1>1, <1>3, <2>3 DEF TypeOK, RequestStates, clientVars, serverVars
    <2>5. \A j \in DOMAIN call :
            /\ call'[j].kind = call[j].kind /\ call'[j].by = call[j].by
            /\ call'[j].seen = call[j].seen
            /\ call'[j].outcome = IF j = i THEN "OK" ELSE call[j].outcome
        BY <1>1, <2>1, <2>2
    <2>6. \A m \in Nodes : request'[i][m] \in {"none", "done"}
        BY <1>1, <1>3, <2>1 DEF TypeOK
    <2>7. IsWrite(i) => Executed(i)
        BY <1>2 DEF Executed
    <2>8. \A j \in Calls, m \in Nodes :
            request'[j][m] = IF j = i /\ m = n THEN "done" ELSE request[j][m]
        BY <1>1, <1>3 DEF TypeOK
    <2>9. Quiet
        BY <1>2, <1>3, <2>3, <2>5, <2>6, <2>7, <2>8 DEF Quiet, serverVars
    <2>. QED
        BY <2>4, <2>9, QuietInv
<1>. QED
    BY <1>4, <1>5

LEMMA RestartInv ==
    ASSUME Inv, NEW n \in Nodes, Restart(n)
    PROVE  Inv'
<1>1. TypeOK /\ DOMAIN call \subseteq Calls
    BY CallIndices DEF Inv, TypeOK
<1>2. \A i \in Calls, m \in Nodes :
        request'[i][m] = IF m = n /\ request[i][m] = "late" THEN "done" ELSE request[i][m]
    BY <1>1 DEF Restart, TypeOK
<1>3. /\ applied' = [applied EXCEPT ![n] = <<>>] /\ pending' = [pending EXCEPT ![n] = {}]
      /\ UNCHANGED <<setup, clientVars, call, handed, dropped, repl>>
    BY DEF Restart
<1>4. restarts' \in 0..MaxRestarts
    BY <1>1, ClusterAssumption DEF Restart, TypeOK
<1>5. request' \in [Calls -> [Nodes -> RequestStates]]
    BY <1>1 DEF Restart, TypeOK, RequestStates
<1>6. TypeOK'
    <2>1. \A m \in Nodes : pending'[m] = IF m = n THEN {} ELSE pending[m]
        BY <1>1, <1>3 DEF TypeOK
    <2>2. /\ pending' \in [Nodes -> SUBSET Calls]
          /\ \A m \in Nodes : Cardinality(pending'[m]) <= MaxPending
        BY <1>1, <1>3, <2>1, FS_EmptySet, ClusterAssumption DEF TypeOK
    <2>. QED
        BY <1>1, <1>3, <1>4, <1>5, <2>2 DEF TypeOK, clientVars
<1>7. Quiet
    BY <1>1, <1>2, <1>3 DEF Quiet, TypeOK
<1>. QED
    BY <1>6, <1>7, QuietInv

\* The engine has room for one more.
LEMMA SettleInv ==
    ASSUME Inv, NEW n \in Nodes, NEW w, Settle(n, w)
    PROVE  Inv'
<1>1. TypeOK
    BY DEF Inv
<1>2. /\ pending' = [pending EXCEPT ![n] = @ \ {w}]
      /\ UNCHANGED <<setup, clientVars, call, request, applied, handed, dropped, repl, restarts>>
    BY DEF Settle
<1>3. \A m \in Nodes : pending'[m] = IF m = n THEN pending[n] \ {w} ELSE pending[m]
    BY <1>1, <1>2 DEF TypeOK
<1>4. Cardinality(pending[n] \ {w}) <= MaxPending
    <2>1. IsFiniteSet(pending[n])
        BY <1>1, CallsFinite, FS_Subset DEF TypeOK
    <2>2. /\ Cardinality(pending[n] \ {w}) <= Cardinality(pending[n])
          /\ Cardinality(pending[n] \ {w}) \in Nat /\ Cardinality(pending[n]) \in Nat
        BY <2>1, FS_Subset, FS_CardinalityType
    <2>. QED
        BY <1>1, <2>2, ClusterAssumption DEF TypeOK
<1>5. TypeOK'
    BY <1>1, <1>2, <1>3, <1>4 DEF TypeOK, clientVars
<1>6. Quiet
    BY <1>2, <1>3 DEF Quiet
<1>. QED
    BY <1>5, <1>6, QuietInv

LEMMA CloseInv ==
    ASSUME Inv, NEW c, Close(c)
    PROVE  Inv'
<1>1. /\ TypeOK
      /\ DOMAIN call = 1..Len(call) /\ Len(call) \in Nat /\ DOMAIN call \subseteq Calls
      /\ \A j \in DOMAIN call : call[j] \in CallType
    BY CallIndices DEF Inv, TypeOK
<1>2. PICK going \in SUBSET Nodes :
        LET Goes(i, n) == n \in going /\ request[i][n] = "asked" /\ IsHead(i, n)
            Rejected(i, n) == i \in DOMAIN call /\ Waits(i, c, n) /\ ~Goes(i, n)
        IN  /\ request' = [i \in Calls |-> [n \in Nodes |->
                  IF ~Rejected(i, n) THEN request[i][n]
                  ELSE IF IsHead(i, n) THEN Leftover(i, n) ELSE "done"]]
            /\ call' = [i \in DOMAIN call |->
                  IF call[i].outcome = "pending" /\ \E n \in Nodes : Rejected(i, n)
                    THEN [call[i] EXCEPT !.outcome = "CLIENT_CLOSED"] ELSE call[i]]
    BY DEF Close
<1>3. /\ closed' = [closed EXCEPT ![c] = TRUE] /\ clients' = [clients EXCEPT ![c] = {}]
      /\ UNCHANGED <<setup, serverVars>>
    BY DEF Close
<1>4. \A i \in Calls, n \in Nodes :
        \/ request'[i][n] = request[i][n]
        \/ /\ request[i][n] # "none" /\ request'[i][n] \in {"late", "done"}
           /\ request'[i][n] = "late" => request[i][n] = "asked"
    BY <1>2 DEF Waits, Leftover
<1>5. /\ DOMAIN call' = DOMAIN call
      /\ \A i \in DOMAIN call :
           call'[i] = call[i] \/ call'[i] = [call[i] EXCEPT !.outcome = "CLIENT_CLOSED"]
      /\ \A i \in DOMAIN call : call'[i] # call[i] => call[i].outcome = "pending"
    BY <1>2
<1>6. \A i \in DOMAIN call :
        /\ call'[i] \in CallType
        /\ call'[i].kind = call[i].kind /\ call'[i].by = call[i].by
        /\ call'[i].seen = call[i].seen
        /\ call'[i].outcome = "OK" <=> call[i].outcome = "OK"
    BY <1>1, <1>5 DEF CallType
<1>7. call' \in Seq(CallType) /\ Len(call') = Len(call)
    BY <1>1, <1>2, <1>5, <1>6
<1>8. request' \in [Calls -> [Nodes -> RequestStates]]
    BY <1>1, <1>2 DEF TypeOK, RequestStates, Leftover
<1>9. TypeOK'
    BY <1>1, <1>3, <1>7, <1>8 DEF TypeOK, serverVars
<1>10. Quiet
    BY <1>1, <1>3, <1>4, <1>5, <1>6 DEF Quiet, serverVars
<1>. QED
    BY <1>9, <1>10, QuietInv

-----------------------------------------------------------------------------
(* A call is made                                                          *)

\* Call number Len(call) + 1 is r, asked of one node if it is a write.
Made(r) ==
    /\ UNCHANGED <<setup, serverVars>>
    /\ r \in CallType /\ r.seen \subseteq Acknowledged /\ r.outcome \in {"pending", "CLIENT_CLOSED"}
    /\ call' = Append(call, r) /\ Len(call) + 1 \in Calls
    /\ \A n \in Nodes :
         /\ request'[Len(call) + 1][n] \in {"none", "asked"}
         /\ (r.kind = "SET" /\ request'[Len(call) + 1][n] # "none") => n = ResolveNodeIndex(r.by)
    /\ \A i \in Calls \ {Len(call) + 1}, n \in Nodes : request'[i][n] = request[i][n]

LEMMA MadeInv ==
    ASSUME Inv, TypeOK', WithinBounds', NEW r, Made(r)
    PROVE  Inv'
<1>. DEFINE k == Len(call) + 1
<1>1. /\ DOMAIN call = 1..Len(call) /\ Len(call) \in Nat /\ call \in Seq(CallType)
    BY CallIndices DEF Inv, TypeOK
<1>2. /\ Len(call') = k /\ DOMAIN call' = 1..k /\ k \in DOMAIN call' /\ k \notin DOMAIN call
      /\ DOMAIN call \subseteq DOMAIN call'
      /\ DOMAIN call' = DOMAIN call \cup {k}
      /\ call'[k] = r
      /\ \A i \in DOMAIN call : call'[i] = call[i] /\ i < k
    BY <1>1, AppendProperties DEF Made
<1>3. UnmadeCalls /\ k \in Calls
    BY DEF Inv, Made
<1>4. /\ UNCHANGED <<setup, applied, handed, dropped, pending, repl>>
      /\ r.seen \subseteq Acknowledged /\ r.outcome # "OK"
      /\ \A n \in Nodes :
           /\ request'[k][n] \in {"none", "asked"}
           /\ (r.kind = "SET" /\ request'[k][n] # "none") => n = ResolveNodeIndex(r.by)
      /\ \A i \in Calls \ {k}, n \in Nodes : request'[i][n] = request[i][n]
      /\ DOMAIN call \subseteq Calls
    BY CallIndices DEF Made, serverVars, Inv, TypeOK
<1>. HIDE DEF k
<1>5. \A i : Fresh(i)' <=> Fresh(i)
    BY <1>4 DEF Fresh
<1>6. Fresh(k)
    BY <1>2, <1>3 DEF UnmadeCalls
<1>7. SeenWereAcknowledged'
    <2> SUFFICES ASSUME NEW i \in DOMAIN call', NEW j \in call'[i].seen
                 PROVE  j \in DOMAIN call' /\ j < i /\ call'[j].kind = "SET" /\ call'[j].outcome = "OK"
        BY DEF SeenWereAcknowledged, IsWrite
    <2>1. CASE i = k
        BY <1>2, <1>4, <2>1 DEF Acknowledged
    <2>2. CASE i # k
        <3>1. i \in DOMAIN call /\ j \in call[i].seen
            BY <1>2, <2>2
        <3>2. j \in DOMAIN call /\ j < i /\ call[j].kind = "SET" /\ call[j].outcome = "OK"
            BY <3>1 DEF Inv, SeenWereAcknowledged, IsWrite
        <3>. QED
            BY <1>2, <3>2
    <2>. QED
        BY <2>1, <2>2
<1>8. UnmadeCalls'
    BY <1>2, <1>3, <1>4, <1>5 DEF UnmadeCalls
<1>9. OneTarget'
    <2> SUFFICES ASSUME NEW i \in DOMAIN call', call'[i].kind = "SET",
                        NEW n \in Nodes, request'[i][n] # "none"
                 PROVE  n = ResolveNodeIndex(call'[i].by)
        BY <1>4, SetupStays DEF OneTarget, IsWrite
    <2>1. CASE i = k
        BY <1>2, <1>4, <2>1
    <2>2. CASE i # k
        <3>1. i \in DOMAIN call /\ i \in Calls \ {k} /\ call'[i] = call[i]
            BY <1>2, <1>4, <2>2
        <3>2. IsWrite(i) /\ request[i][n] # "none"
            BY <1>4, <3>1 DEF IsWrite
        <3>. QED
            BY <3>1, <3>2 DEF Inv, OneTarget
    <2>. QED
        BY <2>1, <2>2
<1>10. UnexecutedWrites'
    BY <1>2, <1>4, <1>5, <1>6 DEF Inv, UnexecutedWrites, IsWrite
<1>11. LinesAreNew' /\ TakenOnce' /\ PrimaryGetsNoLine' /\ PendingIsHandedOn'
    BY <1>4 DEF Inv, LinesAreNew, TakenOnce, PrimaryGetsNoLine, PendingIsHandedOn, Agreed, IsPrimary,
                Peers, Ring
<1>12. ASSUME NEW i \in DOMAIN call', Executed(i)'
       PROVE  i \in DOMAIN call /\ Executed(i)
    BY <1>2, <1>4, <1>12 DEF Executed, IsWrite
<1>13. \A i, n : HandedOn(i, n)' <=> HandedOn(i, n)
    BY <1>4, HandedOnStays
<1>14. ExecutedIsSafe'
    BY <1>2, <1>4, <1>12, <1>13 DEF Inv, ExecutedIsSafe, Agreed, IsPrimary, Ring
<1>. QED
    BY <1>7, <1>8, <1>9, <1>10, <1>11, <1>14 DEF Inv

LEMMA CallInv ==
    ASSUME Inv, NEW c \in Clients, NEW kind \in Kinds, Call(c, kind)
    PROVE  Inv'
<1>. DEFINE k == Len(call) + 1
            targets == IF kind = "SET" THEN {ResolveNodeIndex(c)} ELSE Nodes
            writes == {i \in DOMAIN call : IsWrite(i)}
            r == [by |-> c, kind |-> kind,
                  seen |-> IF kind = "SET" THEN Acknowledged ELSE {},
                  outcome |-> IF closed[c] THEN "CLIENT_CLOSED" ELSE "pending"]
<1>1. /\ TypeOK /\ WithinBounds /\ UnmadeCalls
      /\ DOMAIN call = 1..Len(call) /\ Len(call) \in Nat /\ DOMAIN call \subseteq Calls
      /\ call \in Seq(CallType)
    BY CallIndices DEF Inv, TypeOK
<1>2. targets \subseteq Nodes
    BY <1>1, RoutesToNode DEF TypeOK
<1>3. r \in CallType
    BY <1>1 DEF CallType, Acknowledged
<1>4. call' = Append(call, r)
    BY DEF Call, New
<1>5. IsFiniteSet(writes) /\ Cardinality(writes) \in Nat
    <2>1. IsFiniteSet(DOMAIN call)
        BY <1>1, FS_Interval
    <2>. QED
        BY <2>1, FS_Subset, FS_CardinalityType
<1>6. /\ Len(call') = k /\ DOMAIN call' = DOMAIN call \cup {k} /\ k \notin DOMAIN call
      /\ call' \in Seq(CallType) /\ call'[k] = r
      /\ \A i \in DOMAIN call : call'[i] = call[i]
    BY <1>1, <1>3, <1>4, AppendProperties
<1>7. {i \in DOMAIN call' : call'[i].kind = "SET"} = IF kind = "SET" THEN writes \cup {k} ELSE writes
    BY <1>6 DEF IsWrite
<1>8. Cardinality({i \in DOMAIN call' : call'[i].kind = "SET"})
        = IF kind = "SET" THEN Cardinality(writes) + 1 ELSE Cardinality(writes)
    BY <1>5, <1>6, <1>7, FS_AddElement
<1>9. IF kind = "SET" THEN Cardinality(writes) < MaxWrites
                      ELSE Len(call) - Cardinality(writes) < MaxBroadcasts
    BY DEF Call, MayCall, IsWrite
<1>10. /\ Cardinality(writes) <= MaxWrites
       /\ Len(call) - Cardinality(writes) <= MaxBroadcasts
    BY <1>1 DEF WithinBounds
<1>. HIDE DEF writes
<1>11. WithinBounds' /\ k \in Calls /\ Len(call') <= MaxWrites + MaxBroadcasts
    BY <1>1, <1>5, <1>6, <1>8, <1>9, <1>10, ClusterAssumption DEF WithinBounds, IsWrite, Calls
<1>12. /\ UNCHANGED <<setup, closed, serverVars>>
       /\ \/ /\ closed[c] /\ UNCHANGED <<clients, request>>
          \/ /\ ~closed[c] /\ clients' = [clients EXCEPT ![c] = @ \cup targets]
             /\ request' = [request EXCEPT ![k] = [n \in Nodes |->
                   IF n \in targets THEN "asked" ELSE "none"]]
    BY DEF Call
<1>13. \A n \in Nodes : request[k][n] = "none"
    BY <1>1, <1>6, <1>11 DEF UnmadeCalls
<1>14. /\ \A n \in Nodes :
            /\ request'[k][n] \in {"none", "asked"}
            /\ (kind = "SET" /\ request'[k][n] # "none") => n = ResolveNodeIndex(c)
       /\ \A i \in Calls \ {k}, n \in Nodes : request'[i][n] = request[i][n]
    BY <1>1, <1>11, <1>12, <1>13 DEF TypeOK
<1>15. TypeOK'
    <2>1. setup' \in Setups /\ closed' \in [Clients -> BOOLEAN]
        BY <1>1, <1>12 DEF TypeOK
    <2>2. /\ clients' \in [Clients -> SUBSET Nodes]
          /\ \A d \in Clients : closed'[d] => clients'[d] = {}
        <3>. HIDE DEF targets
        <3>1. CASE clients' = clients
            BY <1>1, <1>12, <3>1 DEF TypeOK
        <3>2. CASE ~closed[c] /\ clients' = [clients EXCEPT ![c] = @ \cup targets]
            BY <1>1, <1>2, <1>12, <3>2 DEF TypeOK
        <3>. QED
            BY <1>12, <3>1, <3>2
    <2>3. request' \in [Calls -> [Nodes -> RequestStates]]
        BY <1>1, <1>12 DEF TypeOK, RequestStates
    <2>4. UNCHANGED <<applied, handed, dropped, pending, repl, restarts>>
        BY <1>12 DEF serverVars
    <2>. QED
        BY <1>1, <1>6, <1>11, <2>1, <2>2, <2>3, <2>4 DEF TypeOK
<1>16. Made(r)
    BY <1>3, <1>4, <1>11, <1>12, <1>14 DEF Made
<1>. QED
    BY <1>11, <1>15, <1>16, MadeInv

-----------------------------------------------------------------------------
(* A node takes a write                                                    *)

\* Taking a write that is new to the node, and handing it to peers to which it is new as well.
LEMMA TakeKeeps ==
    ASSUME TypeOK, NEW n \in Nodes, NEW w \in Calls, NEW peers \in SUBSET Nodes,
           Take(n, w, peers)
    PROVE  /\ applied' \in [Nodes -> Seq(Calls)] /\ handed' \in [Calls -> SUBSET Nodes]
           /\ repl' \subseteq Calls \X Nodes /\ restarts' = restarts
           /\ \A m \in Nodes \ {n} : applied'[m] = applied[m]
           /\ IF <<w, n>> \in Refused THEN applied'[n] = applied[n]
                ELSE applied'[n] # <<>> /\ applied'[n][Len(applied'[n])] = w
           /\ Range(applied'[n]) \subseteq Range(applied[n]) \cup {w}
           /\ (w \notin Range(applied[n]) /\ IsInjective(applied[n])) => IsInjective(applied'[n])
           /\ handed'[w] = handed[w] \cup peers
           /\ \A i \in Calls \ {w} : handed'[i] = handed[i]
           /\ \A i, m : <<i, m>> \in repl' <=> \/ <<i, m>> \in repl /\ <<i, m>> # <<w, n>>
                                               \/ i = w /\ m \in peers
<1>1. /\ applied' = IF <<w, n>> \in Refused THEN applied ELSE [applied EXCEPT ![n] = Append(@, w)]
      /\ handed' = [handed EXCEPT ![w] = @ \cup peers]
      /\ repl' = (repl \ {<<w, n>>}) \cup ({w} \X peers)
      /\ restarts' = restarts
    BY DEF Take
<1>2. applied[n] \in Seq(Calls)
    BY DEF TypeOK
<1>3. \A i, m : <<i, m>> \in repl' <=> \/ <<i, m>> \in repl /\ <<i, m>> # <<w, n>>
                                       \/ i = w /\ m \in peers
    BY <1>1
<1>4. /\ handed'[w] = handed[w] \cup peers
      /\ \A i \in Calls \ {w} : handed'[i] = handed[i]
      /\ handed' \in [Calls -> SUBSET Nodes] /\ repl' \subseteq Calls \X Nodes
    BY <1>1 DEF TypeOK
<1>5. CASE <<w, n>> \in Refused
    BY <1>1, <1>3, <1>4, <1>5 DEF TypeOK
<1>6. CASE <<w, n>> \notin Refused
    <2>1. applied'[n] = Append(applied[n], w)
        BY <1>1, <1>6 DEF TypeOK
    <2>2. /\ applied'[n] \in Seq(Calls) /\ applied'[n] # <<>>
          /\ Len(applied'[n]) = Len(applied[n]) + 1
          /\ \A i \in 1..Len(applied[n]) : applied'[n][i] = applied[n][i]
          /\ applied'[n][Len(applied[n]) + 1] = w
        BY <1>2, <2>1, AppendProperties
    <2>3. /\ DOMAIN applied'[n] = 1..(Len(applied[n]) + 1) /\ DOMAIN applied[n] = 1..Len(applied[n])
          /\ Len(applied[n]) \in Nat
        BY <1>2, <2>2
    <2>4. DOMAIN applied'[n] = DOMAIN applied[n] \cup {Len(applied[n]) + 1}
        BY <2>3
    <2>5. Range(applied'[n]) \subseteq Range(applied[n]) \cup {w}
        BY <2>2, <2>3, <2>4 DEF Range
    <2>6. (w \notin Range(applied[n]) /\ IsInjective(applied[n])) => IsInjective(applied'[n])
        BY <2>2, <2>3, <2>4 DEF Range, IsInjective
    <2>7. applied' \in [Nodes -> Seq(Calls)] /\ \A m \in Nodes \ {n} : applied'[m] = applied[m]
        BY <1>1, <1>2, <1>6, <2>1, <2>2 DEF TypeOK
    <2>. QED
        BY <1>1, <1>3, <1>4, <1>6, <2>2, <2>5, <2>6, <2>7
<1>. QED
    BY <1>5, <1>6

LEMMA ReplicaExecutesInv ==
    ASSUME Inv, NEW w \in Calls, NEW n \in Nodes, ReplicaExecutes(w, n)
    PROVE  Inv'
<1>1. TypeOK /\ DOMAIN call \subseteq Calls
    BY CallIndices DEF Inv, TypeOK
<1>2. /\ <<w, n>> \in repl /\ Take(n, w, {})
      /\ UNCHANGED <<setup, clients, closed, call, request, dropped, pending>>
    BY DEF ReplicaExecutes, clientVars
<1>3. /\ applied' \in [Nodes -> Seq(Calls)] /\ handed' \in [Calls -> SUBSET Nodes]
      /\ repl' \subseteq Calls \X Nodes /\ restarts' = restarts
      /\ \A m \in Nodes \ {n} : applied'[m] = applied[m]
      /\ Range(applied'[n]) \subseteq Range(applied[n]) \cup {w}
      /\ (w \notin Range(applied[n]) /\ IsInjective(applied[n])) => IsInjective(applied'[n])
      /\ \A i \in Calls : handed'[i] = handed[i]
      /\ \A i, m : <<i, m>> \in repl' <=> <<i, m>> \in repl /\ <<i, m>> # <<w, n>>
    <2>. DEFINE none == {}
    <2>1. none \in SUBSET Nodes /\ Take(n, w, none) /\ \A m : m \notin none
        BY <1>2
    <2>2. \A h \in SUBSET Nodes : h \cup none = h
        OBVIOUS
    <2>3. handed[w] \in SUBSET Nodes
        BY <1>1 DEF TypeOK
    <2>. HIDE DEF none
    <2>4. /\ applied' \in [Nodes -> Seq(Calls)] /\ handed' \in [Calls -> SUBSET Nodes]
          /\ repl' \subseteq Calls \X Nodes /\ restarts' = restarts
          /\ \A m \in Nodes \ {n} : applied'[m] = applied[m]
          /\ Range(applied'[n]) \subseteq Range(applied[n]) \cup {w}
          /\ (w \notin Range(applied[n]) /\ IsInjective(applied[n])) => IsInjective(applied'[n])
          /\ handed'[w] = handed[w] \cup none
          /\ \A i \in Calls \ {w} : handed'[i] = handed[i]
          /\ \A i, m : <<i, m>> \in repl' <=> \/ <<i, m>> \in repl /\ <<i, m>> # <<w, n>>
                                              \/ i = w /\ m \in none
        BY <1>1, <2>1, TakeKeeps
    <2>5. \A i \in Calls : handed'[i] = handed[i]
        BY <2>2, <2>3, <2>4
    <2>6. \A i, m : <<i, m>> \in repl' <=> <<i, m>> \in repl /\ <<i, m>> # <<w, n>>
        BY <2>1, <2>4
    <2>. QED
        BY <2>4, <2>5, <2>6
<1>4. TypeOK'
    BY <1>1, <1>2, <1>3 DEF TypeOK
<1>5. WithinBounds' /\ SeenWereAcknowledged' /\ OneTarget'
    BY <1>2 DEF Inv, WithinBounds, SeenWereAcknowledged, OneTarget, IsWrite, ResolveNodeIndex, Ring
<1>6. ~Fresh(w)
    BY <1>2 DEF Fresh
<1>7. \A i \in Calls : Fresh(i) => Fresh(i)'
    <2> SUFFICES ASSUME NEW i \in Calls, Fresh(i)
                 PROVE  Fresh(i)'
        OBVIOUS
    <2>1. i # w
        BY <1>6
    <2>2. \A m \in Nodes : i \notin Range(applied'[m])
        BY <1>3, <2>1 DEF Fresh
    <2>. QED
        BY <1>2, <1>3, <2>2 DEF Fresh
<1>8. UnmadeCalls'
    BY <1>2, <1>7 DEF Inv, UnmadeCalls
<1>9. UnexecutedWrites'
    BY <1>1, <1>2, <1>7 DEF Inv, UnexecutedWrites, IsWrite
<1>10. w \notin Range(applied[n])
    BY <1>2 DEF Inv, LinesAreNew
<1>11. LinesAreNew'
    <2> SUFFICES ASSUME NEW l \in repl'
                 PROVE  l[1] \notin Range(applied'[l[2]])
        BY DEF LinesAreNew
    <2>1. l = <<l[1], l[2]>> /\ l[2] \in Nodes
        BY <1>3
    <2>2. l \in repl /\ l # <<w, n>>
        BY <1>3, <2>1
    <2>3. l[1] \notin Range(applied[l[2]])
        BY <2>2 DEF Inv, LinesAreNew
    <2>. QED
        BY <1>3, <2>1, <2>2, <2>3
<1>12. TakenOnce'
    BY <1>3, <1>10 DEF Inv, TakenOnce
<1>13. PrimaryGetsNoLine'
    BY <1>2, <1>3 DEF Inv, PrimaryGetsNoLine, Agreed, IsPrimary, Ring
<1>14. Agreed => \A m \in Nodes : IsPrimary(m) => m # n
    BY <1>2 DEF Inv, PrimaryGetsNoLine
<1>15. \A i \in DOMAIN call : Executed(i)' <=> Executed(i)
    BY <1>2 DEF Executed, IsWrite
<1>16. handed' = handed
    BY <1>1, <1>3 DEF TypeOK
<1>17. \A i, m : HandedOn(i, m)' <=> HandedOn(i, m)
    BY <1>2, <1>16, HandedOnStays
<1>18. PendingIsHandedOn'
    BY <1>2, <1>16, SetupStays DEF Inv, PendingIsHandedOn
<1>19. ExecutedIsSafe'
    <2> SUFFICES ASSUME Agreed, NEW i \in DOMAIN call, NEW m \in Nodes, Executed(i), IsPrimary(m)
                 PROVE  /\ HandedOn(i, m)
                        /\ applied'[m] # <<>> =>
                             applied'[m][Len(applied'[m])] \notin call[i].seen
        BY <1>2, <1>15, <1>17, SetupStays DEF ExecutedIsSafe
    <2>. QED
        BY <1>1, <1>3, <1>14 DEF Inv, ExecutedIsSafe
<1>. QED
    BY <1>4, <1>5, <1>8, <1>9, <1>11, <1>12, <1>13, <1>18, <1>19 DEF Inv

-----------------------------------------------------------------------------
(* A user's write is dispatched                                            *)

\* The line of write w is executed at n, or refused there.
Dispatched(w, n) ==
    /\ IsWrite(w) /\ request[w][n] \in {"asked", "late"} /\ Dispatch(n, w)
    /\ request'[w][n] \in {"done", "executed"}
    /\ request'[w][n] = "executed" => <<w, n>> \notin Refused
    /\ \A i \in Calls, m \in Nodes : i # w \/ m # n => request'[i][m] = request[i][m]
    /\ UNCHANGED <<setup, clients, closed>>
    /\ DOMAIN call' = DOMAIN call /\ Len(call') = Len(call)
    /\ \A i \in DOMAIN call :
         /\ call'[i].kind = call[i].kind /\ call'[i].by = call[i].by
         /\ call'[i].seen = call[i].seen
         /\ call'[i].outcome = "OK" <=> call[i].outcome = "OK"

LEMMA PeersFacts ==
    ASSUME TypeOK, NEW n \in Nodes, IsPrimary(n)
    PROVE  Peers(n) \subseteq Nodes /\ n \notin Peers(n)
<1>1. setup \in Setup /\ setup.node[n] \in Configs
    BY ClusterAssumption DEF TypeOK, Setup, IsPrimary
<1>2. setup.walk[setup.node[n]] \in Orders
    BY <1>1 DEF Setup
<1>3. Cardinality(Nodes) \in Nat
    BY ClusterAssumption, FS_CardinalityType
<1>. QED
    BY <1>2, <1>3, ClusterAssumption DEF Orders, Peers, Ring

LEMMA DispatchedInv ==
    ASSUME Inv, NEW w \in DOMAIN call, NEW n \in Nodes, Dispatched(w, n),
           call' \in Seq(CallType), request' \in [Calls -> [Nodes -> RequestStates]]
    PROVE  Inv'
<1>. DEFINE peers == IF IsPrimary(n) /\ ~AtLimit(n) THEN Peers(n) ELSE {}
<1>1. TypeOK /\ DOMAIN call \subseteq Calls /\ w \in Calls /\ \A i \in DOMAIN call : call[i] \in CallType
    BY CallIndices DEF Inv, TypeOK
<1>2. /\ Take(n, w, peers)
      /\ dropped' = IF IsPrimary(n) /\ AtLimit(n) THEN dropped \cup {w} ELSE dropped
      /\ pending' = IF peers = {} THEN pending ELSE [pending EXCEPT ![n] = @ \cup {w}]
      /\ UNCHANGED <<setup, clients, closed>>
    BY DEF Dispatched, Dispatch
<1>3. peers \subseteq Nodes /\ n \notin peers
    BY <1>1, PeersFacts
<1>4. peers = {} \/ (IsPrimary(n) /\ ~AtLimit(n) /\ peers = Peers(n))
    OBVIOUS
<1>5. IsPrimary(n) => AtLimit(n) \/ peers = Peers(n)
    OBVIOUS
<1>. HIDE DEF peers
<1>6. /\ applied' \in [Nodes -> Seq(Calls)] /\ handed' \in [Calls -> SUBSET Nodes]
      /\ repl' \subseteq Calls \X Nodes /\ restarts' = restarts
      /\ \A m \in Nodes \ {n} : applied'[m] = applied[m]
      /\ IF <<w, n>> \in Refused THEN applied'[n] = applied[n]
           ELSE applied'[n] # <<>> /\ applied'[n][Len(applied'[n])] = w
      /\ Range(applied'[n]) \subseteq Range(applied[n]) \cup {w}
      /\ (w \notin Range(applied[n]) /\ IsInjective(applied[n])) => IsInjective(applied'[n])
      /\ handed'[w] = handed[w] \cup peers
      /\ \A i \in Calls \ {w} : handed'[i] = handed[i]
      /\ \A i, m : <<i, m>> \in repl' <=> \/ <<i, m>> \in repl /\ <<i, m>> # <<w, n>>
                                          \/ i = w /\ m \in peers
    BY <1>1, <1>2, <1>3, TakeKeeps
<1>7. /\ IsWrite(w) /\ request[w][n] \in {"asked", "late"}
      /\ request'[w][n] \in {"done", "executed"}
      /\ request'[w][n] = "executed" => <<w, n>> \notin Refused
      /\ \A i \in Calls, m \in Nodes : i # w \/ m # n => request'[i][m] = request[i][m]
      /\ DOMAIN call' = DOMAIN call /\ Len(call') = Len(call)
      /\ \A i \in DOMAIN call :
           /\ call'[i].kind = call[i].kind /\ call'[i].by = call[i].by
           /\ call'[i].seen = call[i].seen
           /\ call'[i].outcome = "OK" <=> call[i].outcome = "OK"
    BY DEF Dispatched
<1>8. n = ResolveNodeIndex(call[w].by) /\ \A m \in Nodes \ {n} : request[w][m] = "none"
    BY <1>7 DEF Inv, OneTarget
<1>9. Fresh(w) /\ call[w].outcome # "OK"
    BY <1>7 DEF Inv, UnexecutedWrites
<1>10. handed[w] = {} /\ handed'[w] = peers /\ w \notin dropped
    BY <1>6, <1>9 DEF Fresh
<1>11. TypeOK'
    <2>1. \A m \in Nodes : pending'[m] = IF m = n /\ peers # {} THEN pending[n] \cup {w} ELSE pending[m]
        BY <1>1, <1>2 DEF TypeOK
    <2>2. pending' \in [Nodes -> SUBSET Calls] /\ dropped' \subseteq Calls
        BY <1>1, <1>2 DEF TypeOK
    <2>3. peers # {} => Cardinality(pending[n] \cup {w}) <= MaxPending
        <3>1. IsFiniteSet(pending[n])
            BY <1>1, CallsFinite, FS_Subset DEF TypeOK
        <3>2. w \notin pending[n]
            BY <1>10 DEF Inv, PendingIsHandedOn
        <3>3. Cardinality(pending[n] \cup {w}) = Cardinality(pending[n]) + 1
            BY <3>1, <3>2, FS_AddElement
        <3>4. Cardinality(pending[n]) \in Nat
            BY <3>1, FS_CardinalityType
        <3>. QED
            BY <1>4, <3>3, <3>4, ClusterAssumption DEF AtLimit
    <2>4. \A m \in Nodes : Cardinality(pending'[m]) <= MaxPending
        BY <1>1, <2>1, <2>3 DEF TypeOK
    <2>. QED
        BY <1>1, <1>2, <1>6, <1>7, <2>2, <2>4 DEF TypeOK
<1>12. WithinBounds' /\ SeenWereAcknowledged'
    <2>1. {i \in DOMAIN call' : call'[i].kind = "SET"} = {i \in DOMAIN call : call[i].kind = "SET"}
        BY <1>7
    <2>2. WithinBounds'
        BY <1>7, <2>1 DEF Inv, WithinBounds, IsWrite
    <2>3. SeenWereAcknowledged'
        BY <1>7 DEF Inv, SeenWereAcknowledged, IsWrite
    <2>. QED
        BY <2>2, <2>3
<1>13. OneTarget'
    <2> SUFFICES ASSUME NEW i \in DOMAIN call, IsWrite(i),
                        NEW m \in Nodes, request'[i][m] # "none"
                 PROVE  m = ResolveNodeIndex(call[i].by)
        BY <1>2, <1>7, SetupStays DEF OneTarget, IsWrite
    <2>1. (i = w /\ m = n) \/ request[i][m] # "none"
        BY <1>1, <1>7
    <2>. QED
        BY <1>8, <2>1 DEF Inv, OneTarget
<1>14. \A i \in Calls \ {w} : Fresh(i) => Fresh(i)'
    <2> SUFFICES ASSUME NEW i \in Calls \ {w}, Fresh(i)
                 PROVE  Fresh(i)'
        OBVIOUS
    <2>1. \A m \in Nodes : i \notin Range(applied'[m])
        BY <1>6 DEF Fresh
    <2>2. i \notin dropped'
        BY <1>2 DEF Fresh
    <2>. QED
        BY <1>6, <2>1, <2>2 DEF Fresh
<1>15. UnmadeCalls'
    <2> SUFFICES ASSUME NEW i \in Calls \ DOMAIN call
                 PROVE  Fresh(i)' /\ \A m \in Nodes : request'[i][m] = "none"
        BY <1>7 DEF UnmadeCalls
    <2>1. i # w /\ Fresh(i) /\ \A m \in Nodes : request[i][m] = "none"
        BY DEF Inv, UnmadeCalls
    <2>. QED
        BY <1>7, <1>14, <2>1
<1>16. UnexecutedWrites'
    BY <1>1, <1>7, <1>8, <1>14 DEF Inv, UnexecutedWrites, IsWrite
<1>17. LinesAreNew'
    <2> SUFFICES ASSUME NEW l \in repl'
                 PROVE  l[1] \notin Range(applied'[l[2]])
        BY DEF LinesAreNew
    <2>1. l = <<l[1], l[2]>> /\ l[2] \in Nodes
        BY <1>6
    <2>2. CASE l \in repl
        <3>1. l[1] # w
            BY <1>9, <2>1, <2>2 DEF Fresh
        <3>2. l[1] \notin Range(applied[l[2]])
            BY <2>2 DEF Inv, LinesAreNew
        <3>. QED
            BY <1>6, <2>1, <3>1, <3>2
    <2>3. CASE l \notin repl
        <3>1. l[1] = w /\ l[2] \in peers
            BY <1>6, <2>1, <2>3
        <3>. QED
            BY <1>3, <1>6, <1>9, <2>1, <3>1 DEF Fresh
    <2>. QED
        BY <2>2, <2>3
<1>18. TakenOnce'
    BY <1>6, <1>9 DEF Inv, TakenOnce, Fresh
<1>19. \A m \in Nodes : Agreed /\ IsPrimary(m) => m = n
    BY <1>1, <1>8, RoutesToPrimary DEF CallType
<1>20. PrimaryGetsNoLine'
    <2> SUFFICES ASSUME Agreed, NEW m \in Nodes, IsPrimary(m), NEW i \in Calls
                 PROVE  <<i, m>> \notin repl'
        BY <1>2, SetupStays DEF PrimaryGetsNoLine
    <2>. QED
        BY <1>3, <1>6, <1>19 DEF Inv, PrimaryGetsNoLine
<1>21. PendingIsHandedOn'
    <2> SUFFICES ASSUME NEW m \in Nodes, NEW v \in pending'[m]
                 PROVE  handed'[v] = Peers(m) /\ handed'[v] # {}
        BY <1>2, SetupStays DEF PendingIsHandedOn
    <2>1. CASE v \in pending[m]
        <3>1. handed[v] = Peers(m) /\ handed[v] # {} /\ v \in Calls
            BY <1>1, <2>1 DEF Inv, PendingIsHandedOn, TypeOK
        <3>. QED
            BY <1>6, <1>10, <3>1
    <2>2. CASE v \notin pending[m]
        <3>1. m = n /\ v = w /\ peers # {}
            BY <1>1, <1>2, <2>2 DEF TypeOK
        <3>. QED
            BY <1>4, <1>10, <3>1
    <2>. QED
        BY <2>1, <2>2
<1>22. ASSUME NEW i \in DOMAIN call, i # w, NEW m \in Nodes, IsPrimary(m), m = n, HandedOn(i, m)
       PROVE  HandedOn(i, m)'
    <2>. DEFINE before == {v \in Calls \ {i} : handed[v] = Peers(m)}
                after == {v \in Calls \ {i} : handed'[v] = Peers(m)}
    <2>1. i \in dropped' <=> i \in dropped
        BY <1>2, <1>22
    <2>2. handed'[i] = handed[i] /\ i \in Calls
        BY <1>1, <1>6, <1>22
    <2>3. before \subseteq after
        <3> SUFFICES ASSUME NEW v \in Calls, handed[v] = Peers(m)
                     PROVE  handed'[v] = Peers(m)
            OBVIOUS
        <3>1. CASE v = w
            BY <1>4, <1>10, <1>22, <3>1
        <3>2. CASE v # w
            BY <1>6, <3>2
        <3>. QED
            BY <3>1, <3>2
    <2>4. Cardinality(before) <= Cardinality(after)
        BY <2>3, CallsFinite, FS_Subset
    <2>5. Cardinality(before) \in Nat /\ Cardinality(after) \in Nat
        BY CallsFinite, FS_Subset, FS_CardinalityType
    <2>6. i \in dropped => handed[i] = {} /\ Cardinality(before) >= MaxPending
        BY <1>22 DEF HandedOn
    <2>7. i \notin dropped => handed[i] = Peers(m)
        BY <1>22 DEF HandedOn
    <2>8. Peers(m)' = Peers(m)
        BY <1>2, SetupStays
    <2>9. i \in dropped => Cardinality(after) >= MaxPending
        BY <2>4, <2>5, <2>6, ClusterAssumption
    <2>. QED
        BY <2>1, <2>2, <2>6, <2>7, <2>8, <2>9 DEF HandedOn
<1>23. IsPrimary(n) => HandedOn(w, n)'
    <2> SUFFICES ASSUME IsPrimary(n)
                 PROVE  HandedOn(w, n)'
        OBVIOUS
    <2>. DEFINE after == {v \in Calls \ {w} : handed'[v] = Peers(n)}
    <2>1. Peers(n)' = Peers(n)
        BY <1>2, SetupStays
    <2>2. CASE ~AtLimit(n)
        BY <1>2, <1>5, <1>10, <2>1, <2>2 DEF HandedOn
    <2>3. CASE AtLimit(n)
        <3>1. w \in dropped' /\ handed'[w] = {}
            BY <1>2, <1>4, <1>10, <2>3
        <3>2. pending[n] \subseteq after
            <4> SUFFICES ASSUME NEW v \in pending[n]
                         PROVE  v \in Calls \ {w} /\ handed'[v] = Peers(n)
                OBVIOUS
            <4>1. handed[v] = Peers(n) /\ handed[v] # {} /\ v \in Calls
                BY <1>1 DEF Inv, PendingIsHandedOn, TypeOK
            <4>. QED
                BY <1>6, <1>10, <4>1
        <3>3. IsFiniteSet(after)
            BY CallsFinite, FS_Subset
        <3>. HIDE DEF after
        <3>4. Cardinality(pending[n]) <= Cardinality(after) /\ Cardinality(after) \in Nat
              /\ Cardinality(pending[n]) \in Nat
            BY <3>2, <3>3, FS_Subset, FS_CardinalityType
        <3>5. Cardinality(after) >= MaxPending
            BY <2>3, <3>4, ClusterAssumption DEF AtLimit
        <3>. QED
            BY <2>1, <3>1, <3>5 DEF HandedOn, after
    <2>. QED
        BY <2>2, <2>3
<1>24. ExecutedIsSafe'
    <2> SUFFICES ASSUME Agreed, NEW i \in DOMAIN call, NEW m \in Nodes, Executed(i)', IsPrimary(m)
                 PROVE  /\ HandedOn(i, m)'
                        /\ applied'[m] # <<>> =>
                             applied'[m][Len(applied'[m])] \notin call[i].seen
        BY <1>2, <1>7, SetupStays DEF ExecutedIsSafe
    <2>1. m = n
        BY <1>19
    <2>2. SeenWereAcknowledged
        BY DEF Inv
    <2>3. w \notin call[i].seen
        BY <1>9, <2>2 DEF SeenWereAcknowledged
    <2>4. CASE i = w
        <3>1. \E k \in Nodes : request'[w][k] = "executed"
            BY <1>7, <1>9, <2>4 DEF Executed
        <3>2. request'[w][n] = "executed"
            BY <1>1, <1>7, <1>8, <3>1
        <3>. QED
            BY <1>6, <1>7, <1>23, <2>1, <2>3, <2>4, <3>2
    <2>5. CASE i # w
        <3>1. Executed(i)
            BY <1>1, <1>7, <2>5 DEF Executed, IsWrite
        <3>2. /\ HandedOn(i, m)
              /\ applied[m] # <<>> => applied[m][Len(applied[m])] \notin call[i].seen
            BY <3>1 DEF Inv, ExecutedIsSafe
        <3>. QED
            BY <1>6, <1>22, <2>1, <2>3, <2>5, <3>2
    <2>. QED
        BY <2>4, <2>5
<1>. QED
    BY <1>11, <1>12, <1>13, <1>15, <1>16, <1>17, <1>18, <1>20, <1>21, <1>24 DEF Inv

LEMMA ExecuteInv ==
    ASSUME Inv, NEW w \in DOMAIN call, NEW n \in Nodes, Execute(w, n)
    PROVE  Inv'
<1>1. TypeOK /\ w \in Calls
    BY CallIndices DEF Inv, TypeOK
<1>2. /\ IsWrite(w) /\ request[w][n] \in {"asked", "late"} /\ Dispatch(n, w)
      /\ <<w, n>> \notin Refused
      /\ request' = [request EXCEPT ![w][n] = IF @ = "late" THEN "done" ELSE "executed"]
      /\ UNCHANGED <<setup, clients, closed, call>>
    BY DEF Execute, Arrived, clientVars, IsWrite
<1>3. /\ request'[w][n] \in {"done", "executed"}
      /\ \A i \in Calls, m \in Nodes : i # w \/ m # n => request'[i][m] = request[i][m]
      /\ request' \in [Calls -> [Nodes -> RequestStates]]
    BY <1>1, <1>2 DEF TypeOK, RequestStates
<1>4. Dispatched(w, n)
    BY <1>2, <1>3 DEF Dispatched
<1>. QED
    BY <1>1, <1>2, <1>3, <1>4, DispatchedInv DEF TypeOK

LEMMA RefuseInv ==
    ASSUME Inv, NEW w \in DOMAIN call, NEW n \in Nodes, Refuse(w, n)
    PROVE  Inv'
<1>. DEFINE codes == {"SERVER_ERROR"}
<1>1. TypeOK /\ w \in Calls
    BY CallIndices DEF Inv, TypeOK
<1>2. /\ IsWrite(w) /\ request[w][n] \in {"asked", "late"} /\ Dispatch(n, w)
      /\ request' = [request EXCEPT ![w][n] = "done"]
      /\ UNCHANGED <<setup, clients, closed>>
      /\ Reject(w, codes)
    BY DEF Refuse, Arrived, clientVars, IsWrite
<1>3. /\ call' \in Seq(CallType) /\ Len(call') = Len(call) /\ DOMAIN call' = DOMAIN call
      /\ \A j \in DOMAIN call :
           /\ call'[j].kind = call[j].kind /\ call'[j].by = call[j].by
           /\ call'[j].seen = call[j].seen
           /\ call'[j].outcome = "OK" <=> call[j].outcome = "OK"
    BY <1>1, <1>2, RejectKeeps DEF IsWrite
<1>4. /\ request'[w][n] = "done"
      /\ \A i \in Calls, m \in Nodes : i # w \/ m # n => request'[i][m] = request[i][m]
      /\ request' \in [Calls -> [Nodes -> RequestStates]]
    BY <1>1, <1>2 DEF TypeOK, RequestStates
<1>5. Dispatched(w, n)
    BY <1>2, <1>3, <1>4 DEF Dispatched
<1>. QED
    BY <1>3, <1>4, <1>5, DispatchedInv

-----------------------------------------------------------------------------

LEMMA InitInv == Init => Inv
<1> SUFFICES ASSUME Init
             PROVE  Inv
    OBVIOUS
<1>1. call = <<>> /\ DOMAIN call = {} /\ Len(call) = 0
    BY DEF Init
<1>2. TypeOK
    BY <1>1, FS_EmptySet, ClusterAssumption DEF Init, TypeOK, RequestStates
<1>3. WithinBounds
    <2>1. {i \in DOMAIN call : IsWrite(i)} = {}
        BY <1>1
    <2>. QED
        BY <1>1, <2>1, FS_EmptySet, ClusterAssumption DEF WithinBounds
<1>4. \A i \in Calls : Fresh(i)
    BY DEF Init, Fresh, Range
<1>5. UnmadeCalls /\ LinesAreNew /\ TakenOnce /\ PrimaryGetsNoLine /\ PendingIsHandedOn
    BY <1>4 DEF Init, UnmadeCalls, LinesAreNew, TakenOnce, IsInjective, PrimaryGetsNoLine,
                PendingIsHandedOn
<1>6. SeenWereAcknowledged /\ OneTarget /\ UnexecutedWrites /\ ExecutedIsSafe
    BY <1>1 DEF SeenWereAcknowledged, OneTarget, UnexecutedWrites, ExecutedIsSafe
<1>. QED
    BY <1>2, <1>3, <1>5, <1>6 DEF Inv

LEMMA NextInv == Inv /\ [Next]_vars => Inv'
<1> SUFFICES ASSUME Inv, [Next]_vars
             PROVE  Inv'
    OBVIOUS
<1>1. CASE \E c \in Clients, kind \in Kinds : Call(c, kind)
    BY <1>1, CallInv
<1>2. CASE \E c \in Closers : Close(c)
    BY <1>2, CloseInv
<1>3. CASE \E i \in DOMAIN call, n \in Nodes : CannotConnect(i, n)
    BY <1>3, CannotConnectInv
<1>4. CASE \E i \in DOMAIN call, n \in Nodes : LoseAnswer(i, n)
    BY <1>4, LoseAnswerInv
<1>5. CASE \E i \in DOMAIN call, n \in Nodes : Execute(i, n)
    BY <1>5, ExecuteInv
<1>6. CASE \E i \in DOMAIN call, n \in Nodes : Refuse(i, n)
    BY <1>6, RefuseInv
<1>7. CASE \E i \in DOMAIN call, n \in Nodes : Answer(i, n)
    BY <1>7, AnswerInv
<1>8. CASE \E w \in Calls, n \in Nodes : ReplicaExecutes(w, n)
    BY <1>8, ReplicaExecutesInv
<1>9. CASE \E w \in Calls, n \in Nodes : Settle(n, w)
    BY <1>9, SettleInv
<1>10. CASE \E n \in Restarting : Restart(n)
    BY <1>10, RestartInv, ClusterAssumption
<1>11. CASE UNCHANGED vars
    <2>1. TypeOK'
        BY <1>11 DEF vars, clientVars, serverVars, Inv, TypeOK
    <2>2. Quiet
        BY <1>11 DEF vars, clientVars, serverVars, Quiet
    <2>. QED
        BY <2>1, <2>2, QuietInv
<1>. QED
    BY <1>1, <1>2, <1>3, <1>4, <1>5, <1>6, <1>7, <1>8, <1>9, <1>10, <1>11 DEF Next

-----------------------------------------------------------------------------

\* Every reachable state satisfies the inductive invariant.
THEOREM Safety == Spec => []Inv
<1>1. Init => Inv
    BY InitInv
<1>2. Inv /\ [Next]_vars => Inv'
    BY NextInv
<1>. QED
    BY <1>1, <1>2, PTL DEF Spec

\* The variables keep their types, and a closed ClusterClient has no CacheClient left.
THEOREM TypeCorrect == Spec => []TypeOK
<1>1. Inv => TypeOK
    BY DEF Inv
<1>. QED
    BY <1>1, Safety, PTL

\* Where the processes agree, an acknowledged write was handed to exactly the key's other replicas,
\* or dropped because the primary had handed on MaxPending others.
THEOREM AcknowledgedIsHandedOnHolds == Spec => []AcknowledgedIsHandedOn
<1>1. Inv => AcknowledgedIsHandedOn
    BY DEF Inv, ExecutedIsSafe, AcknowledgedIsHandedOn, Acknowledged, Executed, IsWrite
<1>. QED
    BY <1>1, Safety, PTL

\* Where the processes agree, no acknowledged write is undone by one acknowledged before it.
THEOREM AcknowledgedIsNotUndoneHolds == Spec => []AcknowledgedIsNotUndone
<1>1. Inv => AcknowledgedIsNotUndone
    BY DEF Inv, ExecutedIsSafe, AcknowledgedIsNotUndone, Acknowledged, Executed, IsWrite
<1>. QED
    BY <1>1, Safety, PTL

\* No node takes a write twice, whatever the processes' configurations.
THEOREM TakenOnceHolds == Spec => []TakenOnce
<1>1. Inv => TakenOnce
    BY DEF Inv
<1>. QED
    BY <1>1, Safety, PTL

-----------------------------------------------------------------------------
(* The codec, on the way that a client's write takes here: from its caller  *)
(* to the primary, and from the primary to a replica.  Protocol shares no   *)
(* variable with ClusterClient, whose writes have no words.                *)

PlainWords == Words \ NulWords

\* What parseCommand makes of a SET, DEL or DELETE, and of the other lines.
IsSet(c) ==
    \E a \in PlainWords, ex \in Numbers \cup {NoEx} :
        \/ c = Cmd("SET", <<a>>, <<>>, ex)
        \/ \E u \in PlainWords : c = Cmd("SET", <<a>>, <<u>>, ex)

IsKeyCommand(c) ==
    \E name \in KeyCommands, a \in PlainWords : c = Cmd(name, <<a>>, <<>>, NoEx)

IsParsed(c) ==
    \/ c = Error
    \/ c = Cmd("PING", <<>>, <<>>, NoEx)
    \/ IsKeyCommand(c)
    \/ IsSet(c)

\* A line that was sent, and what became of it.
IsSent ==
    \/ line = <<>>
    \/ asked # Nothing /\ line = FormatCommand(asked)
    \/ asked = Nothing /\ line \in RawLines

CodecInv ==
    /\ asked \in Requests \cup {Nothing}
    /\ IsSent
    /\ stored # Nothing => line # <<>> /\ stored = ParseCommand(line)
    /\ replLine # <<>> =>
          /\ stored # Nothing
          /\ stored.name \in {"SET", "DEL", "DELETE"}
          /\ replLine = FormatReplCommand(stored)
    /\ replica # Nothing => replLine # <<>> /\ replica = ParseCommand(replLine)

-----------------------------------------------------------------------------
(* The words of a line that is put together from parts                     *)

\* A word in front of a line.
LEMMA InFront ==
    ASSUME NEW S, NEW a \in S, NEW s \in Seq(S)
    PROVE  /\ <<a>> \o s \in Seq(S)
           /\ Len(<<a>> \o s) = Len(s) + 1
           /\ (<<a>> \o s)[1] = a
           /\ \A i \in 1..Len(s) : (<<a>> \o s)[i + 1] = s[i]
  <1>1. <<a>> \in Seq(S) /\ Len(<<a>>) = 1 /\ <<a>>[1] = a
    OBVIOUS
  <1>2. /\ <<a>> \o s \in Seq(S)
        /\ Len(<<a>> \o s) = 1 + Len(s)
        /\ \A i \in 1..(1 + Len(s)) : (<<a>> \o s)[i] = IF i <= 1 THEN a ELSE s[i - 1]
    BY <1>1, ConcatProperties
  <1>3. Len(s) \in Nat
    BY LenProperties
  <1> QED
    BY <1>1, <1>2, <1>3

LEMMA OneWord ==
    ASSUME NEW S, NEW s \in Seq(S), Len(s) = 1
    PROVE  s = <<s[1]>> /\ s[1] \in S
  <1>1. s[1] \in S
    OBVIOUS
  <1> DEFINE t == <<s[1]>>
  <1>2. t \in Seq(S) /\ Len(t) = 1 /\ t[1] = s[1]
    BY <1>1
  <1> HIDE DEF t
  <1>3. s = t
    BY <1>2, SeqEqual
  <1> QED
    BY <1>1, <1>3 DEF t

\* The words a line without NUL is put together from.
LEMMA PlainFacts ==
    /\ Reserved \cup Numbers \subseteq PlainWords /\ PlainWords \subseteq Words
    /\ \A l \in Seq(PlainWords) : ~HasNul(l)
  <1>1. Reserved \cup Numbers \subseteq PlainWords /\ PlainWords \subseteq Words
    BY WordsAssumption DEF PlainWords
  <1>2. ASSUME NEW l \in Seq(PlainWords) PROVE ~HasNul(l)
    <2>1. \A i \in DOMAIN l : l[i] \in PlainWords
      OBVIOUS
    <2> QED
      BY <2>1 DEF HasNul, PlainWords
  <1> QED
    BY <1>1, <1>2

LEMMA PlainSequence ==
    ASSUME NEW s \in Seq(Words), ~HasNul(s)
    PROVE  s \in Seq(PlainWords)
  <1>1. \A i \in 1..Len(s) : s[i] \in PlainWords
    BY DEF HasNul, PlainWords
  <1> QED
    BY <1>1

\* What formatCommand writes for a SET, word by word: the value may be missing, and the EX.
SetLine(S, l, a, v, ex) ==
    /\ l \in Seq(S)
    /\ Len(l) = 2 + Len(v) + IF ex = NoEx THEN 0 ELSE 2
    /\ l[1] = "SET" /\ l[2] = a
    /\ Len(v) = 1 => l[3] = v[1]
    /\ ex # NoEx => l[Len(v) + 3] = "EX" /\ l[Len(v) + 4] = ex

LEMMA SetFormatted ==
    ASSUME NEW S, Reserved \cup Numbers \subseteq S, S \subseteq Words,
           NEW a \in S, NEW v \in Seq(S), Len(v) <= 1,
           NEW ex \in Numbers \cup {NoEx}
    PROVE  SetLine(S, FormatCommand(Cmd("SET", <<a>>, v, ex)), a, v, ex)
  <1> DEFINE key == <<a>>
             named == <<"SET">> \o key
             valued == named \o v
             suffix == ExSuffix(ex)
             l == valued \o suffix
  <1>1. FormatCommand(Cmd("SET", <<a>>, v, ex)) = l
    BY DEF FormatCommand, Cmd, KeyCommands
  <1>2. "SET" \in S /\ "EX" \in S /\ NoEx \notin S /\ Numbers \subseteq S
    BY WordsAssumption DEF Reserved
  <1>3. key \in Seq(S) /\ Len(key) = 1 /\ key[1] = a
    OBVIOUS
  <1>4. suffix \in Seq(S)
    BY <1>2 DEF ExSuffix
  <1>5. /\ Len(suffix) = IF ex = NoEx THEN 0 ELSE 2
        /\ ex # NoEx => suffix[1] = "EX" /\ suffix[2] = ex
    BY <1>2 DEF ExSuffix
  <1> HIDE DEF key, suffix
  <1>6. named \in Seq(S) /\ Len(named) = 2 /\ named[1] = "SET" /\ named[2] = a
    <2>1. /\ named \in Seq(S) /\ Len(named) = Len(key) + 1 /\ named[1] = "SET"
          /\ \A i \in 1..Len(key) : named[i + 1] = key[i]
      <3>1. "SET" \in S /\ key \in Seq(S)
        BY <1>2, <1>3
      <3> QED
        BY <3>1, InFront
    <2> HIDE DEF named
    <2> QED
      BY <1>3, <2>1
  <1> HIDE DEF named
  <1>7. /\ valued \in Seq(S) /\ Len(valued) = 2 + Len(v)
        /\ valued[1] = "SET" /\ valued[2] = a
        /\ Len(v) = 1 => valued[3] = v[1]
    <2>1. /\ valued \in Seq(S) /\ Len(valued) = Len(named) + Len(v)
          /\ \A i \in 1..(Len(named) + Len(v)) :
                valued[i] = IF i <= Len(named) THEN named[i] ELSE v[i - Len(named)]
      BY <1>6, ConcatProperties
    <2>2. Len(v) \in Nat
      BY LenProperties
    <2> HIDE DEF valued
    <2> QED
      BY <1>6, <2>1, <2>2
  <1> HIDE DEF valued
  <1>8. SetLine(S, l, a, v, ex)
    <2>1. /\ l \in Seq(S) /\ Len(l) = Len(valued) + Len(suffix)
          /\ \A i \in 1..(Len(valued) + Len(suffix)) :
                l[i] = IF i <= Len(valued) THEN valued[i] ELSE suffix[i - Len(valued)]
      BY <1>4, <1>7, ConcatProperties
    <2>2. Len(v) \in Nat
      BY LenProperties
    <2> HIDE DEF l
    <2> QED
      BY <1>5, <1>7, <2>1, <2>2 DEF SetLine
  <1> QED
    BY <1>1, <1>8

\* A value as parseSet makes it.
IsValue(v) == v = <<>> \/ \E u \in Words : v = <<u>>

LEMMA SetParsed ==
    ASSUME NEW a, NEW v, IsValue(v), NEW ex \in Numbers \cup {NoEx},
           NEW S, NEW l, SetLine(S, l, a, v, ex)
    PROVE  ParseSet(l) = Cmd("SET", <<a>>, v, ex)
  <1>1. /\ NoEx \notin Words /\ Numbers \subseteq Words
        /\ Upper["EX"] = "EX" /\ \A n \in Numbers : NumberOf[n] = n
    BY WordsAssumption DEF Reserved
  <1>2. CASE v = <<>> /\ ex = NoEx
    BY <1>2 DEF SetLine, ParseSet, ExAt, SetWithEx
  <1>3. CASE v = <<>> /\ ex # NoEx
    <2>1. Len(l) = 4 /\ l[1] = "SET" /\ l[2] = a /\ l[3] = "EX" /\ l[4] = ex /\ NumberOf[ex] = ex
      BY <1>1, <1>3 DEF SetLine
    <2> QED
      BY <1>1, <1>3, <2>1 DEF ParseSet, ExAt, SetWithEx
  <1>4. ASSUME NEW u \in Words, v = <<u>> PROVE ParseSet(l) = Cmd("SET", <<a>>, v, ex)
    <2>1. Len(v) = 1 /\ v[1] = u
      BY <1>4
    <2>2. CASE ex = NoEx
      <3>1. Len(l) = 3 /\ l[2] = a /\ l[3] = u
        BY <2>1, <2>2 DEF SetLine
      <3> QED
        BY <1>4, <2>2, <3>1 DEF ParseSet, ExAt, SetWithEx
    <2>3. CASE ex # NoEx
      <3>1. Len(l) = 5 /\ l[2] = a /\ l[3] = u /\ l[4] = "EX" /\ l[5] = ex /\ NumberOf[ex] = ex
        BY <1>1, <2>1, <2>3 DEF SetLine
      <3> QED
        BY <1>1, <1>4, <2>3, <3>1 DEF ParseSet, ExAt, SetWithEx
    <2> QED
      BY <2>2, <2>3
  <1> QED
    BY <1>2, <1>3, <1>4 DEF IsValue

\* The commands of one key, written and read.
LEMMA KeyCommandLine ==
    ASSUME NEW S, Reserved \subseteq S, NEW name \in KeyCommands, NEW a \in S
    PROVE  /\ <<name>> \o <<a>> \in Seq(S) /\ Len(<<name>> \o <<a>>) = 2
           /\ (<<name>> \o <<a>>)[1] = name /\ (<<name>> \o <<a>>)[2] = a
  <1> DEFINE key == <<a>>
             l == <<name>> \o key
  <1>1. name \in S
    BY DEF Reserved
  <1>2. key \in Seq(S) /\ Len(key) = 1 /\ key[1] = a
    OBVIOUS
  <1> HIDE DEF key
  <1>3. /\ l \in Seq(S) /\ Len(l) = Len(key) + 1 /\ l[1] = name
        /\ \A i \in 1..Len(key) : l[i + 1] = key[i]
    <2>1. key \in Seq(S)
      BY <1>2
    <2> QED
      BY <1>1, <2>1, InFront
  <1> HIDE DEF l
  <1>4. l \in Seq(S) /\ Len(l) = 2 /\ l[1] = name /\ l[2] = a
    BY <1>2, <1>3
  <1> QED
    BY <1>4 DEF l, key

LEMMA KeyCommandParsed ==
    ASSUME NEW name \in KeyCommands, NEW a,
           NEW l, Len(l) = 2, l[1] = name, l[2] = a
    PROVE  ParseKeyCommand(l) = Cmd(name, <<a>>, <<>>, NoEx)
  BY WordsAssumption DEF ParseKeyCommand, Reserved

\* What parseCommand can return: never a SET or DEL of a key of two words, of none, or of
\* one with a NUL.
LEMMA SetShape ==
    ASSUME NEW l \in Seq(PlainWords)
    PROVE  ParseSet(l) = Error \/ IsSet(ParseSet(l))
  <1> DEFINE c == ParseSet(l)
  <1>1. \A w \in PlainWords : NumberOf[w] \in Numbers \cup {NoEx}
    BY WordsAssumption DEF PlainWords
  <1>0. \A i \in 1..Len(l) : l[i] \in PlainWords
    OBVIOUS
  <1>2. CASE Len(l) = 2
    <2>1. l[2] \in PlainWords
      BY <1>0, <1>2
    <2>2. c = Cmd("SET", <<l[2]>>, <<>>, NoEx)
      BY <1>2 DEF ParseSet
    <2> QED
      BY <2>1, <2>2 DEF IsSet
  <1>3. CASE Len(l) = 3
    <2>1. l[2] \in PlainWords /\ l[3] \in PlainWords
      BY <1>0, <1>3
    <2>2. c = Cmd("SET", <<l[2]>>, <<l[3]>>, NoEx)
      BY <1>3 DEF ParseSet
    <2> QED
      BY <2>1, <2>2 DEF IsSet
  <1>4. CASE Len(l) = 4
    <2>1. l[2] \in PlainWords /\ l[4] \in PlainWords
      BY <1>0, <1>4
    <2>2. \/ c = Error
          \/ c = Cmd("SET", <<l[2]>>, <<>>, NumberOf[l[4]])
      BY <1>4 DEF ParseSet, SetWithEx
    <2> QED
      BY <1>1, <2>1, <2>2 DEF IsSet
  <1>5. CASE Len(l) = 5
    <2>1. l[2] \in PlainWords /\ l[3] \in PlainWords /\ l[5] \in PlainWords
      BY <1>0, <1>5
    <2>2. \/ c = Error
          \/ c = Cmd("SET", <<l[2]>>, <<l[3]>>, NumberOf[l[5]])
      BY <1>5 DEF ParseSet, SetWithEx
    <2> QED
      BY <1>1, <2>1, <2>2 DEF IsSet
  <1>6. CASE Len(l) \notin {2, 3, 4, 5}
    BY <1>6 DEF ParseSet
  <1> QED
    BY <1>2, <1>3, <1>4, <1>5, <1>6

LEMMA KeyCommandShape ==
    ASSUME NEW l \in Seq(PlainWords), l # <<>>,
           Upper[l[1]] \in KeyCommands
    PROVE  ParseKeyCommand(l) = Error \/ IsKeyCommand(ParseKeyCommand(l))
  <1>1. CASE Len(l) = 2
    <2>1. \A i \in 1..Len(l) : l[i] \in PlainWords
      OBVIOUS
    <2>2. l[2] \in PlainWords
      BY <1>1, <2>1
    <2>3. ParseKeyCommand(l) = Cmd(Upper[l[1]], <<l[2]>>, <<>>, NoEx)
      BY <1>1 DEF ParseKeyCommand
    <2> QED
      BY <2>2, <2>3 DEF IsKeyCommand
  <1>2. CASE Len(l) # 2
    BY <1>2 DEF ParseKeyCommand
  <1> QED
    BY <1>1, <1>2

LEMMA ReplShape ==
    ASSUME NEW l \in Seq(PlainWords)
    PROVE  IsParsed(ParseRepl(l))
  <1>1. CASE Len(l) < 2
    <2>1. ParseRepl(l) = Error
      BY <1>1 DEF ParseRepl
    <2> QED
      BY <2>1 DEF IsParsed
  <1>2. CASE Len(l) >= 2 /\ Upper[l[2]] = "SET"
    <2> DEFINE rest == SubSeq(l, 3, Len(l))
               s == <<"SET">> \o rest
    <2>1. rest \in Seq(PlainWords)
      BY <1>2, SubSeqProperties
    <2>2. "SET" \in PlainWords
      BY WordsAssumption DEF Reserved, PlainWords
    <2> HIDE DEF rest
    <2>3. s \in Seq(PlainWords)
      BY <2>1, <2>2, InFront
    <2>4. ParseRepl(l) = ParseSet(s)
      BY <1>2 DEF ParseRepl, rest
    <2> HIDE DEF s
    <2> QED
      BY <2>3, <2>4, SetShape DEF IsParsed
  <1>3. CASE Len(l) >= 2 /\ Upper[l[2]] \in {"DEL", "DELETE"}
    <2> DEFINE s == Tail(l)
    <2>1. s \in Seq(PlainWords) /\ s # <<>> /\ s[1] = l[2]
      <3>1. l # <<>>
        BY <1>3
      <3>2. s \in Seq(PlainWords) /\ Len(s) = Len(l) - 1 /\ \A i \in 1..Len(s) : s[i] = l[i + 1]
        BY <3>1, HeadTailProperties
      <3> HIDE DEF s
      <3>3. Len(s) >= 1
        BY <1>3, <3>2
      <3> QED
        BY <3>2, <3>3
    <2>2. ParseRepl(l) = ParseKeyCommand(s)
      BY <1>3 DEF ParseRepl
    <2> HIDE DEF s
    <2>3. Upper[s[1]] \in KeyCommands
      BY <1>3, <2>1 DEF KeyCommands
    <2> QED
      BY <2>1, <2>2, <2>3, KeyCommandShape DEF IsParsed
  <1>4. CASE Len(l) >= 2 /\ Upper[l[2]] \notin {"SET", "DEL", "DELETE"}
    <2>1. ParseRepl(l) = Error
      BY <1>4 DEF ParseRepl
    <2> QED
      BY <2>1 DEF IsParsed
  <1> QED
    BY <1>1, <1>2, <1>3, <1>4

LEMMA ParsedShape ==
    ASSUME NEW l \in Seq(Words), l # <<>>
    PROVE  IsParsed(ParseCommand(l))
  <1> DEFINE name == Upper[l[1]]
  <1>0. CASE HasNul(l)
    BY <1>0 DEF ParseCommand, IsParsed
  <1> SUFFICES ASSUME ~HasNul(l) PROVE IsParsed(ParseCommand(l))
    BY <1>0
  <1>6. l \in Seq(PlainWords)
    BY PlainSequence
  <1>1. CASE name = "PING"
    <2>1. \/ ParseCommand(l) = Error
          \/ ParseCommand(l) = Cmd("PING", <<>>, <<>>, NoEx)
      BY <1>1 DEF ParseCommand, KeyCommands
    <2> QED
      BY <2>1 DEF IsParsed
  <1>2. CASE name \in KeyCommands
    <2>1. ParseCommand(l) = ParseKeyCommand(l)
      BY <1>2 DEF ParseCommand, KeyCommands
    <2> QED
      BY <1>2, <1>6, <2>1, KeyCommandShape DEF IsParsed
  <1>3. CASE name = "SET"
    <2>1. ParseCommand(l) = ParseSet(l)
      BY <1>3 DEF ParseCommand, KeyCommands
    <2> QED
      BY <1>6, <2>1, SetShape DEF IsParsed
  <1>4. CASE name = "REPL"
    <2>1. ParseCommand(l) = ParseRepl(l)
      BY <1>4 DEF ParseCommand, KeyCommands
    <2> QED
      BY <1>6, <2>1, ReplShape
  <1>5. CASE name \notin KeyCommands \cup {"PING", "SET", "REPL"}
    BY <1>5 DEF ParseCommand, IsParsed
  <1> QED
    BY <1>1, <1>2, <1>3, <1>4, <1>5

-----------------------------------------------------------------------------
(* There and back                                                          *)

\* A line with a NUL in it is read as nothing, any other by its first word.
LEMMA NulIsRefused ==
    ASSUME NEW l, HasNul(l)
    PROVE  ParseCommand(l) = Error
  BY DEF ParseCommand

\* A call of single words is read as it was written, unless there is a NUL in it.
LEMMA RoundTrip ==
    ASSUME NEW c \in Requests, Legal(c)
    PROVE  ParseCommand(FormatCommand(c))
             = IF HasNul(c.key) \/ HasNul(c.value) THEN Error ELSE c
  <1>0. /\ \A w \in Reserved : Upper[w] = w
        /\ \A text \in Texts : text \in Seq(Words)
        /\ Reserved \cup Numbers \subseteq Words /\ NulWords \subseteq Words
    BY WordsAssumption
  <1>1. CASE c = Cmd("PING", <<>>, <<>>, NoEx)
    <2> DEFINE l == <<"PING">>
    <2>1. FormatCommand(c) = l
      BY <1>1 DEF FormatCommand, Cmd
    <2>2. Upper["PING"] = "PING"
      BY <1>0 DEF Reserved
    <2>3. l \in Seq(PlainWords) /\ Len(l) = 1 /\ l[1] = "PING"
      BY PlainFacts DEF Reserved
    <2> HIDE DEF l
    <2>4. ParseCommand(l) = Cmd("PING", <<>>, <<>>, NoEx)
      BY <2>2, <2>3, PlainFacts DEF ParseCommand, KeyCommands
    <2>5. ~HasNul(<<>>)
      BY DEF HasNul
    <2> QED
      BY <1>1, <2>1, <2>4, <2>5 DEF Cmd
  <1>2. ASSUME NEW name \in KeyCommands, NEW key \in Texts,
               c = Cmd(name, key, <<>>, NoEx)
        PROVE  ParseCommand(FormatCommand(c))
                 = IF HasNul(c.key) \/ HasNul(c.value) THEN Error ELSE c
    <2>1. key \in Seq(Words) /\ Len(key) = 1
      BY <1>0, <1>2 DEF Legal, Cmd, KeyCommands
    <2>2. PICK a \in Words : key = <<a>>
      BY <2>1, OneWord
    <2> DEFINE l == <<name>> \o <<a>>
    <2>3. FormatCommand(c) = l
      BY <1>2, <2>2 DEF FormatCommand, Cmd, KeyCommands
    <2>4. l \in Seq(Words) /\ Len(l) = 2 /\ l[1] = name /\ l[2] = a
      BY <1>0, KeyCommandLine
    <2>5. a \in PlainWords => l \in Seq(PlainWords)
      BY KeyCommandLine, PlainFacts
    <2> HIDE DEF l
    <2>6. c.key = <<a>> /\ c.value = <<>> /\ ~HasNul(<<>>) /\ (HasNul(<<a>>) <=> a \in NulWords)
      BY <1>2, <2>2 DEF Cmd, HasNul
    <2>7. CASE a \in NulWords
      <3>1. HasNul(l)
        BY <2>4, <2>7 DEF HasNul
      <3> QED
        BY <2>3, <2>6, <2>7, <3>1, NulIsRefused
    <2>8. CASE a \notin NulWords
      <3>1. ~HasNul(l)
        BY <2>5, <2>8, PlainFacts DEF PlainWords
      <3>2. Upper[l[1]] = name
        BY <1>0, <2>4 DEF Reserved
      <3>3. ParseCommand(l) = ParseKeyCommand(l)
        BY <3>1, <3>2 DEF ParseCommand, KeyCommands
      <3>4. ParseKeyCommand(l) = Cmd(name, <<a>>, <<>>, NoEx)
        BY <2>4, KeyCommandParsed
      <3> QED
        BY <1>2, <2>2, <2>3, <2>6, <2>8, <3>3, <3>4
    <2> QED
      BY <2>7, <2>8
  <1>3. ASSUME NEW key \in Texts, NEW value \in Texts, NEW ex \in Numbers \cup {NoEx},
               c = Cmd("SET", key, value, ex)
        PROVE  ParseCommand(FormatCommand(c))
                 = IF HasNul(c.key) \/ HasNul(c.value) THEN Error ELSE c
    <2>1. key \in Seq(Words) /\ Len(key) = 1 /\ value \in Seq(Words) /\ Len(value) <= 1
      BY <1>0, <1>3 DEF Legal, Cmd
    <2>2. PICK a \in Words : key = <<a>>
      BY <2>1, OneWord
    <2>3. IsValue(value)
      <3>1. CASE Len(value) = 0
        BY <2>1, <3>1, EmptySeq DEF IsValue
      <3>2. CASE Len(value) = 1
        BY <2>1, <3>2, OneWord DEF IsValue
      <3>3. Len(value) \in Nat
        BY <2>1, LenProperties
      <3> QED
        BY <2>1, <3>1, <3>2, <3>3
    <2> DEFINE l == FormatCommand(c)
    <2>4. SetLine(Words, l, a, value, ex)
      BY <1>0, <1>3, <2>1, <2>2, SetFormatted
    <2>5. ParseSet(l) = c
      BY <1>3, <2>2, <2>3, <2>4, SetParsed
    <2>6. a \in PlainWords /\ value \in Seq(PlainWords) => SetLine(PlainWords, l, a, value, ex)
      BY <1>3, <2>1, <2>2, PlainFacts, SetFormatted
    <2> HIDE DEF l
    <2>7. c.key = <<a>> /\ c.value = value /\ (HasNul(<<a>>) <=> a \in NulWords)
      BY <1>3, <2>2 DEF Cmd, HasNul
    <2>8. Len(value) \in Nat /\ l \in Seq(Words) /\ Len(l) \in Nat
          /\ Len(l) >= 2 + Len(value)
      BY <2>1, <2>4, LenProperties DEF SetLine
    <2>9. CASE a \in NulWords
      <3>1. HasNul(l)
        BY <2>4, <2>8, <2>9 DEF HasNul, SetLine
      <3> QED
        BY <2>7, <2>9, <3>1, NulIsRefused DEF l
    <2>10. CASE HasNul(value)
      <3>1. Len(value) = 1 /\ value[1] \in NulWords
        BY <2>1, <2>8, <2>10 DEF HasNul
      <3>2. l[3] \in NulWords /\ 3 \in DOMAIN l
        BY <2>4, <2>8, <3>1 DEF SetLine
      <3>3. HasNul(l)
        BY <3>2 DEF HasNul
      <3> QED
        BY <2>7, <2>10, <3>3, NulIsRefused DEF l
    <2>11. CASE a \notin NulWords /\ ~HasNul(value)
      <3>1. a \in PlainWords /\ value \in Seq(PlainWords)
        BY <2>1, <2>11, PlainSequence DEF PlainWords
      <3>2. ~HasNul(l)
        BY <2>6, <3>1, PlainFacts DEF SetLine
      <3>3. Upper[l[1]] = "SET"
        BY <1>0, <2>4 DEF SetLine, Reserved
      <3>4. ParseCommand(l) = ParseSet(l)
        BY <3>2, <3>3 DEF ParseCommand, KeyCommands
      <3> QED
        BY <2>5, <2>7, <2>11, <3>4 DEF l
    <2> QED
      BY <2>9, <2>10, <2>11
  <1> QED
    BY <1>1, <1>2, <1>3 DEF Requests

\* Any mutation a line can be read as is read alike by a replica, DELETE as DEL.
LEMMA ReplicaReads ==
    ASSUME NEW c, IsParsed(c), c.name \in {"SET", "DEL", "DELETE"}
    PROVE  ParseCommand(FormatReplCommand(c))
             = [c EXCEPT !.name = IF @ = "DELETE" THEN "DEL" ELSE @]
  <1> DEFINE r == FormatReplCommand(c)
             name == IF c.name = "DELETE" THEN "DEL" ELSE c.name
  <1>0. /\ \A w \in Reserved : w \in PlainWords /\ Upper[w] = w
        /\ PlainWords \subseteq Words
    BY WordsAssumption, PlainFacts
  <1>1. r \in Seq(PlainWords) /\ r[1] = "REPL" => ParseCommand(r) = ParseRepl(r)
    <2> HIDE DEF r
    <2> SUFFICES ASSUME r \in Seq(PlainWords), r[1] = "REPL" PROVE ParseCommand(r) = ParseRepl(r)
      OBVIOUS
    <2>1. Upper[r[1]] = "REPL"
      BY <1>0 DEF Reserved
    <2> QED
      BY <2>1, PlainFacts DEF ParseCommand, KeyCommands
  <1>2. CASE IsSet(c)
    <2>1. PICK a \in PlainWords, v \in Seq(PlainWords), ex \in Numbers \cup {NoEx} :
              c = Cmd("SET", <<a>>, v, ex) /\ IsValue(v) /\ Len(v) <= 1
      <3>1. ASSUME NEW a \in PlainWords, NEW ex \in Numbers \cup {NoEx},
                   c = Cmd("SET", <<a>>, <<>>, ex)
            PROVE  \E v \in Seq(PlainWords) :
                       c = Cmd("SET", <<a>>, v, ex) /\ IsValue(v) /\ Len(v) <= 1
        <4>1. <<>> \in Seq(PlainWords) /\ Len(<<>>) <= 1 /\ IsValue(<<>>)
          BY EmptySeq DEF IsValue
        <4> QED
          BY <3>1, <4>1
      <3>2. ASSUME NEW a \in PlainWords, NEW ex \in Numbers \cup {NoEx}, NEW u \in PlainWords,
                   c = Cmd("SET", <<a>>, <<u>>, ex)
            PROVE  \E v \in Seq(PlainWords) :
                       c = Cmd("SET", <<a>>, v, ex) /\ IsValue(v) /\ Len(v) <= 1
        <4>1. <<u>> \in Seq(PlainWords) /\ Len(<<u>>) <= 1 /\ IsValue(<<u>>)
          BY <1>0 DEF IsValue
        <4> QED
          BY <3>2, <4>1
      <3> QED
        BY <1>2, <3>1, <3>2 DEF IsSet
    <2> DEFINE l == FormatCommand(c)
    <2>2. SetLine(PlainWords, l, a, v, ex)
      BY <2>1, PlainFacts, SetFormatted
    <2>3. ParseSet(l) = c
      BY <2>1, <2>2, SetParsed
    <2>4. c.name = "SET"
      BY <2>1 DEF Cmd
    <2> HIDE DEF l
    <2>5. /\ r \in Seq(PlainWords) /\ Len(r) = Len(l) + 1 /\ r[1] = "REPL"
          /\ \A i \in 1..Len(l) : r[i + 1] = l[i]
      <3>1. r = <<"REPL">> \o l
        BY <2>4 DEF FormatReplCommand, l
      <3>2. l \in Seq(PlainWords) /\ "REPL" \in PlainWords
        BY <1>0, <2>2 DEF SetLine, Reserved
      <3> HIDE DEF r
      <3> QED
        BY <3>1, <3>2, InFront
    <2> HIDE DEF r
    <2>6. l \in Seq(PlainWords) /\ l[1] = "SET" /\ Len(l) >= 2 /\ Len(l) \in Nat
      <3>1. Len(v) \in Nat
        BY <2>1, LenProperties
      <3> QED
        BY <2>2, <3>1 DEF SetLine
    <2> DEFINE rest == SubSeq(r, 3, Len(r))
               s == <<"SET">> \o rest
    <2>7. s = l
      <3>1. rest \in Seq(PlainWords) /\ Len(rest) = Len(l) - 1
            /\ \A i \in 1..Len(rest) : rest[i] = r[i + 2]
        <4>1. \A i \in 3..Len(r) : r[i] \in PlainWords
          BY <2>5
        <4>2. Len(r) \in Int /\ 3 <= Len(r)
          BY <2>5, <2>6
        <4>3. /\ rest \in Seq(PlainWords) /\ Len(rest) = Len(r) - 3 + 1
              /\ \A i \in 1..(Len(r) - 3 + 1) : rest[i] = r[3 + i - 1]
          BY <4>1, <4>2, SubSeqProperties
        <4> HIDE DEF rest
        <4> QED
          BY <2>5, <2>6, <4>3
      <3> HIDE DEF rest
      <3>2. "SET" \in PlainWords
        BY <1>0 DEF Reserved
      <3>3. /\ s \in Seq(PlainWords) /\ Len(s) = Len(rest) + 1 /\ s[1] = "SET"
            /\ \A i \in 1..Len(rest) : s[i + 1] = rest[i]
        BY <3>1, <3>2, InFront
      <3> HIDE DEF s
      <3>4. ASSUME NEW i \in 1..Len(s) PROVE s[i] = l[i]
        <4>1. CASE i = 1
          BY <2>6, <3>3, <4>1
        <4>2. CASE i # 1
          <5>1. i - 1 \in 1..Len(rest) /\ i \in 1..Len(l)
            BY <2>6, <3>1, <3>3, <4>2
          <5>2. s[(i - 1) + 1] = rest[i - 1] /\ rest[i - 1] = r[(i - 1) + 2]
            BY <3>1, <3>3, <5>1
          <5>3. r[i + 1] = l[i]
            BY <2>5, <5>1
          <5> QED
            BY <5>1, <5>2, <5>3
        <4> QED
          BY <4>1, <4>2
      <3> QED
        BY <2>6, <3>1, <3>3, <3>4, SeqEqual
    <2>8. ParseRepl(r) = ParseSet(s)
      <3>1. ~ (Len(r) < 2) /\ Upper[r[2]] = "SET"
        <4>1. r[1 + 1] = l[1]
          BY <2>5, <2>6
        <4> QED
          BY <1>0, <2>5, <2>6, <4>1 DEF Reserved
      <3> QED
        BY <3>1 DEF ParseRepl
    <2> HIDE DEF s
    <2>9. ParseCommand(r) = c
      BY <1>1, <2>3, <2>5, <2>7, <2>8
    <2>10. c = [c EXCEPT !.name = IF @ = "DELETE" THEN "DEL" ELSE @]
      BY <2>1 DEF Cmd
    <2> QED
      BY <2>9, <2>10 DEF r
  <1>3. CASE IsKeyCommand(c)
    <2>1. PICK n \in KeyCommands, a \in PlainWords : c = Cmd(n, <<a>>, <<>>, NoEx)
      BY <1>3 DEF IsKeyCommand
    <2>2. n \in {"DEL", "DELETE"} /\ c.name = n /\ c.key = <<a>>
      BY <2>1 DEF Cmd, KeyCommands
    <2> DEFINE key == <<a>>
               head == <<"REPL", "DEL">>
    <2>3. key \in Seq(PlainWords) /\ Len(key) = 1 /\ key[1] = a
      OBVIOUS
    <2>4. head \in Seq(PlainWords) /\ Len(head) = 2 /\ head[1] = "REPL" /\ head[2] = "DEL"
      <3>1. "REPL" \in PlainWords /\ "DEL" \in PlainWords
        BY <1>0 DEF Reserved, KeyCommands
      <3> QED
        BY <3>1
    <2>5. r = head \o key
      BY <2>2 DEF FormatReplCommand
    <2> HIDE DEF r, head, key
    <2>6. r \in Seq(PlainWords) /\ Len(r) = 3 /\ r[1] = "REPL" /\ r[2] = "DEL" /\ r[3] = a
      <3>1. /\ r \in Seq(PlainWords) /\ Len(r) = Len(head) + Len(key)
            /\ \A i \in 1..(Len(head) + Len(key)) :
                  r[i] = IF i <= Len(head) THEN head[i] ELSE key[i - Len(head)]
        BY <2>3, <2>4, <2>5, ConcatProperties
      <3> QED
        BY <2>3, <2>4, <3>1
    <2> DEFINE s == Tail(r)
    <2>7. s \in Seq(PlainWords) /\ Len(s) = 2 /\ s[1] = "DEL" /\ s[2] = a
      <3>1. r # <<>>
        BY <2>6
      <3>2. s \in Seq(PlainWords) /\ Len(s) = Len(r) - 1 /\ \A i \in 1..Len(s) : s[i] = r[i + 1]
        BY <2>6, <3>1, HeadTailProperties
      <3> HIDE DEF s
      <3> QED
        BY <2>6, <3>2
    <2>8. ParseRepl(r) = ParseKeyCommand(s)
      <3>1. Upper["DEL"] = "DEL"
        BY <1>0 DEF Reserved, KeyCommands
      <3> QED
        BY <2>6, <3>1 DEF ParseRepl
    <2> HIDE DEF s
    <2>9. ParseKeyCommand(s) = Cmd("DEL", <<a>>, <<>>, NoEx)
      BY <2>7, KeyCommandParsed DEF KeyCommands
    <2>10. [c EXCEPT !.name = IF @ = "DELETE" THEN "DEL" ELSE @] = Cmd("DEL", <<a>>, <<>>, NoEx)
      BY <2>1, <2>2 DEF Cmd
    <2> QED
      BY <1>1, <2>6, <2>8, <2>9, <2>10 DEF r
  <1>4. c # Error /\ c # Cmd("PING", <<>>, <<>>, NoEx)
    BY DEF Error, Cmd
  <1> QED
    BY <1>2, <1>3, <1>4 DEF IsParsed

-----------------------------------------------------------------------------
(* The theorems                                                            *)

LEMMA CodecInitInv == CodecInit => CodecInv
  BY DEF CodecInit, CodecInv, IsSent

\* Whatever the caller hands over, legal or not, what is sent is a line of words.
LEMMA FormattedWords ==
    ASSUME NEW c \in Requests
    PROVE  FormatCommand(c) \in Seq(Words) /\ FormatCommand(c) # <<>>
  <1>1. /\ Reserved \subseteq Words /\ Numbers \subseteq Words /\ NoEx \notin Words
        /\ \A text \in Texts : text \in Seq(Words)
    BY WordsAssumption
  <1>2. CASE c = Cmd("PING", <<>>, <<>>, NoEx)
    <2>1. FormatCommand(c) = <<"PING">>
      BY <1>2 DEF FormatCommand, Cmd
    <2> QED
      BY <1>1, <2>1 DEF Reserved
  <1>3. ASSUME NEW name \in KeyCommands, NEW key \in Texts,
               c = Cmd(name, key, <<>>, NoEx)
        PROVE  FormatCommand(c) \in Seq(Words) /\ FormatCommand(c) # <<>>
    <2> DEFINE l == <<name>> \o key
    <2>1. FormatCommand(c) = l
      BY <1>3 DEF FormatCommand, Cmd, KeyCommands
    <2>2. name \in Words /\ key \in Seq(Words)
      BY <1>1 DEF Reserved
    <2>3. l \in Seq(Words) /\ l[1] = name /\ Len(l) = Len(key) + 1 /\ Len(key) \in Nat
      BY <2>2, InFront, LenProperties
    <2> HIDE DEF l
    <2> QED
      BY <2>1, <2>3
  <1>4. ASSUME NEW key \in Texts, NEW value \in Texts, NEW ex \in Numbers \cup {NoEx},
               c = Cmd("SET", key, value, ex)
        PROVE  FormatCommand(c) \in Seq(Words) /\ FormatCommand(c) # <<>>
    <2> DEFINE named == <<"SET">> \o key
               valued == named \o value
               suffix == ExSuffix(ex)
               l == valued \o suffix
    <2>1. FormatCommand(c) = l
      BY <1>4 DEF FormatCommand, Cmd, KeyCommands
    <2>2. /\ "SET" \in Words /\ "EX" \in Words
          /\ key \in Seq(Words) /\ value \in Seq(Words)
      BY <1>1 DEF Reserved
    <2>3. suffix \in Seq(Words)
      BY <1>1, <2>2 DEF ExSuffix
    <2> HIDE DEF suffix
    <2>4. named \in Seq(Words) /\ Len(named) = Len(key) + 1
      BY <2>2, InFront
    <2> HIDE DEF named
    <2>5. valued \in Seq(Words) /\ Len(valued) = Len(named) + Len(value)
      BY <2>2, <2>4, ConcatProperties
    <2> HIDE DEF valued
    <2>6. l \in Seq(Words) /\ Len(l) = Len(valued) + Len(suffix)
      BY <2>3, <2>5, ConcatProperties
    <2>7. Len(key) \in Nat /\ Len(value) \in Nat /\ Len(suffix) \in Nat
      BY <2>2, <2>3, LenProperties
    <2> HIDE DEF l
    <2> QED
      BY <2>1, <2>4, <2>5, <2>6, <2>7
  <1> QED
    BY <1>2, <1>3, <1>4 DEF Requests

LEMMA RawWordsLine ==
    ASSUME NEW l \in RawLines
    PROVE  l \in Seq(Words) /\ l # <<>>
  <1>1. PICK n \in 1..MaxRaw : l \in [1..n -> RawWords]
    BY DEF RawLines
  <1>2. n \in Nat /\ n >= 1 /\ RawWords \subseteq Words
    BY WordsAssumption
  <1>3. l \in Seq(Words) /\ Len(l) = n
    BY <1>1, <1>2
  <1> QED
    BY <1>2, <1>3

\* So is every line the primary gets.
LEMMA LineOfWords ==
    ASSUME CodecInv, line # <<>>
    PROVE  line \in Seq(Words)
  <1>1. CASE asked # Nothing /\ line = FormatCommand(asked)
    BY <1>1, FormattedWords DEF CodecInv
  <1>2. CASE asked = Nothing /\ line \in RawLines
    BY <1>2, RawWordsLine
  <1> QED
    BY <1>1, <1>2 DEF CodecInv, IsSent

LEMMA CodecNextInv ==
    ASSUME CodecInv, [CodecNext]_codecVars
    PROVE  CodecInv'
  <1>1. CASE Send
    <2>1. FormatCommand(asked) # <<>>
      BY <1>1, FormattedWords DEF CodecInv, Send
    <2> QED
      BY <1>1, <2>1 DEF CodecInv, IsSent, Send
  <1>2. CASE SendRaw
    BY <1>2, RawWordsLine DEF CodecInv, IsSent, SendRaw
  <1>3. CASE Receive
    <2>1. Nothing.name = "none"
      BY DEF Nothing
    <2> QED
      BY <1>3, <2>1 DEF CodecInv, IsSent, Receive
  <1>4. CASE ReplicaReceives
    BY <1>4 DEF CodecInv, IsSent, ReplicaReceives
  <1>5. CASE UNCHANGED codecVars
    BY <1>5 DEF CodecInv, IsSent, codecVars
  <1> QED
    BY <1>1, <1>2, <1>3, <1>4, <1>5 DEF CodecNext

\* The inductive invariant of a line's way: each end holds what its predecessor's line says.
THEOREM CodecSafety == CodecSpec => []CodecInv
  <1>1. CodecInv /\ [CodecNext]_codecVars => CodecInv'
    BY CodecNextInv
  <1> QED
    BY <1>1, CodecInitInv, PTL DEF CodecSpec

\* codec.js: a legal call is understood by the primary as it was meant, or refused for its NUL.
THEOREM LegalCallsArriveHolds == CodecSpec => []LegalCallsArrive
  <1>1. CodecInv => LegalCallsArrive
    <2> SUFFICES ASSUME CodecInv, asked # Nothing, stored # Nothing,
                        Legal(asked)
                 PROVE  stored = IF HasNul(asked.key) \/ HasNul(asked.value) THEN Error ELSE asked
      BY DEF LegalCallsArrive
    <2> QED
      BY RoundTrip DEF CodecInv, IsSent
  <1> QED
    BY <1>1, CodecSafety, PTL

\* codec.js: a replica understands the mutation that the primary accepted.
THEOREM ReplicaUnderstandsHolds == CodecSpec => []ReplicaUnderstands
  <1>1. CodecInv => ReplicaUnderstands
    <2> SUFFICES ASSUME CodecInv, replica # Nothing
                 PROVE  replica = [stored EXCEPT !.name = IF @ = "DELETE" THEN "DEL" ELSE @]
      BY DEF ReplicaUnderstands
    <2>1. /\ stored.name \in {"SET", "DEL", "DELETE"}
          /\ replica = ParseCommand(FormatReplCommand(stored))
          /\ stored = ParseCommand(line) /\ line # <<>>
      BY DEF CodecInv
    <2>2. IsParsed(stored)
      BY <2>1, LineOfWords, ParsedShape
    <2> QED
      BY <2>1, <2>2, ReplicaReads
  <1> QED
    BY <1>1, CodecSafety, PTL
=============================================================================
