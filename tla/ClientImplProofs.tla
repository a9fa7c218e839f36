-------------------------- MODULE ClientImplProofs --------------------------
(***************************************************************************)
(* The other steps: invocations of handlers and of user code, a connection *)
(* that is made, data that is sent, the rest of the API and the loop.  So  *)
(* IndInv is an invariant of ClientImpl for every number of connections,   *)
(* requests, losses and every limit.  What follows from it about callbacks,*)
(* clusters and marks comes last.                                          *)
(***************************************************************************)
EXTENDS ClientImplHandlerProofs

USE DEF conVars, reqVars, bpVars, distVars, frameVars, hVars, loopVars

-----------------------------------------------------------------------------
(* invoke() in handlers and in user code.                                   *)

\* Queueing a request under a new id while a handler or user code runs.
LEMMA RegisterInHandler ==
  ASSUME IndInv, m_nextRequestId < MaxRequests, NEW k \in Kinds \ {"none"},
         NEW size \in {"small", "large"}, NEW b \in m_bevs,
         Register(m_nextRequestId, k, b, size),
         m_nextRequestId' = m_nextRequestId + 1,
         UNCHANGED <<conVars, api, apiId, hb, hid, calls, hInput, hLost>>,
         loc \in {"callback", "listener", "lostCallback", "update"},
         loc' = loc \/ (loc = "update" /\ loc' = "loop")
  PROVE  /\ m_callbacks' \in [Bev -> SUBSET (Ids \cup {Magic})]
         /\ kind' \in [Ids -> Kinds] /\ wire' \in [Ids -> Wires]
         /\ m_outstandingRequests' \in Int /\ m_nextRequestId' \in 0 .. MaxRequests
         /\ MapsInv' /\ CallsInv'
         /\ (hb \in m_bevs /\ hInput # {} => hInput \subseteq m_callbacks[hb])'
         /\ (\A i \in hInput \ {Magic} : wire[i] = "server")'
         /\ (loc = "callback" => hid \in hInput \ {Magic} /\ kind[hid] = "user")'
         /\ (loc = "lostCallback" => hid \in Requests(hb) /\ kind[hid] = "user")'
<1> DEFINE id == m_nextRequestId
<1> USE BoundAssumption DEF BoundAssumption, Ids, Magic, NoId
<1>1. /\ id \in Ids /\ id + 1 \in 0 .. MaxRequests /\ calls[id] = 0
      /\ \A c \in Bev : id \notin m_callbacks[c]
      /\ api \in {"async", "affinity"} => id # apiId
  BY NextIdIsFresh, Zenon
<1>2. id <= m_nextRequestId' /\ id < m_nextRequestId' /\ m_nextRequestId' \in 0 .. MaxRequests
  BY <1>1
<1>3. /\ m_callbacks' \in [Bev -> SUBSET (Ids \cup {Magic})]
      /\ kind' \in [Ids -> Kinds] /\ wire' \in [Ids -> Wires]
      /\ m_outstandingRequests' \in Int
      /\ b \in Bev /\ m_callbacks'[b] = m_callbacks[b] \cup {id}
      /\ \A c \in Bev \ {b} : m_callbacks'[c] = m_callbacks[c]
      /\ \A j \in Ids \ {id} : kind'[j] = kind[j] /\ wire'[j] = wire[j]
      /\ MapsInv'
  BY <1>1, RegisterMaps
<1>4. loc \in {"callback", "lostCallback"} =>
        hb \in m_bevs /\ hid \in Requests(hb) /\ hid \in Ids /\ hid < id
  <2>1. loc \in {"callback", "lostCallback"} => hb \in m_bevs /\ hid \in Requests(hb)
    BY Zenon DEF IndInv, FrameInv, InHandler, Requests
  <2> QED BY <2>1, RegisteredFacts, Zenon
<1>5. CallsInv'
  <2>1. (Running => \A c \in m_bevs : \A j \in Requests(c) :
           calls[j] = IF (loc = "callback" /\ j = hid) \/ WalkedPast(c, j)
                      THEN 1 ELSE 0)'
    BY <1>1, <1>4, RegisterCalls, Zenon DEF Running
  <2>2. (\A i \in Ids : i >= m_nextRequestId => calls[i] = 0)'
    BY <1>1 DEF IndInv, CallsInv
  <2> QED BY <2>1, <2>2, Zenon DEF IndInv, CallsInv
<1>6. id \notin hInput
  BY <1>1, Zenon DEF IndInv, TypeOK, DataTypes, FrameInv, InHandler
<1>7. /\ (hb \in m_bevs /\ hInput # {} => hInput \subseteq m_callbacks[hb])'
      /\ (\A i \in hInput \ {Magic} : wire[i] = "server")'
  BY <1>3, <1>6, ZenonT(30) DEF IndInv, TypeOK, DataTypes, FrameTypes, FrameInv
<1>8. loc \in {"callback", "lostCallback"} =>
        kind'[hid] = kind[hid] /\ m_callbacks[hb] \subseteq m_callbacks'[hb]
  <2>1. loc \in {"callback", "lostCallback"} => hid \in Ids \ {id} /\ hb \in Bev
    BY <1>4 DEF IndInv, TypeOK, DataTypes
  <2> QED BY <1>3, <2>1, Zenon
<1>9. (loc = "callback" => hid \in hInput \ {Magic} /\ kind[hid] = "user")'
  BY <1>8, Zenon DEF IndInv, FrameInv
<1>10. (loc = "lostCallback" => hid \in Requests(hb) /\ kind[hid] = "user")'
  BY <1>8, Zenon DEF IndInv, FrameInv, Requests
<1> QED BY <1>2, <1>3, <1>5, <1>7, <1>9, <1>10, Zenon

\* updateHashinator and subscribeToTopologyNotifications in a handler.
LEMMA HandlerInvokeInv == ASSUME IndInv, HandlerInvoke PROVE IndInv'
<1> USE BoundAssumption DEF BoundAssumption, HandlerInvoke, Ids, Magic, NoId
<1>1. /\ hTodo # <<>> /\ hTodo \in Seq(Invocations \cup {"active"})
      /\ Head(hTodo) \in Kinds \ {"none"} /\ Tail(hTodo) \in Seq(Invocations \cup {"active"})
  BY DEF IndInv, TypeOK, TodoTypes, FrameInv, Invocations
<1>2. FlagTypes'
  BY Zenon DEF IndInv, TypeOK, FlagTypes, InvokesNow, InvokeThrows, MustWait
<1>3. FrameTypes' /\ TodoTypes'
  BY <1>1, Zenon DEF IndInv, TypeOK, FrameTypes, TodoTypes, Locs
<1>4. CASE UNCHANGED <<reqVars, m_backpressuredBevs>> /\ m_nextRequestId' \in {m_nextRequestId, m_nextRequestId + 1}
           /\ (m_nextRequestId' # m_nextRequestId => m_nextRequestId < MaxRequests)
  <2>1. DataTypes'
    BY <1>4 DEF IndInv, TypeOK, DataTypes
  <2>2. FrameInv'
    BY Zenon DEF IndInv, FrameInv, InHandler, Running
  <2>3. MapsInv'
    BY <1>4 DEF IndInv, TypeOK, DataTypes, FrameTypes, MapsInv, Requests
  <2>4. CallsInv'
    BY <1>4 DEF IndInv, TypeOK, DataTypes, CallsInv, WalkedPast, Running, Requests
  <2> QED BY <1>2, <1>3, <2>1, <2>2, <2>3, <2>4, Zenon DEF IndInv, TypeOK
<1>5. CASE InvokesNow(Head(hTodo), "small") /\ loc' = IF hTodo' = <<>> THEN "loop" ELSE "update"
  <2>1. PICK b \in m_bevs :
          /\ Register(m_nextRequestId, Head(hTodo), b, "small")
          /\ m_backpressuredBevs' \subseteq m_backpressuredBevs \cup {b}
    BY <1>5, SelectFacts, Zenon DEF InvokesNow
  <2>2. /\ m_callbacks' \in [Bev -> SUBSET (Ids \cup {Magic})]
        /\ kind' \in [Ids -> Kinds] /\ wire' \in [Ids -> Wires]
        /\ m_outstandingRequests' \in Int /\ m_nextRequestId' \in 0 .. MaxRequests
        /\ MapsInv' /\ CallsInv'
    BY <1>1, <1>5, <2>1, RegisterInHandler, Zenon DEF InvokesNow
  <2>3. DataTypes'
    BY <2>1, <2>2, Zenon DEF IndInv, TypeOK, DataTypes
  <2>4. FrameInv'
    BY Zenon DEF IndInv, FrameInv, InHandler, Running
  <2> QED BY <1>2, <1>3, <2>2, <2>3, <2>4, Zenon DEF IndInv, TypeOK
<1> QED BY <1>4, <1>5, Zenon DEF InvokeThrows

\* What an invocation in user code leaves alone of the frames.
LEMMA NestedFrames ==
  ASSUME IndInv, InUserCode,
         UNCHANGED <<conVars, distVars, frameVars, ret, m_isDraining, hVars, loopVars, loc>>,
         /\ (hb \in m_bevs /\ hInput # {} => hInput \subseteq m_callbacks[hb])'
         /\ (\A i \in hInput \ {Magic} : wire[i] = "server")'
         /\ (loc = "callback" => hid \in hInput \ {Magic} /\ kind[hid] = "user")'
         /\ (loc = "lostCallback" => hid \in Requests(hb) /\ kind[hid] = "user")'
  PROVE  FrameInv' /\ FrameTypes' /\ TodoTypes'
<1>1. loc # "lost"
  BY Zenon DEF InUserCode
<1>2. FrameInv'
  BY <1>1, Zenon DEF IndInv, FrameInv, InHandler, Running
<1> QED BY <1>2, Zenon DEF IndInv, TypeOK, FrameTypes, TodoTypes

\* User code invokes a procedure: it is queued, or the invocation throws.
LEMMA NestedInvokeInv == ASSUME IndInv, NestedInvoke PROVE IndInv'
<1> USE BoundAssumption DEF BoundAssumption, NestedInvoke, Ids, Magic, NoId
<1>1. loc \in {"callback", "listener", "lostCallback", "update"}
  BY Zenon DEF InUserCode
<1>2. FlagTypes'
  BY Zenon DEF IndInv, TypeOK, FlagTypes, InvokesNow, InvokeThrows, MustWait
<1>3. CASE InvokeThrows
  <2> USE <1>3 DEF InvokeThrows
  <2>1. DataTypes'
    BY DEF IndInv, TypeOK, DataTypes
  <2>2. FrameInv'
    BY DEF IndInv, FrameInv, InHandler, Running, Requests
  <2>3. MapsInv'
    BY DEF IndInv, TypeOK, DataTypes, FrameTypes, MapsInv, Requests
  <2>4. CallsInv'
    BY DEF IndInv, TypeOK, DataTypes, CallsInv, WalkedPast, Running, Requests
  <2>5. FrameTypes' /\ TodoTypes'
    BY Zenon DEF IndInv, TypeOK, FrameTypes, TodoTypes
  <2> QED BY <1>2, <2>1, <2>2, <2>3, <2>4, <2>5, Zenon DEF IndInv, TypeOK
<1>4. CASE \E size \in Sizes : InvokesNow("user", size)
  <2>1. PICK size \in {"small", "large"}, b \in m_bevs :
          /\ Register(m_nextRequestId, "user", b, size)
          /\ m_backpressuredBevs' \subseteq m_backpressuredBevs \cup {b}
    BY <1>4, SelectFacts, SizeAssumption, Zenon DEF InvokesNow
  <2>2. m_nextRequestId < MaxRequests /\ m_nextRequestId' = m_nextRequestId + 1
    BY <1>4, Zenon DEF InvokesNow
  <2>3. "user" \in Kinds \ {"none"}
    BY Zenon DEF Kinds
  <2>4. /\ m_callbacks' \in [Bev -> SUBSET (Ids \cup {Magic})]
        /\ kind' \in [Ids -> Kinds] /\ wire' \in [Ids -> Wires]
        /\ m_outstandingRequests' \in Int /\ m_nextRequestId' \in 0 .. MaxRequests
        /\ MapsInv' /\ CallsInv'
        /\ (hb \in m_bevs /\ hInput # {} => hInput \subseteq m_callbacks[hb])'
        /\ (\A i \in hInput \ {Magic} : wire[i] = "server")'
        /\ (loc = "callback" => hid \in hInput \ {Magic} /\ kind[hid] = "user")'
        /\ (loc = "lostCallback" => hid \in Requests(hb) /\ kind[hid] = "user")'
    BY <1>1, <2>1, <2>2, <2>3, RegisterInHandler, Zenon
  <2>5. DataTypes'
    BY <2>1, <2>4, Zenon DEF IndInv, TypeOK, DataTypes
  <2>6. FrameInv' /\ FrameTypes' /\ TodoTypes'
    BY <2>4, NestedFrames, Zenon
  <2> QED BY <1>2, <2>4, <2>5, <2>6, Zenon DEF IndInv, TypeOK
<1> QED BY <1>3, <1>4, Zenon

\* User code invokes a procedure synchronously, which throws after registering.
LEMMA NestedSyncInvokeInv == ASSUME IndInv, NestedSyncInvoke PROVE IndInv'
<1> USE BoundAssumption DEF BoundAssumption, NestedSyncInvoke, Ids, Magic, NoId
<1>1. loc \in {"callback", "listener", "lostCallback", "update"}
  BY Zenon DEF InUserCode
<1>2. FlagTypes'
  BY Zenon DEF IndInv, TypeOK, FlagTypes
<1>3. PICK size \in {"small", "large"}, b \in m_bevs :
        Register(m_nextRequestId, "sync", b, size)
  BY SizeAssumption, Zenon
<1>4. "sync" \in Kinds \ {"none"}
  BY Zenon DEF Kinds
<1>5. /\ m_callbacks' \in [Bev -> SUBSET (Ids \cup {Magic})]
      /\ kind' \in [Ids -> Kinds] /\ wire' \in [Ids -> Wires]
      /\ m_outstandingRequests' \in Int /\ m_nextRequestId' \in 0 .. MaxRequests
      /\ MapsInv' /\ CallsInv'
      /\ (hb \in m_bevs /\ hInput # {} => hInput \subseteq m_callbacks[hb])'
      /\ (\A i \in hInput \ {Magic} : wire[i] = "server")'
      /\ (loc = "callback" => hid \in hInput \ {Magic} /\ kind[hid] = "user")'
      /\ (loc = "lostCallback" => hid \in Requests(hb) /\ kind[hid] = "user")'
  BY <1>1, <1>3, <1>4, RegisterInHandler, Zenon
<1>6. DataTypes'
  BY <1>5, Zenon DEF IndInv, TypeOK, DataTypes
<1>7. FrameInv' /\ FrameTypes' /\ TodoTypes'
  BY <1>5, NestedFrames, Zenon
<1> QED BY <1>2, <1>5, <1>6, <1>7, Zenon DEF IndInv, TypeOK

-----------------------------------------------------------------------------
(* Connecting and writing.                                                  *)

\* The connection of createConnection() is established or fails.
LEMMA AuthenticationEventInv ==
  ASSUME NEW r \in {"connected", "failed"}, IndInv, AuthenticationEvent(r)
  PROVE IndInv'
<1> USE BoundAssumption
    DEF BoundAssumption, IndInv, TypeOK, AuthenticationEvent, InLoop, Ids, Magic, NoId
<1>1. FlagTypes' /\ TodoTypes'
  BY Zenon DEF FlagTypes, TodoTypes
<1>2. FrameTypes'
  BY DEF FrameTypes, Attempts
<1>3. FrameInv'
  BY Zenon DEF FrameInv, InHandler, Running
<1>4. FramesOnly
  BY Zenon DEF FramesOnly, DataTypes
<1> QED BY <1>1, <1>2, <1>3, <1>4, FramesOnlyInv, Zenon

\* A new connection has no requests, and leaves those of the others alone.
LEMMA FinalizeMaps ==
  ASSUME NEW b \in Bev, NEW c \in Cluster, IndInv, FinalizeAuthentication(b, c)
  PROVE  MapsInv' /\ CallsInv'
<1>1. /\ loc = "loop" /\ loc' \in {"loop", "update"} /\ b \notin m_bevs /\ m_bevs' = m_bevs \cup {b}
      /\ m_callbacks' = [m_callbacks EXCEPT ![b] = {Magic}]
      /\ UNCHANGED <<kind, m_nextRequestId, api, apiId, calls, hid>>
  BY Zenon DEF FinalizeAuthentication, InLoop
<1>2. /\ m_callbacks \in [Bev -> SUBSET (Ids \cup {Magic})] /\ m_bevs \subseteq Bev
      /\ apiId \in Ids \cup {NoId} /\ MapsInv /\ CallsInv
  BY Zenon DEF IndInv, TypeOK, DataTypes, FrameTypes
<1>3. /\ m_callbacks'[b] = {Magic} /\ Requests(b)' = {} /\ m_callbacks[b] = {}
      /\ \A d \in Bev \ {b} : m_callbacks'[d] = m_callbacks[d] /\ Requests(d)' = Requests(d)
  BY <1>1, <1>2, Zenon DEF Requests, MapsInv
<1>4. Magic \notin Ids /\ Magic # NoId
  BY BoundAssumption DEF Magic, Ids, NoId
<1>5. MapsInv'
  <2>1. /\ \A d \in Bev \ m_bevs' : m_callbacks'[d] = {}
        /\ \A d \in m_bevs' : Magic \in m_callbacks'[d]
    BY <1>1, <1>2 DEF MapsInv
  <2>2. \A d \in Bev : \A i \in Requests(d)' : i < m_nextRequestId' /\ kind'[i] # "none"
    BY <1>1, <1>2, <1>3 DEF MapsInv
  <2>3. \A d, e \in Bev : \A i \in Ids : i \in m_callbacks'[d] /\ i \in m_callbacks'[e] => d = e
    BY <1>2, <1>3, <1>4 DEF MapsInv
  <2>4. api' \in {"async", "affinity"} /\ apiId' # NoId =>
          apiId' < m_nextRequestId' /\ \A d \in Bev : apiId' \notin m_callbacks'[d]
    BY <1>1, <1>2, <1>4, Zenon DEF MapsInv
  <2> QED BY <2>1, <2>2, <2>3, <2>4, Zenon DEF MapsInv
<1>6. CallsInv'
  <2>1. Running /\ ~WalkedPast(b, 0)
    BY <1>1, Zenon DEF Running, WalkedPast
  <2>2. \A d \in m_bevs' : \A i \in Requests(d)' : calls'[i] = 0
    BY <1>1, <1>2, <1>3, <2>1 DEF CallsInv, WalkedPast
  <2>3. \A d, i : ~WalkedPast(d, i)' /\ loc' # "callback"
    BY <1>1, Zenon DEF WalkedPast
  <2>4. /\ \A i \in Ids : calls'[i] \in {0, 1}
        /\ \A i \in Ids : i >= m_nextRequestId' => calls'[i] = 0
        /\ api' \in {"async", "affinity"} /\ apiId' # NoId => calls'[apiId'] = 0
    BY <1>1, <1>2, Zenon DEF CallsInv
  <2> QED BY <2>2, <2>3, <2>4, Zenon DEF CallsInv
<1> QED BY <1>5, <1>6, Zenon

\* A connection becomes live, with the notification entry in its map.
LEMMA FinalizeAuthenticationInv ==
  ASSUME NEW b \in Bev, NEW c \in Cluster, IndInv, FinalizeAuthentication(b, c)
  PROVE IndInv'
<1> USE BoundAssumption
    DEF BoundAssumption, IndInv, TypeOK, FinalizeAuthentication, InLoop, LoginCompletes, Ids, Magic, NoId
<1>1. DataTypes'
  BY SMTT(30) DEF DataTypes
<1>2. FlagTypes'
  BY Zenon DEF FlagTypes
<1>3. FrameTypes'
  BY DEF FrameTypes, Locs, Attempts
<1>4. TodoTypes'
  BY HandlerTodoFacts, Zenon DEF TodoTypes
<1>5. FrameInv'
  BY Zenon DEF FrameInv, InHandler, Running
<1>6. MapsInv' /\ CallsInv'
  BY FinalizeMaps, Zenon
<1> QED BY <1>1, <1>2, <1>3, <1>4, <1>5, <1>6, Zenon

\* A server of another cluster answers.
LEMMA FinalizeMismatchInv == ASSUME IndInv, FinalizeMismatch PROVE IndInv'
<1> USE BoundAssumption
    DEF BoundAssumption, IndInv, TypeOK, FinalizeMismatch, InLoop, Ids, Magic, NoId
<1>1. FlagTypes' /\ TodoTypes'
  BY Zenon DEF FlagTypes, TodoTypes
<1>2. FrameTypes'
  BY Zenon DEF FrameTypes, Locs
<1>3. FrameInv'
  BY Zenon DEF FrameInv, InHandler, Running
<1>4. FramesOnly
  BY Zenon DEF FramesOnly, DataTypes, Running
<1> QED BY <1>1, <1>2, <1>3, <1>4, FramesOnlyInv, Zenon

\* Requests leave an output buffer.
LEMMA RegularWriteCallbackInv ==
  ASSUME NEW b \in Bev, IndInv, RegularWriteCallback(b)
  PROVE IndInv'
<1> USE BoundAssumption
    DEF BoundAssumption, IndInv, TypeOK, RegularWriteCallback, WriteDone, InLoop, Ids, Magic, NoId
<1>1. DataTypes'
  BY Zenon DEF DataTypes, Wires
<1>2. FlagTypes'
  BY Zenon DEF FlagTypes
<1>3. FrameTypes'
  BY Zenon DEF FrameTypes
<1>4. TodoTypes'
  BY Zenon DEF TodoTypes
<1>5. FrameInv'
  BY Zenon DEF FrameInv, InHandler, Running
<1>6. MapsInv'
  BY Zenon DEF MapsInv, Requests
<1>7. CallsInv'
  BY Zenon DEF CallsInv, WalkedPast, Running, Requests
<1> QED BY <1>1, <1>2, <1>3, <1>4, <1>5, <1>6, <1>7, Zenon

-----------------------------------------------------------------------------
(* The API and the loop.                                                    *)

\* run() and runOnce() enter the loop.
LEMMA RunInv ==
  ASSUME NEW f \in {"run", "runOnce"}, IndInv, Run(f)
  PROVE IndInv'
<1> USE BoundAssumption
    DEF BoundAssumption, IndInv, TypeOK, Run, Calls, EnterLoop, Ids, Magic, NoId
<1>1. FlagTypes' /\ TodoTypes'
  BY Zenon DEF FlagTypes, TodoTypes
<1>2. FrameTypes'
  BY Zenon DEF FrameTypes, Locs, Apis
<1>3. FrameInv'
  BY Zenon DEF FrameInv, InHandler, Running
<1>4. FramesOnly
  BY Zenon DEF FramesOnly, FrameInv, DataTypes, Running
<1> QED BY <1>1, <1>2, <1>3, <1>4, FramesOnlyInv, Zenon

\* They throw when there is nothing to wait for.
LEMMA NoConnectionsInv ==
  ASSUME NEW f \in {"run", "runOnce", "sync"}, IndInv, NoConnections(f)
  PROVE IndInv'
<1> USE BoundAssumption
    DEF BoundAssumption, IndInv, TypeOK, NoConnections, Calls, Ids, Magic, NoId
<1>1. FlagTypes' /\ TodoTypes'
  BY Zenon DEF FlagTypes, TodoTypes
<1>2. FrameTypes'
  BY Zenon DEF FrameTypes
<1>3. FrameInv'
  BY Zenon DEF FrameInv, InHandler, Running
<1>4. FramesOnly
  BY Zenon DEF FramesOnly, DataTypes
<1> QED BY <1>1, <1>2, <1>3, <1>4, FramesOnlyInv, Zenon

\* drain() returns at once or enters the loop.
LEMMA DrainInv == ASSUME IndInv, Drain PROVE IndInv'
<1> USE BoundAssumption
    DEF BoundAssumption, IndInv, TypeOK, Drain, Calls, EnterLoop, Ids, Magic, NoId
<1>1. FlagTypes' /\ TodoTypes'
  BY Zenon DEF FlagTypes, TodoTypes
<1>2. FrameTypes'
  BY Zenon DEF FrameTypes, Locs, Apis
<1>3. FrameInv'
  BY Zenon DEF FrameInv, InHandler, Running
<1>4. FramesOnly
  BY Zenon DEF FramesOnly, FrameInv, DataTypes, Running
<1> QED BY <1>1, <1>2, <1>3, <1>4, FramesOnlyInv, Zenon

\* The loop returns to the API function that entered it.
LEMMA LoopReturnsInv == ASSUME IndInv, LoopReturns PROVE IndInv'
<1> USE BoundAssumption
    DEF BoundAssumption, IndInv, TypeOK, LoopReturns, LoopEnds, Return, EnterLoop, Ids, Magic, NoId
<1>1. FlagTypes' /\ TodoTypes'
  BY ApiTodoFacts, ZenonT(30) DEF FlagTypes, TodoTypes
<1>2. FrameTypes'
  BY DEF FrameTypes, Locs, Apis, Attempts, Responses
<1>3. FrameInv'
  BY Zenon DEF FrameInv, InHandler, Running
<1>4. FramesOnly
  BY Zenon DEF FramesOnly, FrameInv, DataTypes, Running
<1> QED BY <1>1, <1>2, <1>3, <1>4, FramesOnlyInv, Zenon

\* createConnection() enters the loop.
LEMMA CreateConnectionInv == ASSUME IndInv, CreateConnection PROVE IndInv'
<1> USE BoundAssumption
    DEF BoundAssumption, IndInv, TypeOK, CreateConnection, Calls, EnterLoop, Ids, Magic, NoId
<1>1. FlagTypes' /\ TodoTypes'
  BY Zenon DEF FlagTypes, TodoTypes
<1>2. FrameTypes'
  BY Zenon DEF FrameTypes, Locs, Apis, Attempts
<1>3. FrameInv'
  BY Zenon DEF FrameInv, InHandler, Running
<1>4. FramesOnly
  BY Zenon DEF FramesOnly, FrameInv, DataTypes, Running
<1> QED BY <1>1, <1>2, <1>3, <1>4, FramesOnlyInv, Zenon

\* createPendingConnection() counts one more.
LEMMA CreatePendingConnectionInv ==
  ASSUME IndInv, CreatePendingConnection
  PROVE IndInv'
<1> USE BoundAssumption
    DEF BoundAssumption, IndInv, TypeOK, CreatePendingConnection, Calls, Ids, Magic, NoId
<1>1. FlagTypes' /\ TodoTypes'
  BY Zenon DEF FlagTypes, TodoTypes
<1>2. FrameTypes'
  BY Zenon DEF FrameTypes
<1>3. FrameInv'
  BY Zenon DEF FrameInv, InHandler, Running
<1>4. FramesOnly
  BY DEF FramesOnly, DataTypes
<1> QED BY <1>1, <1>2, <1>3, <1>4, FramesOnlyInv, Zenon

\* setClientAffinity() flips the flag or starts three invocations.
LEMMA SetClientAffinityInv ==
  ASSUME NEW e \in BOOLEAN, IndInv, SetClientAffinity(e)
  PROVE IndInv'
<1> USE BoundAssumption
    DEF BoundAssumption, IndInv, TypeOK, SetClientAffinity, Calls, Ids, Magic, NoId
<1>1. FlagTypes' /\ TodoTypes'
  BY ApiTodoFacts, Zenon DEF FlagTypes, TodoTypes
<1>2. FrameTypes'
  BY Zenon DEF FrameTypes, Locs, Apis
<1>3. FrameInv'
  BY ApiTodoFacts, Zenon DEF FrameInv, InHandler, Running
<1>4. FramesOnly
  BY Zenon DEF FramesOnly, FrameInv, DataTypes, Running
<1> QED BY <1>1, <1>2, <1>3, <1>4, FramesOnlyInv, Zenon

\* The listener was told of the new connection.
LEMMA ConnectionActiveReturnsInv ==
  ASSUME IndInv, ConnectionActiveReturns
  PROVE IndInv'
<1> USE BoundAssumption
    DEF BoundAssumption, IndInv, TypeOK, ConnectionActiveReturns, Ids, Magic, NoId
<1>1. FlagTypes' /\ TodoTypes'
  BY DEF FlagTypes, TodoTypes
<1>2. FrameTypes'
  BY Zenon DEF FrameTypes, Locs
<1>3. FrameInv'
  BY Zenon DEF FrameInv, InHandler, Running
<1>4. FramesOnly
  BY Zenon DEF FramesOnly, FrameInv, DataTypes, Running
<1> QED BY <1>1, <1>2, <1>3, <1>4, FramesOnlyInv, Zenon

\* drain() in user code sets its flag.
LEMMA NestedDrainInv == ASSUME IndInv, NestedDrain PROVE IndInv'
<1> USE BoundAssumption
    DEF BoundAssumption, IndInv, TypeOK, NestedDrain, Ids, Magic, NoId
<1>1. FlagTypes' /\ TodoTypes'
  BY Zenon DEF FlagTypes, TodoTypes
<1>2. FrameTypes'
  BY Zenon DEF FrameTypes
<1>3. FrameInv'
  BY DEF FrameInv, InHandler, Running, Requests
<1>4. FramesOnly
  BY Zenon DEF FramesOnly, DataTypes
<1> QED BY <1>1, <1>2, <1>3, <1>4, FramesOnlyInv, Zenon

-----------------------------------------------------------------------------
(* The invariant is inductive.                                              *)

\* A client starts with no connection and no request: IndInv holds.
LEMMA InitInv == ASSUME Init PROVE IndInv
<1> USE BoundAssumption DEF BoundAssumption, Init, Ids, Magic, NoId
<1>1. DataTypes
  BY DEF DataTypes, Kinds, Wires
<1>2. FlagTypes
  BY Zenon DEF FlagTypes
<1>3. FrameTypes /\ TodoTypes
  BY DEF FrameTypes, TodoTypes, Locs, Apis, Attempts, Responses
<1>4. FrameInv
  BY Zenon DEF FrameInv, InHandler
<1>5. MapsInv
  BY Zenon DEF MapsInv, Requests
<1>6. CallsInv
  BY Zenon DEF CallsInv
<1> QED BY <1>1, <1>2, <1>3, <1>4, <1>5, <1>6, Zenon DEF IndInv, TypeOK

\* A step that changes no variable preserves IndInv.
LEMMA StutterInv == ASSUME IndInv, UNCHANGED vars PROVE IndInv'
<1> USE DEF IndInv, TypeOK, vars
<1>1. DataTypes' /\ FlagTypes'
  BY DEF DataTypes, FlagTypes
<1>2. FrameTypes' /\ TodoTypes'
  BY Zenon DEF FrameTypes, TodoTypes
<1>3. FrameInv'
  BY DEF FrameInv, InHandler, Running, Requests
<1>4. MapsInv'
  BY Zenon DEF MapsInv, Requests
<1>5. CallsInv'
  BY Zenon DEF CallsInv, WalkedPast, Running, Requests
<1> QED BY <1>1, <1>2, <1>3, <1>4, <1>5, Zenon

\* Every step preserves IndInv: one case per action.
LEMMA NextInv == ASSUME IndInv, [Next]_vars PROVE IndInv'
<1>1. CASE Application
  BY <1>1, RunInv, NoConnectionsInv, DrainInv, InvokeInv, SyncInvokeInv, CreateConnectionInv,
     CreatePendingConnectionInv, SetClientAffinityInv, Zenon
     DEF Application
<1>2. CASE ApiSteps
  BY <1>2, LoopReturnsInv, InvokeEntryInv, InvokeQueuesInv, InvokeBlocksInv,
     InvokeDividesByZeroInv, Zenon
     DEF ApiSteps
<1>3. CASE Connecting
  BY <1>3, AuthenticationEventInv, FinalizeAuthenticationInv, FinalizeMismatchInv, Zenon
     DEF Connecting
<1>4. CASE Network
  BY <1>4, RegularWriteCallbackInv, RegularReadCallbackInv, RegularEventCallbackInv, Zenon
     DEF Network
<1>5. CASE Reading
  BY <1>5, UserCallbackInv, SyncCallbackInv, AffinityCallbackInv, UserCallbackReturnsInv,
     TopologyNotificationInv, ReadDoneInv, Zenon
     DEF Reading
<1>6. CASE Losing
  BY <1>6, LostUserCallbackInv, LostSyncCallbackInv, LostAffinityCallbackInv,
     SyncCallbackCrashesInv, ConnectionLostReturnsInv, LostUserCallbackReturnsInv,
     LostUncaughtThrowsInv, LostNotificationEntryInv, ConnectionGoneInv, Zenon
     DEF Losing
<1>7. CASE Invoking
  BY <1>7, HandlerInvokeInv, ConnectionActiveReturnsInv, NestedInvokeInv, NestedSyncInvokeInv,
     NestedDrainInv, Zenon
     DEF Invoking
<1>8. CASE UNCHANGED vars
  BY <1>8, StutterInv, Zenon
<1> QED BY <1>1, <1>2, <1>3, <1>4, <1>5, <1>6, <1>7, <1>8, Zenon DEF Next

\* The frames, the callback maps and the history of callbacks stay consistent
\* in every execution of the client.
THEOREM Invariance == Spec => []IndInv
<1>1. Init => IndInv
  BY InitInv, Zenon
<1>2. IndInv /\ [Next]_vars => IndInv'
  BY NextInv, Zenon
<1> QED BY <1>1, <1>2, PTL DEF Spec

\* Every variable of the client keeps its type; marked and subscribed
\* connections are live.
THEOREM TypeCorrect == Spec => []TypeOK
<1>1. IndInv => TypeOK
  BY Zenon DEF IndInv
<1> QED BY <1>1, Invariance, PTL

\* No request is called back twice, by a response and by the loss of its
\* connection in regularEventCallback, or by two walks.
THEOREM CalledBackOnce == Spec => []CalledAtMostOnce
<1>1. IndInv => CalledAtMostOnce
  BY DEF IndInv, CallsInv, CalledAtMostOnce
<1> QED BY <1>1, Invariance, PTL

\* A live connection never loses its entry for topology notifications.
THEOREM NotificationsStay == Spec => []NotificationEntryStays
<1>1. IndInv => NotificationEntryStays
  BY Zenon DEF IndInv, MapsInv, NotificationEntryStays
<1> QED BY <1>1, Invariance, PTL

-----------------------------------------------------------------------------
(* What the steps have in common.                                           *)

\* Every step is one of a running client, a waiting invocation is in the hands of
\* the API, and the process ends in two actions only.
LEMMA StepFacts ==
  ASSUME Next
  PROVE  /\ Running
         /\ loc = "invoke" => ApiSteps
         /\ loc' = "crashed" => InvokeDividesByZero \/ \E i \in Ids : SyncCallbackCrashes(i)
<1> USE DEF Running
<1>1. CASE Application
  BY <1>1, Zenon
     DEF Application, Run, NoConnections, Drain, Invoke, SyncInvoke, Calls, EnterLoop,
         CreateConnection, CreatePendingConnection, SetClientAffinity
<1>2. CASE ApiSteps
  BY <1>2, Zenon
     DEF ApiSteps, LoopReturns, LoopEnds, Return, EnterLoop, InvokeEntry, InvocationDone,
         InvokeQueues, InvokeBlocks, InvokeDividesByZero
<1>3. CASE Connecting \/ Network
  BY <1>3, Zenon
     DEF Connecting, AuthenticationEvent, FinalizeMismatch, FinalizeAuthentication, InLoop,
         Network, RegularWriteCallback, RegularReadCallback, RegularEventCallback, StartReading
<1>4. CASE Reading
  BY <1>4, Zenon DEF Reading, UserCallback, SyncCallback, AffinityCallback,
     UserCallbackReturns, TopologyNotification, ReadDone, Forgets
<1>5. CASE Losing
  BY <1>5, Zenon DEF Losing, LostUserCallback, LostSyncCallback, LostAffinityCallback,
     SyncCallbackCrashes, ConnectionLostReturns, LostUserCallbackReturns,
     LostUncaughtThrows, LostNotificationEntry, ConnectionGone, NextEntry
<1>6. CASE Invoking
  BY <1>6, Zenon
     DEF Invoking, HandlerInvoke, ConnectionActiveReturns, NestedInvoke, NestedSyncInvoke,
         NestedDrain, InUserCode
<1> QED BY <1>1, <1>2, <1>3, <1>4, <1>5, <1>6, Zenon DEF Next

\* Handlers and user code leave the frame of the API function alone.
LEMMA HandlersKeepApi ==
  ASSUME Connecting \/ Network \/ Reading \/ Losing \/ Invoking
  PROVE  UNCHANGED <<api, apiId, apiTodo, ret, m_useClientAffinity>>
<1>1. CASE Connecting \/ Network
  BY <1>1, Zenon DEF Connecting, AuthenticationEvent, FinalizeAuthentication,
     FinalizeMismatch, Network, RegularWriteCallback, RegularReadCallback,
     RegularEventCallback, StartReading
<1>2. CASE Reading
  BY <1>2, Zenon DEF Reading, UserCallback, SyncCallback, AffinityCallback,
     UserCallbackReturns, TopologyNotification, ReadDone, Forgets, Answered
<1>3. CASE Losing
  BY <1>3, Zenon DEF Losing, LostUserCallback, LostSyncCallback, LostAffinityCallback,
     SyncCallbackCrashes, ConnectionLostReturns, LostUserCallbackReturns,
     LostUncaughtThrows, LostNotificationEntry, ConnectionGone, Visited
<1>4. CASE Invoking
  BY <1>4, Zenon
     DEF Invoking, HandlerInvoke, ConnectionActiveReturns, NestedInvoke, NestedSyncInvoke,
         NestedDrain
<1> QED BY <1>1, <1>2, <1>3, <1>4, Zenon

-----------------------------------------------------------------------------
(* How the callback maps and the output buffers change.                     *)

\* A request under an id that is in no map is queued; the connection is marked
\* if its output buffer is over the limit then, or not looked at.  A callback that
\* points into a frame comes from a synchronous invoke.
RegistersFresh ==
  \E id \in Ids, b \in m_bevs, size \in {"small", "large"} : \E k :
    /\ Register(id, k, b, size)
    /\ k = "sync" => SyncInvoke \/ NestedSyncInvoke
    /\ k \in {"user", "sync"} \/ (loc = "invoke" /\ k = Head(apiTodo)) \/ HandlerInvoke
    /\ \A c \in Bev : id \notin m_callbacks[c]
    /\ m_backpressuredBevs' \in
         {m_backpressuredBevs} \cup (IF OverLimit(b) \/ size = "large"
                                    THEN {m_backpressuredBevs \cup {b}} ELSE {})

\* The callback of a request that the server has answered was called.
AnswersOne ==
  \E i \in Ids : \E break, ignore \in BOOLEAN :
    /\ loc \in {"read", "callback"} /\ i \in hInput \ {Magic}
    /\ Forgets(i, break, ignore) /\ calls'[i] = 1

\* Selecting a connection for a fresh id.
LEMMA SelectRegisters ==
  ASSUME NEW id \in Ids, NEW k, NEW size \in {"small", "large"}, Select(id, k, size),
         k # "sync", k = "user" \/ (loc = "invoke" /\ k = Head(apiTodo)) \/ HandlerInvoke,
         \A c \in Bev : id \notin m_callbacks[c]
  PROVE  RegistersFresh
<1>1. PICK b \in m_bevs :
        /\ Register(id, k, b, size)
        /\ m_backpressuredBevs' = IF OverLimit(b) \/ size = "large"
                                  THEN m_backpressuredBevs \cup {b}
                                  ELSE m_backpressuredBevs
  BY SelectFacts, Zenon
<1> QED BY <1>1, Zenon DEF RegistersFresh

\* An answered request was called back exactly once when it is forgotten.
LEMMA ReadingAnswers ==
  ASSUME IndInv, Reading
  PROVE  /\ AnswersOne \/ UNCHANGED <<m_callbacks, kind, wire, m_backpressuredBevs>>
         /\ UNCHANGED <<m_bevs, m_instance, cluster, losses>>
<1>1. ASSUME loc \in {"read", "callback"}, NEW i \in hInput \ {Magic}
      PROVE  /\ i \in Ids /\ calls \in [Ids -> Nat]
             /\ calls[i] = IF loc = "callback" /\ i = hid THEN 1 ELSE 0
  <2>1. hb \in m_bevs /\ i \in Requests(hb) /\ Running /\ i \in Ids
    BY <1>1, Zenon DEF IndInv, FrameInv, InHandler, Requests, Running, TypeOK, FrameTypes
  <2> QED BY <1>1, <2>1, Zenon DEF IndInv, CallsInv, WalkedPast, TypeOK, DataTypes
<1>2. ASSUME NEW i \in Ids, SyncCallback(i) \/ AffinityCallback(i) PROVE AnswersOne
  <2>1. /\ loc = "read" /\ i \in hInput \ {Magic} /\ calls' = [calls EXCEPT ![i] = @ + 1]
        /\ \E break, ignore \in BOOLEAN : Forgets(i, break, ignore)
    BY <1>2, Zenon DEF SyncCallback, AffinityCallback
  <2> QED BY <1>1, <2>1 DEF AnswersOne
<1>3. ASSUME UserCallbackReturns PROVE AnswersOne
  <2>1. /\ loc = "callback" /\ hid \in hInput \ {Magic} /\ calls' = calls
        /\ \E break, ignore \in BOOLEAN : Forgets(hid, break, ignore)
    BY <1>3, Zenon DEF UserCallbackReturns, IndInv, FrameInv
  <2> QED BY <1>1, <2>1, Zenon DEF AnswersOne
<1>4. CASE TopologyNotification \/ ReadDone \/ \E i \in Ids : UserCallback(i)
  BY <1>4, Zenon DEF TopologyNotification, ReadDone, UserCallback
<1>5. UNCHANGED <<m_bevs, m_instance, cluster, losses>>
  BY Zenon DEF Reading, UserCallback, SyncCallback, AffinityCallback,
     UserCallbackReturns, TopologyNotification, ReadDone, Forgets, Answered
<1> QED BY <1>2, <1>3, <1>4, <1>5, Zenon DEF Reading

\* What is left to invoke through the asynchronous invoke() is not synchronous.
LEMMA NotSynchronous ==
  ASSUME IndInv
  PROVE  /\ loc = "invoke" => Head(apiTodo) # "sync"
         /\ loc = "update" => Head(hTodo) # "sync"
<1>1. /\ apiTodo \in Seq(Invocations) /\ hTodo \in Seq(Invocations \cup {"active"})
      /\ loc = "invoke" => apiTodo # <<>>
      /\ loc = "update" => hTodo # <<>>
  BY Zenon DEF IndInv, TypeOK, TodoTypes, FrameInv
<1> QED BY <1>1 DEF Invocations

\* Queueing, answering, writing, connecting and losing: nothing else touches the
\* maps, the buffers or the marks, and connections come and go in two handlers.
LEMMA MapSteps ==
  ASSUME IndInv, [Next]_vars
  PROVE  \/ \E b \in Bev, c \in Cluster : FinalizeAuthentication(b, c)
         \/ ConnectionGone
         \/ /\ UNCHANGED <<m_bevs, m_instance, cluster, losses>>
            /\ \/ UNCHANGED <<m_callbacks, kind, wire, m_backpressuredBevs>>
               \/ RegistersFresh \/ AnswersOne
               \/ \E b \in Bev : RegularWriteCallback(b)
<1>1. CASE SyncInvoke \/ NestedSyncInvoke
  BY <1>1, NextIdIsFresh, SizeAssumption, Zenon DEF SyncInvoke, NestedSyncInvoke, RegistersFresh
<1>2. CASE Application /\ ~SyncInvoke
  BY <1>2, Zenon
     DEF Application, Run, NoConnections, Drain, Invoke, CreateConnection,
         CreatePendingConnection, SetClientAffinity
<1>3. CASE InvokeQueues
  <2>1. apiId \in Ids /\ \A c \in Bev : apiId \notin m_callbacks[c]
    BY <1>3, WaitingIdIsFresh, Zenon DEF InvokeQueues
  <2>2. Head(apiTodo) # "sync"
    BY <1>3, NotSynchronous, Zenon DEF InvokeQueues
  <2> QED BY <1>3, <2>1, <2>2, SelectRegisters, SizeAssumption, Zenon DEF InvokeQueues, SizesOf
<1>4. CASE ApiSteps /\ ~InvokeQueues
  BY <1>4, Zenon DEF ApiSteps, LoopReturns, InvokeEntry, InvokeBlocks, InvokeDividesByZero
<1>5. CASE Connecting \/ Network
  BY <1>5, Zenon
     DEF Connecting, AuthenticationEvent, FinalizeMismatch, Network, RegularWriteCallback,
         RegularReadCallback, RegularEventCallback, StartReading
<1>6. CASE Losing /\ ~ConnectionGone
  <2>1. UNCHANGED <<m_bevs, m_instance, cluster, losses>>
    BY <1>6, Zenon DEF Losing, LostUserCallback, LostSyncCallback, LostAffinityCallback,
       SyncCallbackCrashes, ConnectionLostReturns, LostUserCallbackReturns,
       LostUncaughtThrows, LostNotificationEntry, Visited
  <2>2. UNCHANGED <<m_callbacks, kind, wire, m_backpressuredBevs>>
    BY <1>6, Zenon DEF Losing, LostUserCallback, LostSyncCallback, LostAffinityCallback,
       SyncCallbackCrashes, ConnectionLostReturns, LostUserCallbackReturns,
       LostUncaughtThrows, LostNotificationEntry, Visited
  <2> QED BY <2>1, <2>2, Zenon
<1>7. ASSUME NEW k, NEW size \in {"small", "large"}, InvokesNow(k, size), k # "sync",
             k = "user" \/ HandlerInvoke
      PROVE  RegistersFresh
  BY <1>7, NextIdIsFresh, SelectRegisters, Zenon DEF InvokesNow
<1>8. CASE HandlerInvoke
  <2>1. Head(hTodo) # "sync"
    BY <1>8, NotSynchronous, Zenon DEF HandlerInvoke
  <2> QED BY <1>7, <1>8, <2>1, Zenon DEF HandlerInvoke, InvokeThrows
<1>9. CASE Invoking /\ ~HandlerInvoke /\ ~NestedSyncInvoke
  BY <1>7, <1>9, SizeAssumption, Zenon
     DEF Invoking, ConnectionActiveReturns, NestedInvoke, NestedDrain, InvokeThrows
<1>10. CASE UNCHANGED vars
  BY <1>10, Zenon DEF vars
<1> QED BY <1>1, <1>2, <1>3, <1>4, <1>5, <1>6, <1>8, <1>9, <1>10, ReadingAnswers, Zenon DEF Next

\* The client remembers the cluster of its live connections exactly while it
\* has one: finalizeAuthentication compares, regularEventCallback forgets.
THEOREM OneCluster == Spec => []SameCluster
<1>1. Init => SameCluster
  BY Zenon DEF Init, SameCluster
<1>2. IndInv /\ SameCluster /\ [Next]_vars => SameCluster'
  <2> SUFFICES ASSUME IndInv, SameCluster, [Next]_vars PROVE SameCluster'
    OBVIOUS
  <2>1. CASE \E b \in Bev, c \in Cluster : FinalizeAuthentication(b, c)
    BY <2>1, ClusterAssumption
       DEF FinalizeAuthentication, SameInstance, SameCluster, IndInv, TypeOK, DataTypes
  <2>2. CASE ConnectionGone
    BY <2>2 DEF ConnectionGone, SameCluster
  <2>3. CASE UNCHANGED <<m_bevs, m_instance, cluster, losses>>
    BY <2>3, Zenon DEF SameCluster
  <2> QED BY <2>1, <2>2, <2>3, MapSteps, Zenon
<1> QED BY <1>1, <1>2, Invariance, PTL DEF Spec

\* A request leaves the callback maps only after its callback was called, on every
\* path: a response, a callback that throws, the loss of the connection.
THEOREM NothingForgotten == Spec => ForgottenOnlyAfterCallback
<1> DEFINE Told == \A b \in Bev : \A i \in (m_callbacks[b] \ m_callbacks'[b]) \ {Magic} :
                     calls'[i] = 1
<1>1. IndInv /\ [Next]_vars => [Told]_vars
  <2> SUFFICES ASSUME IndInv, [Next]_vars, NEW b \in Bev,
                      NEW i \in (m_callbacks[b] \ m_callbacks'[b]) \ {Magic}
               PROVE  calls'[i] = 1
    OBVIOUS
  <2>1. CASE RegistersFresh
    BY <2>1 DEF RegistersFresh, Register
  <2>2. CASE AnswersOne
    BY <2>2 DEF AnswersOne, Forgets, Answered
  <2>3. CASE \E d \in Bev, c \in Cluster : FinalizeAuthentication(d, c)
    BY <2>3 DEF FinalizeAuthentication, IndInv, MapsInv
  <2>4. CASE ConnectionGone
    <3>1. b = hb /\ i \in Requests(hb) /\ i \in Ids
      BY <2>4, Zenon DEF ConnectionGone, IndInv, TypeOK, DataTypes, Requests
    <3>2. hb \in m_bevs /\ Running /\ ~(i > hid) /\ hid \in Ids \cup {NoId, Magic}
      BY <2>4, SMTT(30)
         DEF ConnectionGone, Unvisited, IndInv, FrameInv, InHandler, Running, TypeOK, FrameTypes
    <3>3. i <= hid
      BY <3>1, <3>2 DEF Ids
    <3> QED BY <2>4, <3>1, <3>2, <3>3, Zenon DEF ConnectionGone, IndInv, CallsInv, WalkedPast
  <2>5. CASE \E d \in Bev : RegularWriteCallback(d)
    BY <2>5, Zenon DEF RegularWriteCallback
  <2> QED BY <2>1, <2>2, <2>3, <2>4, <2>5, MapSteps, Zenon
<1>2. Spec => [][Told]_vars
  BY <1>1, Invariance, PTL DEF Spec
<1> QED BY <1>2, Zenon DEF ForgottenOnlyAfterCallback

\* A connection stays marked as backpressured only while a write callback is due:
\* no response, loss, nested invocation or partial write leaves a stale mark.
THEOREM MarksAreJustified == Spec => []MarkedHasUnsentData
<1>1. Init => MarkedHasUnsentData
  BY Zenon DEF Init, MarkedHasUnsentData
<1>2. IndInv /\ MarkedHasUnsentData /\ [Next]_vars => MarkedHasUnsentData'
  <2> SUFFICES ASSUME IndInv, MarkedHasUnsentData, [Next]_vars,
                      NEW c \in m_backpressuredBevs'
               PROVE  \E i \in m_callbacks'[c] \ {Magic} : wire'[i] = "large"
    BY Zenon DEF MarkedHasUnsentData, OverLimit, Requests
  <2> USE DEF MarkedHasUnsentData, OverLimit, Requests
  <2>0. /\ m_bevs \subseteq Bev /\ m_backpressuredBevs \subseteq m_bevs
        /\ \A d \in Bev : m_callbacks[d] \subseteq Ids \cup {Magic}
        /\ wire \in [Ids -> Wires] /\ m_callbacks \in [Bev -> SUBSET (Ids \cup {Magic})]
        /\ Magic \notin Ids
    BY DEF IndInv, TypeOK, DataTypes, Ids, Magic
  <2>1. CASE RegistersFresh
    <3>1. PICK id \in Ids, b \in m_bevs, size \in {"small", "large"} :
            /\ m_callbacks' = [m_callbacks EXCEPT ![b] = @ \cup {id}]
            /\ wire' = [wire EXCEPT ![id] = size]
            /\ \A d \in Bev : id \notin m_callbacks[d]
            /\ m_backpressuredBevs' \in
                 {m_backpressuredBevs} \cup (IF OverLimit(b) \/ size = "large"
                                            THEN {m_backpressuredBevs \cup {b}} ELSE {})
      BY <2>1, Zenon DEF RegistersFresh, Register
    <3>2. CASE OverLimit(c)
      BY <2>0, <3>1
    <3>3. CASE ~OverLimit(c)
      BY <2>0, <3>1
    <3> QED BY <3>2, <3>3, Zenon
  <2>2. CASE AnswersOne
    <3>1. PICK i \in Ids :
            /\ m_callbacks' = [m_callbacks EXCEPT ![hb] = @ \ {i}]
            /\ wire' = [wire EXCEPT ![i] = "none"] /\ wire[i] = "server"
            /\ m_backpressuredBevs' = m_backpressuredBevs
      BY <2>2, Zenon DEF AnswersOne, Forgets, Answered, IndInv, FrameInv
    <3> QED BY <3>1
  <2>3. ASSUME NEW b \in Bev, RegularWriteCallback(b)
        PROVE  \E i \in m_callbacks'[c] \ {Magic} : wire'[i] = "large"
    <3>1. PICK sent \in SUBSET Requests(b) :
            /\ wire' = [i \in Ids |-> IF i \in sent THEN "server" ELSE wire[i]]
            /\ \/ /\ m_backpressuredBevs' = m_backpressuredBevs
                  /\ \E i \in Requests(b) \ sent : wire[i] = "large"
               \/ m_backpressuredBevs' = m_backpressuredBevs \ {b}
      BY <2>3, Zenon DEF RegularWriteCallback, WriteDone
    <3>2. m_callbacks' = m_callbacks
      BY <2>3, Zenon DEF RegularWriteCallback
    <3>3. CASE c = b
      BY <2>0, <3>1, <3>2, <3>3, Zenon
    <3>4. CASE c # b
      <4>1. PICK i \in Requests(c) : wire[i] = "large" /\ i \in Ids
        BY <2>0, <3>1, Zenon
      <4>2. i \notin sent
        BY <2>0, <3>1, <3>4, Zenon DEF IndInv, MapsInv
      <4> QED BY <3>1, <3>2, <4>1, <4>2, Zenon
    <3> QED BY <3>3, <3>4, Zenon
  <2>4. CASE \E b \in Bev, d \in Cluster : FinalizeAuthentication(b, d)
    BY <2>0, <2>4 DEF FinalizeAuthentication
  <2>5. CASE ConnectionGone
    <3>1. /\ c \in m_backpressuredBevs /\ c # hb /\ hb \in Bev /\ m_callbacks'[c] = m_callbacks[c]
          /\ wire' = [i \in Ids |-> IF i \in Requests(hb) THEN "none" ELSE wire[i]]
      <4>1. /\ loc = "lost" /\ m_backpressuredBevs' = m_backpressuredBevs \ {hb}
            /\ m_callbacks' = [m_callbacks EXCEPT ![hb] = {}]
            /\ wire' = [i \in Ids |-> IF i \in Requests(hb) THEN "none" ELSE wire[i]]
        BY <2>5, Zenon DEF ConnectionGone
      <4>2. hb \in Bev
        BY <4>1, <2>0, Zenon DEF IndInv, FrameInv, InHandler
      <4> QED BY <4>1, <4>2
    <3>2. PICK i \in Requests(c) : wire[i] = "large" /\ i \in Ids
      BY <2>0, <3>1, Zenon
    <3>3. i \notin Requests(hb)
      BY <2>0, <3>1, Zenon DEF IndInv, MapsInv
    <3> QED BY <3>1, <3>2, <3>3, Zenon
  <2> QED BY <2>1, <2>2, <2>3, <2>4, <2>5, MapSteps, Zenon
<1> QED BY <1>1, <1>2, Invariance, PTL DEF Spec
=============================================================================
