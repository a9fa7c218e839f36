----------------------- MODULE ClientImplHandlerProofs ----------------------
(***************************************************************************)
(* Steps of ClientImpl that preserve IndInv: one lemma per action, below it*)
(* one step per conjunct of the invariant.  Reading responses comes first, *)
(* then losing a connection (the listener, the walk over the callbacks that*)
(* still wait, the end of the connection), then invoke() as the application*)
(* calls it.                                                               *)
(***************************************************************************)
EXTENDS ClientImpl, TLAPS

USE DEF conVars, reqVars, bpVars, distVars, frameVars, hVars, loopVars

\* What is left of a sequence when its first element is taken.
LEMMA TailIs ==
  ASSUME NEW S, NEW s \in Seq(S), s # <<>>
  PROVE  /\ Head(s) \in S /\ Tail(s) \in Seq(S) /\ Len(Tail(s)) = Len(s) - 1
         /\ \A i \in 1 .. Len(Tail(s)) : Tail(s)[i] = s[i + 1]
OBVIOUS

\* What finalizeAuthentication and regularEventCallback put on theirs.
LEMMA HandlerTodoFacts ==
  LET S == Invocations \cup {"active"}
  IN /\ <<>> \in Seq(S) /\ <<"active">> \in Seq(S)
     /\ <<"proc", "topo">> \in Seq(S) /\ <<"proc", "topo">> # <<>>
     /\ <<"proc", "topo", "sub">> \in Seq(S)
     /\ \A s, t \in Seq(S) : s \o t \in Seq(S)
  BY DEF Invocations, Kinds

\* A registered request has an id handed out earlier, is in one map only, and
\* is not the one invoke() still has to queue.
LEMMA RegisteredFacts ==
  ASSUME IndInv, NEW b \in m_bevs, NEW i \in Requests(b)
  PROVE  /\ b \in Bev /\ i \in Ids /\ i < m_nextRequestId
         /\ api \in {"async", "affinity"} => i # apiId
         /\ \A c \in Bev : i \in m_callbacks[c] => c = b
  BY DEF IndInv, TypeOK, DataTypes, MapsInv, Requests, Ids, NoId

-----------------------------------------------------------------------------
(* Most steps only change frames.                                           *)

\* A step that leaves connections, requests and the history of callbacks alone,
\* admits no invocation, and takes no part in calling back a request.
FramesOnly ==
  /\ UNCHANGED <<m_bevs, m_instance, cluster, losses, reqVars, m_nextRequestId,
                 m_backpressuredBevs, subscribed, calls>>
  /\ m_pendingConnectionSize' \in Nat
  /\ api' \in {"async", "affinity"} /\ apiId' # NoId =>
       api \in {"async", "affinity"} /\ apiId' = apiId
  /\ \/ UNCHANGED <<loc, hb, hid>>
     \/ Running /\ hid = NoId /\ hid' = NoId
     \/ ~Running'

\* Such a step keeps the invariant if it keeps the frames consistent.
LEMMA FramesOnlyInv ==
  ASSUME IndInv, FramesOnly, FlagTypes', FrameTypes', TodoTypes', FrameInv'
  PROVE  IndInv'
<1> USE DEF FramesOnly
<1>1. DataTypes'
  BY Zenon DEF IndInv, TypeOK, DataTypes
<1>2. MapsInv'
  BY Zenon DEF IndInv, MapsInv, Requests
<1>3. CallsInv'
  <2>1. CASE UNCHANGED <<loc, hb, hid>> \/ ~Running'
    BY <2>1 DEF IndInv, CallsInv, WalkedPast, Running, Requests
  <2>2. CASE Running /\ hid = NoId /\ hid' = NoId
    BY <2>2 DEF IndInv, TypeOK, DataTypes, CallsInv, WalkedPast, Requests, Ids, NoId
  <2> QED BY <2>1, <2>2, Zenon
<1> QED BY <1>1, <1>2, <1>3, Zenon DEF IndInv, TypeOK

-----------------------------------------------------------------------------
(* Starting and ending a handler.                                           *)

\* Responses have arrived on a connection.
LEMMA RegularReadCallbackInv ==
  ASSUME NEW b \in Bev, IndInv, RegularReadCallback(b)
  PROVE IndInv'
<1> USE BoundAssumption
    DEF BoundAssumption, IndInv, TypeOK, RegularReadCallback, InLoop, StartReading, Answerable, Ids, Magic, NoId
<1>1. FlagTypes' /\ TodoTypes'
  BY Zenon DEF FlagTypes, TodoTypes
<1>2. FrameTypes'
  BY Zenon DEF FrameTypes, Locs, DataTypes, Requests
<1>3. FrameInv'
  BY DEF FrameInv, Running, Requests, MapsInv
<1>4. FramesOnly
  BY Zenon DEF FramesOnly, FrameInv, DataTypes, Running
<1> QED BY <1>1, <1>2, <1>3, <1>4, FramesOnlyInv, Zenon

\* A connection is lost; its input is read first.
LEMMA RegularEventCallbackInv ==
  ASSUME NEW b \in Bev, IndInv, RegularEventCallback(b)
  PROVE IndInv'
<1> USE BoundAssumption
    DEF BoundAssumption, IndInv, TypeOK, RegularEventCallback, InLoop, StartReading, Answerable, Ids, Magic, NoId
<1>1. FlagTypes' /\ TodoTypes'
  BY Zenon DEF FlagTypes, TodoTypes
<1>2. FrameTypes'
  BY Zenon DEF FrameTypes, Locs, DataTypes, Requests
<1>3. FrameInv'
  BY DEF FrameInv, Running, Requests, MapsInv
<1>4. FramesOnly
  BY Zenon DEF FramesOnly, FrameInv, DataTypes, Running
<1> QED BY <1>1, <1>2, <1>3, <1>4, FramesOnlyInv, Zenon

\* A notification is read; its entry stays.
LEMMA TopologyNotificationInv ==
  ASSUME IndInv, TopologyNotification
  PROVE IndInv'
<1> USE BoundAssumption
    DEF BoundAssumption, IndInv, TypeOK, TopologyNotification, Breaks, Ids, Magic, NoId
<1>1. FlagTypes' /\ TodoTypes'
  BY Zenon DEF FlagTypes, TodoTypes
<1>2. FrameTypes'
  BY Zenon DEF FrameTypes
<1>3. FrameInv'
  BY Zenon DEF FrameInv, InHandler, Running
<1>4. FramesOnly
  BY Zenon DEF FramesOnly, DataTypes
<1> QED BY <1>1, <1>2, <1>3, <1>4, FramesOnlyInv, Zenon

\* The input is used up.
LEMMA ReadDoneInv == ASSUME IndInv, ReadDone PROVE IndInv'
<1> USE BoundAssumption
    DEF BoundAssumption, IndInv, TypeOK, ReadDone, Ids, Magic, NoId
<1>1. FlagTypes' /\ TodoTypes'
  BY Zenon DEF FlagTypes, TodoTypes
<1>2. FrameTypes'
  BY Zenon DEF FrameTypes, Locs
<1>3. FrameInv'
  BY Zenon DEF FrameInv, InHandler, Running
<1>4. FramesOnly
  BY Zenon DEF FramesOnly, FrameInv, DataTypes, Running
<1> QED BY <1>1, <1>2, <1>3, <1>4, FramesOnlyInv, Zenon

\* Forgetting a request whose callback was called: it is in one map only.
LEMMA ForgetsInv ==
  ASSUME IndInv, NEW i, NEW break \in BOOLEAN, NEW ignore \in BOOLEAN,
         Forgets(i, break, ignore), loc \in {"read", "callback"},
         i \in hInput \ {Magic}, loc = "callback" => i = hid
  PROVE  /\ i \in Ids /\ hb \in m_bevs /\ i \in Requests(hb)
         /\ m_callbacks' \in [Bev -> SUBSET (Ids \cup {Magic})]
         /\ kind' \in [Ids -> Kinds] /\ wire' \in [Ids -> Wires]
         /\ m_outstandingRequests' \in Int
         /\ hBreak' \in BOOLEAN /\ hInput' \subseteq Ids \cup {Magic}
         /\ \A b \in Bev : m_callbacks'[b] = m_callbacks[b] \ {i}
         /\ FrameInv' /\ MapsInv'
<1> USE BoundAssumption DEF BoundAssumption, IndInv, TypeOK, Forgets, Answered, Breaks, Ids, Magic, NoId
<1>1. i \in Ids /\ hb \in m_bevs /\ hb \in Bev /\ i \in Requests(hb)
  BY Zenon DEF FrameInv, InHandler, Requests, DataTypes
<1>2. /\ m_callbacks' \in [Bev -> SUBSET (Ids \cup {Magic})]
      /\ kind' \in [Ids -> Kinds] /\ wire' \in [Ids -> Wires]
      /\ m_outstandingRequests' \in Int
      /\ hInput' \subseteq Ids \cup {Magic}
  BY <1>1 DEF DataTypes, FrameTypes, Kinds, Wires
<1>3. hBreak' \in BOOLEAN
  OBVIOUS
<1>4. FrameInv'
  BY <1>1 DEF FrameInv
<1>5. \A c \in Bev \ {hb} : i \notin m_callbacks[c]
  BY <1>1, RegisteredFacts, Zenon
<1>6. \A b \in Bev : m_callbacks'[b] = m_callbacks[b] \ {i}
  BY <1>5 DEF DataTypes
<1>7. MapsInv'
  <2>1. \A j \in Ids \ {i} : kind'[j] = kind[j]
    OBVIOUS
  <2> QED BY <1>6 DEF MapsInv, Requests
<1> QED BY <1>1, <1>2, <1>4, <1>6, <1>7, Zenon

\* Calling back a registered request that was not called before.
LEMMA CallingBack ==
  ASSUME IndInv, NEW b \in m_bevs, NEW i \in Requests(b), calls[i] = 0,
         calls' = [calls EXCEPT ![i] = @ + 1],
         UNCHANGED <<m_nextRequestId, api, apiId>>
  PROVE  /\ calls' \in [Ids -> Nat] /\ calls'[i] = 1
         /\ \A j \in Ids \ {i} : calls'[j] = calls[j]
         /\ (\A j \in Ids : calls[j] \in {0, 1})'
         /\ (\A j \in Ids : j >= m_nextRequestId => calls[j] = 0)'
         /\ (api \in {"async", "affinity"} /\ apiId # NoId => calls[apiId] = 0)'
<1> USE BoundAssumption DEF BoundAssumption, IndInv, TypeOK, Ids, Magic, NoId
<1>1. i \in Ids /\ i < m_nextRequestId /\ (api \in {"async", "affinity"} => i # apiId)
  BY RegisteredFacts, Zenon
<1>2. /\ calls' \in [Ids -> Nat] /\ calls'[i] = 1
      /\ \A j \in Ids \ {i} : calls'[j] = calls[j]
  BY <1>1 DEF DataTypes
<1>3. (\A j \in Ids : calls[j] \in {0, 1})'
  BY DEF CallsInv
<1>4. (\A j \in Ids : j >= m_nextRequestId => calls[j] = 0)'
  BY <1>1 DEF CallsInv, DataTypes
<1>5. (api \in {"async", "affinity"} /\ apiId # NoId => calls[apiId] = 0)'
  BY <1>1 DEF CallsInv
<1> QED BY <1>2, <1>3, <1>4, <1>5, Zenon

\* A response starts the callback of a user's request.
LEMMA UserCallbackInv ==
  ASSUME NEW i \in Ids, IndInv, UserCallback(i)
  PROVE IndInv'
<1> USE BoundAssumption DEF BoundAssumption, IndInv, TypeOK, UserCallback, Ids, Magic, NoId
<1>1. hb \in m_bevs /\ i \in Requests(hb)
  BY Zenon DEF FrameInv, InHandler, Requests
<1>2. calls[i] = 0
  BY <1>1, Zenon DEF CallsInv, WalkedPast, Running
<1>3. /\ calls' \in [Ids -> Nat] /\ calls'[i] = 1
      /\ \A j \in Ids \ {i} : calls'[j] = calls[j]
      /\ (\A j \in Ids : calls[j] \in {0, 1})'
      /\ (\A j \in Ids : j >= m_nextRequestId => calls[j] = 0)'
      /\ (api \in {"async", "affinity"} /\ apiId # NoId => calls[apiId] = 0)'
  BY <1>1, <1>2, CallingBack, Zenon
<1>4. DataTypes'
  BY DEF DataTypes
<1>5. FlagTypes'
  BY Zenon DEF FlagTypes
<1>6. FrameTypes' /\ TodoTypes'
  BY Zenon DEF FrameTypes, Locs, TodoTypes
<1>7. FrameInv'
  BY Zenon DEF FrameInv, InHandler
<1>8. MapsInv'
  BY Zenon DEF MapsInv, Requests
<1>9. CallsInv'
  <2>1. ASSUME NEW b \in m_bevs, NEW j \in Requests(b)
        PROVE  calls'[j] = IF j = i THEN 1 ELSE 0
    <3>1. j \in Ids /\ loc = "read" /\ b \in Bev
      BY RegisteredFacts, Zenon
    <3>2. j # i => calls[j] = 0
      BY Zenon DEF CallsInv, WalkedPast, Running
    <3> QED BY <3>2, <1>3
  <2>2. (Running => \A b \in m_bevs : \A j \in Requests(b) :
           calls[j] = IF (loc = "callback" /\ j = hid) \/ WalkedPast(b, j)
                      THEN 1 ELSE 0)'
    BY <2>1, Zenon DEF WalkedPast, Requests
  <2> QED BY <1>3, <2>2, Zenon DEF CallsInv
<1> QED BY <1>4, <1>5, <1>6, <1>7, <1>8, <1>9, Zenon

\* The callback returns or throws, and its request is forgotten.
LEMMA UserCallbackReturnsInv == ASSUME IndInv, UserCallbackReturns PROVE IndInv'
<1> DEFINE i == hid
<1> USE DEF UserCallbackReturns
<1>1. PICK break \in BOOLEAN, ignore \in BOOLEAN : Forgets(hid, break, ignore)
  BY Zenon
<1>2. hid \in hInput \ {Magic} /\ loc = "callback"
  BY Zenon DEF IndInv, FrameInv
<1>3. /\ i \in Ids /\ hb \in m_bevs /\ i \in Requests(hb)
      /\ m_callbacks' \in [Bev -> SUBSET (Ids \cup {Magic})]
      /\ kind' \in [Ids -> Kinds] /\ wire' \in [Ids -> Wires]
      /\ m_outstandingRequests' \in Int
      /\ hBreak' \in BOOLEAN /\ hInput' \subseteq Ids \cup {Magic}
      /\ \A b \in Bev : m_callbacks'[b] = m_callbacks[b] \ {i}
      /\ FrameInv' /\ MapsInv'
  BY <1>1, <1>2, ForgetsInv, Zenon
<1> USE DEF Forgets, Answered, Breaks
<1>4. DataTypes'
  BY <1>3, Zenon DEF IndInv, TypeOK, DataTypes
<1>5. FlagTypes'
  BY <1>1, <1>3, Zenon DEF IndInv, TypeOK, FlagTypes
<1>6. FrameTypes' /\ TodoTypes'
  BY <1>1, <1>3, Zenon DEF IndInv, TypeOK, FrameTypes, TodoTypes, Locs, NoId
<1>7. CallsInv'
  <2>1. /\ UNCHANGED <<calls, m_bevs, m_nextRequestId, api, apiId, hb>>
        /\ loc' = "read" /\ Running
    BY Zenon DEF Running
  <2>2. (Running => \A b \in m_bevs : \A j \in Requests(b) :
           calls[j] = IF (loc = "callback" /\ j = hid) \/ WalkedPast(b, j)
                      THEN 1 ELSE 0)'
    <3> SUFFICES ASSUME NEW b \in m_bevs, NEW j \in Requests(b), j # i
                 PROVE  calls[j] = 0
      BY <1>3 DEF IndInv, TypeOK, DataTypes, Requests, WalkedPast
    <3> QED BY <2>1, Zenon DEF IndInv, CallsInv, WalkedPast
  <2> QED BY <2>2, Zenon DEF IndInv, CallsInv
<1> QED BY <1>3, <1>4, <1>5, <1>6, <1>7, Zenon DEF IndInv, TypeOK

\* The callbacks of the client itself run and are forgotten in one step.
LEMMA ClientCallback ==
  ASSUME NEW i \in Ids, IndInv, NEW break \in BOOLEAN, NEW ignore \in BOOLEAN, Forgets(i, break, ignore),
         loc = "read", i \in hInput \ {Magic}, calls' = [calls EXCEPT ![i] = @ + 1],
         m_isUpdating' \in BOOLEAN, m_isElastic' \in BOOLEAN, syncResponse' \in Responses
  PROVE  IndInv'
<1>1. /\ i \in Ids /\ hb \in m_bevs /\ i \in Requests(hb)
      /\ m_callbacks' \in [Bev -> SUBSET (Ids \cup {Magic})]
      /\ kind' \in [Ids -> Kinds] /\ wire' \in [Ids -> Wires]
      /\ m_outstandingRequests' \in Int
      /\ hBreak' \in BOOLEAN /\ hInput' \subseteq Ids \cup {Magic}
      /\ \A b \in Bev : m_callbacks'[b] = m_callbacks[b] \ {i}
      /\ FrameInv' /\ MapsInv'
  BY ForgetsInv, Zenon
<1>2. calls[i] = 0
  BY <1>1, Zenon DEF IndInv, CallsInv, WalkedPast, Running
<1> USE DEF Forgets, Answered, Breaks
<1>3. /\ calls' \in [Ids -> Nat] /\ calls'[i] = 1
      /\ \A j \in Ids \ {i} : calls'[j] = calls[j]
      /\ (\A j \in Ids : calls[j] \in {0, 1})'
      /\ (\A j \in Ids : j >= m_nextRequestId => calls[j] = 0)'
      /\ (api \in {"async", "affinity"} /\ apiId # NoId => calls[apiId] = 0)'
  BY <1>1, <1>2, CallingBack, Zenon
<1>4. DataTypes'
  BY <1>1 DEF IndInv, TypeOK, DataTypes
<1>5. FlagTypes'
  BY Zenon DEF IndInv, TypeOK, FlagTypes
<1>6. FrameTypes' /\ TodoTypes'
  BY Zenon DEF IndInv, TypeOK, FrameTypes, TodoTypes
<1>7. CallsInv'
  <2>1. (Running => \A b \in m_bevs : \A j \in Requests(b) :
           calls[j] = IF (loc = "callback" /\ j = hid) \/ WalkedPast(b, j)
                      THEN 1 ELSE 0)'
    <3>1. UNCHANGED <<m_bevs, hb>> /\ loc' = "read" /\ hid' = NoId
      OBVIOUS
    <3> SUFFICES ASSUME NEW b \in m_bevs, NEW j \in Requests(b), j # i
                 PROVE  calls'[j] = 0
      BY <1>1 DEF IndInv, TypeOK, DataTypes, Requests, WalkedPast
    <3>2. j \in Ids /\ calls[j] = 0
      BY Zenon DEF IndInv, TypeOK, DataTypes, CallsInv, WalkedPast, Running, Requests
    <3> QED BY <3>2
  <2> QED BY <1>3, <2>1, Zenon DEF CallsInv
<1> QED BY <1>1, <1>4, <1>5, <1>6, <1>7, Zenon DEF IndInv, TypeOK

\* SyncCallback::callback stores the response of a blocking invoke().
LEMMA SyncCallbackInv ==
  ASSUME NEW i \in Ids, IndInv, SyncCallback(i)
  PROVE IndInv'
<1> USE DEF SyncCallback
<1>1. syncResponse' \in Responses
  BY Zenon DEF StoreResponse, Responses, IndInv, TypeOK, FrameTypes
<1>2. m_isUpdating' \in BOOLEAN /\ m_isElastic' \in BOOLEAN
  BY Zenon DEF IndInv, TypeOK, FlagTypes
<1> QED BY <1>1, <1>2, ClientCallback, Zenon

\* The callback of a topology or partition request updates the distributer.
LEMMA AffinityCallbackInv ==
  ASSUME NEW i \in Ids, IndInv, AffinityCallback(i)
  PROVE IndInv'
<1> USE DEF AffinityCallback
<1>1. syncResponse' \in Responses
  BY Zenon DEF IndInv, TypeOK, FrameTypes
<1>2. m_isUpdating' \in BOOLEAN /\ m_isElastic' \in BOOLEAN
  BY Zenon DEF IndInv, TypeOK, FlagTypes
<1> QED BY <1>1, <1>2, ClientCallback, Zenon

-----------------------------------------------------------------------------
(* A lost connection.                                                       *)

\* The listener was told of the loss.
LEMMA ConnectionLostReturnsInv ==
  ASSUME IndInv, ConnectionLostReturns
  PROVE IndInv'
<1> USE BoundAssumption
    DEF BoundAssumption, IndInv, TypeOK, ConnectionLostReturns, Ids, Magic, NoId
<1>1. FlagTypes' /\ TodoTypes'
  BY Zenon DEF FlagTypes, TodoTypes
<1>2. FrameTypes'
  BY Zenon DEF FrameTypes, Locs
<1>3. FrameInv'
  BY Zenon DEF FrameInv, InHandler, Running
<1>4. FramesOnly
  BY Zenon DEF FramesOnly, FrameInv, DataTypes, Running
<1> QED BY <1>1, <1>2, <1>3, <1>4, FramesOnlyInv, Zenon

\* An exception escapes.
LEMMA LostUncaughtThrowsInv == ASSUME IndInv, LostUncaughtThrows PROVE IndInv'
<1> USE BoundAssumption
    DEF BoundAssumption, IndInv, TypeOK, LostUncaughtThrows, Ids, Magic, NoId
<1>1. FlagTypes' /\ TodoTypes'
  BY Zenon DEF FlagTypes, TodoTypes
<1>2. FrameTypes'
  BY Zenon DEF FrameTypes, Locs
<1>3. FrameInv'
  BY Zenon DEF FrameInv, InHandler, Running
<1>4. FramesOnly
  BY Zenon DEF FramesOnly, DataTypes, Running
<1> QED BY <1>1, <1>2, <1>3, <1>4, FramesOnlyInv, Zenon

\* The process ends.
LEMMA SyncCallbackCrashesInv ==
  ASSUME NEW i \in Ids, IndInv, SyncCallbackCrashes(i)
  PROVE IndInv'
<1> USE BoundAssumption
    DEF BoundAssumption, IndInv, TypeOK, SyncCallbackCrashes, NextEntry, Ids, Magic, NoId
<1>1. FlagTypes' /\ TodoTypes'
  BY Zenon DEF FlagTypes, TodoTypes
<1>2. FrameTypes'
  BY Zenon DEF FrameTypes, Locs
<1>3. FrameInv'
  BY Zenon DEF FrameInv, InHandler, Running
<1>4. FramesOnly
  BY Zenon DEF FramesOnly, DataTypes, Running
<1> QED BY <1>1, <1>2, <1>3, <1>4, FramesOnlyInv, Zenon

\* The walk over a lost connection's map reaches i, the smallest entry left.
LEMMA WalkStep ==
  ASSUME IndInv, NEW i \in Ids, NextEntry(i), i # Magic,
         calls' = [calls EXCEPT ![i] = @ + 1], hid' = i,
         loc' \in {"lost", "lostCallback"},
         UNCHANGED <<m_nextRequestId, api, apiId, m_bevs, m_callbacks, hb>>
  PROVE  hb \in m_bevs /\ i \in Requests(hb) /\ calls' \in [Ids -> Nat] /\ CallsInv'
<1> USE BoundAssumption DEF BoundAssumption, IndInv, TypeOK, Ids, Magic, NoId
<1>1. hb \in m_bevs /\ i \in Requests(hb) /\ loc = "lost" /\ hid < i
  BY Zenon DEF FrameInv, InHandler, NextEntry, Unvisited, Requests
<1>2. calls[i] = 0
  BY <1>1 DEF CallsInv, WalkedPast, Running, FrameTypes
<1>3. /\ calls' \in [Ids -> Nat] /\ calls'[i] = 1
      /\ \A j \in Ids \ {i} : calls'[j] = calls[j]
      /\ (\A j \in Ids : calls[j] \in {0, 1})'
      /\ (\A j \in Ids : j >= m_nextRequestId => calls[j] = 0)'
      /\ (api \in {"async", "affinity"} /\ apiId # NoId => calls[apiId] = 0)'
  BY <1>1, <1>2, CallingBack, Zenon
<1>4. ASSUME NEW b \in m_bevs, NEW j \in Requests(b)
      PROVE  calls'[j] = IF b = hb /\ j <= i THEN 1 ELSE 0
  <2>1. j \in Ids /\ b \in Bev /\ hb \in Bev /\ (j = i => b = hb)
    BY <1>1, RegisteredFacts DEF Requests
  <2>2. j # i /\ b = hb => (j <= hid <=> j <= i)
    BY <2>1 DEF NextEntry, Unvisited, Requests, FrameTypes
  <2>3. calls[j] = IF b = hb /\ j <= hid THEN 1 ELSE 0
    BY <1>1, Zenon DEF CallsInv, WalkedPast, Running
  <2> QED BY <1>3, <2>1, <2>2, <2>3
<1>5. (Running => \A b \in m_bevs : \A j \in Requests(b) :
         calls[j] = IF (loc = "callback" /\ j = hid) \/ WalkedPast(b, j) THEN 1 ELSE 0)'
  BY <1>4 DEF WalkedPast, Requests
<1> QED BY <1>1, <1>3, <1>5, Zenon DEF CallsInv

\* A user's callback is told that its connection is lost.
LEMMA LostUserCallbackInv ==
  ASSUME NEW i \in Ids, IndInv, LostUserCallback(i)
  PROVE IndInv'
<1> USE BoundAssumption DEF BoundAssumption, LostUserCallback, Ids, Magic, NoId
<1>1. loc = "lost"
  BY Zenon DEF NextEntry
<1>2. hb \in m_bevs /\ i \in Requests(hb) /\ calls' \in [Ids -> Nat] /\ CallsInv'
  BY WalkStep, Zenon
<1>3. DataTypes' /\ FlagTypes'
  BY DEF IndInv, TypeOK, DataTypes, FlagTypes
<1>4. FrameTypes' /\ TodoTypes'
  BY Zenon DEF IndInv, TypeOK, FrameTypes, TodoTypes, Locs
<1>5. FrameInv'
  BY <1>1, <1>2, Zenon DEF IndInv, FrameInv, Requests
<1>6. MapsInv'
  BY Zenon DEF IndInv, MapsInv, Requests
<1> QED BY <1>2, <1>3, <1>4, <1>5, <1>6, Zenon DEF IndInv, TypeOK

\* That callback returns, or throws and the listener returns.
LEMMA LostUserCallbackReturnsInv ==
  ASSUME IndInv, LostUserCallbackReturns
  PROVE IndInv'
<1> USE DEF LostUserCallbackReturns
<1>1. PICK break \in BOOLEAN : Visited(break)
  BY Zenon
<1> USE DEF Visited
<1>2. DataTypes'
  BY DEF IndInv, TypeOK, DataTypes
<1>3. FlagTypes'
  BY <1>1, Zenon DEF IndInv, TypeOK, FlagTypes
<1>4. FrameTypes' /\ TodoTypes'
  BY Zenon DEF IndInv, TypeOK, FrameTypes, TodoTypes, Locs
<1>5. FrameInv'
  BY <1>1, Zenon DEF IndInv, FrameInv, InHandler, Requests
<1>6. MapsInv'
  BY Zenon DEF IndInv, MapsInv, Requests
<1>7. CallsInv'
  BY Zenon DEF IndInv, CallsInv, WalkedPast, Running, Requests
<1> QED BY <1>2, <1>3, <1>4, <1>5, <1>6, <1>7, Zenon DEF IndInv, TypeOK

\* The client's own callbacks are told in one step of the walk.
LEMMA LostClientCallback ==
  ASSUME NEW i \in Ids, IndInv, NextEntry(i), i # Magic, NEW break \in BOOLEAN,
         Visited(break), hid' = i, calls' = [calls EXCEPT ![i] = @ + 1],
         loc' = loc, syncResponse' \in Responses
  PROVE  IndInv'
<1> USE BoundAssumption DEF BoundAssumption, Visited, Ids, Magic, NoId
<1>1. loc = "lost"
  BY Zenon DEF NextEntry
<1>2. hb \in m_bevs /\ i \in Requests(hb) /\ calls' \in [Ids -> Nat] /\ CallsInv'
  BY <1>1, WalkStep, Zenon
<1>3. DataTypes' /\ FlagTypes'
  BY <1>2 DEF IndInv, TypeOK, DataTypes, FlagTypes
<1>4. FrameTypes' /\ TodoTypes'
  BY Zenon DEF IndInv, TypeOK, FrameTypes, TodoTypes
<1>5. FrameInv'
  BY <1>1, <1>2, Zenon DEF IndInv, FrameInv, Requests
<1>6. MapsInv'
  BY Zenon DEF IndInv, MapsInv, Requests
<1> QED BY <1>2, <1>3, <1>4, <1>5, <1>6, Zenon DEF IndInv, TypeOK

\* The walk hands CONNECTION_LOST to a blocking invoke().
LEMMA LostSyncCallbackInv ==
  ASSUME NEW i \in Ids, IndInv, LostSyncCallback(i)
  PROVE IndInv'
<1>1. syncResponse' \in Responses
  BY Zenon DEF LostSyncCallback, StoreResponse, Responses, IndInv, TypeOK, FrameTypes
<1> QED BY <1>1, LostClientCallback, Zenon DEF LostSyncCallback

\* The walk hands CONNECTION_LOST to a topology or partition request.
LEMMA LostAffinityCallbackInv ==
  ASSUME NEW i \in Ids, IndInv, LostAffinityCallback(i)
  PROVE IndInv'
<1>1. syncResponse' \in Responses
  BY Zenon DEF LostAffinityCallback, IndInv, TypeOK, FrameTypes
<1> QED BY <1>1, LostClientCallback, Zenon DEF LostAffinityCallback

\* The walk passes the entry of the topology notifications, always the last.
LEMMA LostNotificationEntryInv ==
  ASSUME IndInv, LostNotificationEntry
  PROVE IndInv'
<1> USE BoundAssumption
    DEF BoundAssumption, LostNotificationEntry, Visited, NextEntry, Unvisited, Ids, Magic, NoId
<1>1. ASSUME NEW b \in m_bevs, NEW j \in Requests(b)
      PROVE  calls[j] = IF b = hb /\ j <= Magic THEN 1 ELSE 0
  <2>1. j \in Ids /\ (b = hb => j <= hid)
    BY DEF IndInv, TypeOK, DataTypes, Requests, FrameTypes
  <2>2. calls[j] = IF b = hb /\ j <= hid THEN 1 ELSE 0
    BY Zenon DEF IndInv, CallsInv, WalkedPast, Running
  <2> QED BY <2>1, <2>2
<1>2. CallsInv'
  BY <1>1, Zenon DEF IndInv, CallsInv, WalkedPast, Requests
<1>3. DataTypes'
  BY DEF IndInv, TypeOK, DataTypes
<1>4. FlagTypes'
  BY Zenon DEF IndInv, TypeOK, FlagTypes
<1>5. FrameTypes' /\ TodoTypes'
  BY Zenon DEF IndInv, TypeOK, FrameTypes, TodoTypes
<1>6. FrameInv'
  BY Zenon DEF IndInv, FrameInv, InHandler
<1>7. MapsInv'
  BY Zenon DEF IndInv, MapsInv, Requests
<1> QED BY <1>2, <1>3, <1>4, <1>5, <1>6, <1>7, Zenon DEF IndInv, TypeOK

\* The lost connection is forgotten; the others keep what they have.
LEMMA ConnectionGoneInv == ASSUME IndInv, ConnectionGone PROVE IndInv'
<1> USE BoundAssumption DEF BoundAssumption, ConnectionGone, Ids, Magic, NoId
<1>1. hb \in m_bevs /\ hb \in Bev /\ loc = "lost"
  BY Zenon DEF IndInv, TypeOK, DataTypes, FrameInv, InHandler
<1>2. DataTypes'
  <2>1. kind' \in [Ids -> Kinds] /\ wire' \in [Ids -> Wires]
    BY Zenon DEF IndInv, TypeOK, DataTypes, Kinds, Wires
  <2>2. m_callbacks' \in [Bev -> SUBSET (Ids \cup {Magic})]
    BY Zenon DEF IndInv, TypeOK, DataTypes
  <2> QED BY <2>1, <2>2 DEF IndInv, TypeOK, DataTypes
<1>3. FlagTypes'
  BY Zenon DEF IndInv, TypeOK, FlagTypes
<1>4. FrameTypes'
  BY Zenon DEF IndInv, TypeOK, FrameTypes, Locs
<1>5. TodoTypes'
  BY HandlerTodoFacts, Zenon DEF IndInv, TypeOK, TodoTypes
<1>6. FrameInv'
  BY HandlerTodoFacts, Zenon DEF IndInv, FrameInv, InHandler
<1>7. m_callbacks'[hb] = {} /\ \A b \in Bev \ {hb} : m_callbacks'[b] = m_callbacks[b]
  BY <1>1, Zenon DEF IndInv, TypeOK, DataTypes
<1>8. MapsInv'
  <2>1. \A b \in Bev \ {hb} : \A j \in Requests(b) : j \notin Requests(hb) /\ j \in Ids
    <3>1. ASSUME NEW b \in Bev \ {hb}, NEW j \in Requests(b)
          PROVE  b \in m_bevs /\ j \in Ids
      BY Zenon DEF IndInv, MapsInv, Requests, TypeOK, DataTypes
    <3> QED BY <1>1, <3>1, RegisteredFacts, Zenon DEF Requests
  <2>2. \A b \in Bev \ {hb} : \A j \in Requests(b) : kind'[j] = kind[j]
    BY <2>1, Zenon
  <2>3. /\ (\A b \in Bev \ m_bevs : m_callbacks[b] = {})'
        /\ (\A b \in m_bevs : Magic \in m_callbacks[b])'
    BY <1>7 DEF IndInv, MapsInv
  <2>4. (\A b \in Bev : \A i \in Requests(b) : i < m_nextRequestId /\ kind[i] # "none")'
    <3>1. ASSUME NEW b \in Bev, NEW i \in m_callbacks'[b] \ {Magic}
          PROVE  b # hb /\ i \in Requests(b)
      BY <1>7, Zenon DEF Requests
    <3>2. ASSUME NEW b \in Bev, NEW i \in m_callbacks'[b] \ {Magic}
          PROVE  i < m_nextRequestId /\ kind'[i] # "none"
      BY <2>2, <3>1, Zenon DEF IndInv, MapsInv
    <3> QED BY <3>2, Zenon DEF Requests
  <2>5. /\ (\A b, c \in Bev : \A i \in Ids :
             i \in m_callbacks[b] /\ i \in m_callbacks[c] => b = c)'
        /\ (api \in {"async", "affinity"} /\ apiId # NoId =>
             apiId < m_nextRequestId /\ \A b \in Bev : apiId \notin m_callbacks[b])'
    BY DEF IndInv, MapsInv
  <2> QED BY <2>3, <2>4, <2>5, Zenon DEF MapsInv
<1>9. CallsInv'
  <2>1. loc' \in {"loop", "update"} /\ Running
    BY Zenon DEF Running
  <2>2. ASSUME NEW b \in m_bevs', NEW i \in m_callbacks'[b] \ {Magic}
        PROVE  calls[i] = 0
    <3>1. b \in m_bevs /\ b # hb /\ i \in Requests(b)
      BY DEF Requests
    <3> QED BY <2>1, <3>1, Zenon DEF IndInv, CallsInv, WalkedPast
  <2>3. (Running => \A b \in m_bevs : \A i \in Requests(b) :
           calls[i] = IF (loc = "callback" /\ i = hid) \/ WalkedPast(b, i) THEN 1 ELSE 0)'
    BY <2>2, Zenon DEF WalkedPast, Requests
  <2> QED BY <2>3, Zenon DEF IndInv, CallsInv
<1> QED BY <1>2, <1>3, <1>4, <1>5, <1>6, <1>8, <1>9, Zenon DEF IndInv, TypeOK

-----------------------------------------------------------------------------
(* Sequences of invocations.                                                *)

\* What setClientAffinity and invoke put on their list.
LEMMA ApiTodoFacts ==
  /\ <<>> \in Seq(Invocations)
  /\ <<"user">> \in Seq(Invocations) /\ <<"user">> # <<>>
  /\ <<"proc", "topo", "sub">> \in Seq(Invocations)
  /\ <<"proc", "topo", "sub">> # <<>>
  BY DEF Invocations, Kinds

\* Taking the first of several invocations leaves some.
LEMMA TailFact ==
  ASSUME NEW S, NEW s \in Seq(S), Len(s) > 1
  PROVE  Tail(s) \in Seq(S) /\ Tail(s) # <<>>
<1>1. Tail(s) \in Seq(S) /\ Len(Tail(s)) = Len(s) - 1
  OBVIOUS
<1>2. Len(Tail(s)) # 0
  BY <1>1
<1>3. Len(<<>>) = 0
  OBVIOUS
<1> QED BY <1>1, <1>2, <1>3, Zenon

-----------------------------------------------------------------------------
(* Registered requests.                                                     *)

\* The next id is in no map and was never called back.
LEMMA NextIdIsFresh ==
  ASSUME IndInv, m_nextRequestId < MaxRequests
  PROVE  /\ m_nextRequestId \in Ids /\ m_nextRequestId + 1 \in 0 .. MaxRequests
         /\ \A c \in Bev : m_nextRequestId \notin m_callbacks[c]
         /\ calls[m_nextRequestId] = 0
         /\ api \in {"async", "affinity"} => m_nextRequestId # apiId
<1> USE BoundAssumption DEF BoundAssumption, IndInv, TypeOK, DataTypes, Ids, Magic, NoId
<1>1. m_nextRequestId \in Ids /\ m_nextRequestId + 1 \in 0 .. MaxRequests
  OBVIOUS
<1>2. \A c \in Bev : m_nextRequestId \notin m_callbacks[c]
  BY DEF MapsInv, Requests
<1>3. calls[m_nextRequestId] = 0
  BY DEF CallsInv
<1>4. api \in {"async", "affinity"} => m_nextRequestId # apiId
  BY DEF MapsInv
<1> QED BY <1>2, <1>3, <1>4

\* So is the id of an invocation of the application that is about to queue.
LEMMA WaitingIdIsFresh ==
  ASSUME IndInv, loc = "invoke"
  PROVE  /\ apiId \in Ids /\ \A b \in Bev : apiId \notin m_callbacks[b]
         /\ Admitted
<1>1. api \in {"async", "affinity"} /\ apiId # NoId
  BY Zenon DEF IndInv, FrameInv
<1> QED BY <1>1, Zenon DEF IndInv, TypeOK, FrameTypes, MapsInv, Admitted

\* Whatever connection the selection loop and the routing choose is live.
LEMMA SelectFacts ==
  ASSUME NEW id, NEW k, NEW size, Select(id, k, size)
  PROVE  \E b \in m_bevs :
           /\ Register(id, k, b, size)
           /\ m_backpressuredBevs' = IF OverLimit(b) \/ size = "large"
                                     THEN m_backpressuredBevs \cup {b}
                                     ELSE m_backpressuredBevs
<1>1. ASSUME NEW S, S \subseteq m_bevs PROVE Routed(S) \subseteq m_bevs
  BY <1>1, Zenon DEF Routed
<1>2. Acceptable \subseteq m_bevs
  BY Zenon DEF Acceptable
<1> QED BY <1>1, <1>2, Zenon DEF Select, Queue

\* Registering a fresh id preserves what is known of the maps.
LEMMA RegisterMaps ==
  ASSUME IndInv, NEW id \in Ids, NEW k \in Kinds \ {"none"},
         NEW size \in {"small", "large"},
         NEW b \in m_bevs, Register(id, k, b, size),
         \A c \in Bev : id \notin m_callbacks[c],
         m_nextRequestId' \in 0 .. MaxRequests, m_nextRequestId <= m_nextRequestId',
         id < m_nextRequestId', m_bevs' = m_bevs,
         \/ UNCHANGED <<api, apiId>> /\ (api \in {"async", "affinity"} => id # apiId)
         \/ api' \notin {"async", "affinity"} \/ apiId' = NoId
  PROVE  /\ m_callbacks' \in [Bev -> SUBSET (Ids \cup {Magic})]
         /\ kind' \in [Ids -> Kinds] /\ wire' \in [Ids -> Wires]
         /\ m_outstandingRequests' \in Int
         /\ b \in Bev /\ m_callbacks'[b] = m_callbacks[b] \cup {id}
         /\ \A c \in Bev \ {b} : m_callbacks'[c] = m_callbacks[c]
         /\ kind'[id] = k
         /\ \A j \in Ids \ {id} : kind'[j] = kind[j] /\ wire'[j] = wire[j]
         /\ MapsInv'
<1> USE BoundAssumption DEF BoundAssumption, IndInv, TypeOK, Register, Ids, Magic, NoId
<1>1. /\ m_callbacks' \in [Bev -> SUBSET (Ids \cup {Magic})]
      /\ kind' \in [Ids -> Kinds] /\ wire' \in [Ids -> Wires]
      /\ m_outstandingRequests' \in Int
  BY DEF DataTypes, Wires
<1>2. /\ b \in Bev /\ m_callbacks'[b] = m_callbacks[b] \cup {id}
      /\ \A c \in Bev \ {b} : m_callbacks'[c] = m_callbacks[c]
  BY Zenon DEF DataTypes
<1>3. /\ kind'[id] = k
      /\ \A j \in Ids \ {id} : kind'[j] = kind[j] /\ wire'[j] = wire[j]
  BY Zenon DEF DataTypes
<1>4. MapsInv'
  <2>1. /\ (\A c \in Bev \ m_bevs : m_callbacks[c] = {})'
        /\ (\A c \in m_bevs : Magic \in m_callbacks[c])'
    BY DEF MapsInv
  <2>2. (\A c \in Bev : \A i \in Requests(c) : i < m_nextRequestId /\ kind[i] # "none")'
    BY DEF MapsInv, DataTypes, Requests
  <2>3. (\A c, d \in Bev : \A i \in Ids :
           i \in m_callbacks[c] /\ i \in m_callbacks[d] => c = d)'
    BY DEF MapsInv
  <2>4. (api \in {"async", "affinity"} /\ apiId # NoId =>
           apiId < m_nextRequestId /\ \A c \in Bev : apiId \notin m_callbacks[c])'
    BY DEF MapsInv, FrameTypes, DataTypes
  <2> QED BY <2>2, <2>4 DEF MapsInv
<1> QED BY <1>1, <1>4

\* A request that is registered now was not called back and, its id being the
\* largest, the walk over a lost connection has not passed it.
LEMMA RegisterCalls ==
  ASSUME IndInv, NEW id \in Ids, NEW k, NEW size, NEW b \in m_bevs,
         Register(id, k, b, size), calls[id] = 0, Running,
         UNCHANGED <<calls, m_bevs, hb, hid>>,
         \/ loc' = loc /\ (loc \in {"callback", "lost", "lostCallback"} => hid < id)
         \/ /\ loc \notin {"callback", "lost", "lostCallback"}
            /\ loc' \notin {"callback", "lost", "lostCallback"}
  PROVE  (Running => \A c \in m_bevs : \A j \in Requests(c) :
            calls[j] = IF (loc = "callback" /\ j = hid) \/ WalkedPast(c, j)
                       THEN 1 ELSE 0)'
<1> USE BoundAssumption DEF BoundAssumption, IndInv, TypeOK, Ids, Magic, NoId
<1>1. /\ b \in Bev /\ m_callbacks'[b] = m_callbacks[b] \cup {id}
      /\ \A c \in Bev \ {b} : m_callbacks'[c] = m_callbacks[c]
  BY Zenon DEF DataTypes, Register
<1>2. ASSUME NEW c \in m_bevs, NEW j \in m_callbacks'[c] \ {Magic}
      PROVE  calls[j] = IF (loc' = "callback" /\ j = hid) \/
                           (loc' \in {"lost", "lostCallback"} /\ c = hb /\ j <= hid)
                        THEN 1 ELSE 0
  <2>1. CASE j = id
    BY <2>1 DEF FrameTypes
  <2>2. CASE j # id
    <3>1. j \in Requests(c)
      BY <1>1, <2>2, Zenon DEF Requests, DataTypes
    <3> QED BY <3>1, Zenon DEF CallsInv, WalkedPast
  <2> QED BY <2>1, <2>2, Zenon
<1> QED BY <1>2, Zenon DEF WalkedPast, Requests

-----------------------------------------------------------------------------
(* invoke() in the application.                                             *)

\* The application calls the asynchronous invoke.
LEMMA InvokeInv == ASSUME IndInv, Invoke PROVE IndInv'
<1> USE BoundAssumption
    DEF BoundAssumption, IndInv, TypeOK, Invoke, Calls, Ids, Magic, NoId
<1>1. FlagTypes' /\ TodoTypes'
  BY ApiTodoFacts, Zenon DEF FlagTypes, TodoTypes
<1>2. FrameTypes'
  BY Zenon DEF FrameTypes, Locs, Apis
<1>3. FrameInv'
  BY Zenon DEF FrameInv, InHandler, Running
<1>4. FramesOnly
  BY Zenon DEF FramesOnly, FrameInv, DataTypes, Running
<1> QED BY <1>1, <1>2, <1>3, <1>4, FramesOnlyInv, Zenon

\* invoke() abandons the request, throws, or takes an id.
LEMMA InvokeEntryInv == ASSUME IndInv, InvokeEntry PROVE IndInv'
<1> USE BoundAssumption
    DEF BoundAssumption, IndInv, TypeOK, InvokeEntry, InvocationDone, Return, Ids, Magic, NoId
<1>1. DataTypes'
  BY SMTT(30) DEF DataTypes
<1>2. FlagTypes'
  BY ZenonT(30) DEF FlagTypes
<1>3. FrameTypes'
  BY DEF FrameTypes, Locs, Apis, Attempts, Responses, DataTypes
<1>4. TodoTypes'
  BY TailFact, ApiTodoFacts, Zenon DEF TodoTypes
<1>5. FrameInv'
  BY SMTT(30) DEF FrameInv, InHandler, Running, Requests, DataTypes
<1>6. MapsInv'
  BY DEF MapsInv, Requests, DataTypes
<1>7. CallsInv'
  BY DEF CallsInv, WalkedPast, Running, Requests, DataTypes
<1> QED BY <1>1, <1>2, <1>3, <1>4, <1>5, <1>6, <1>7, Zenon

\* invoke() enters the loop to wait.
LEMMA InvokeBlocksInv == ASSUME IndInv, InvokeBlocks PROVE IndInv'
<1> USE BoundAssumption
    DEF BoundAssumption, IndInv, TypeOK, InvokeBlocks, MustWait, EnterLoop, Ids, Magic, NoId
<1>1. FlagTypes' /\ TodoTypes'
  BY Zenon DEF FlagTypes, TodoTypes
<1>2. FrameTypes'
  BY Zenon DEF FrameTypes, Locs
<1>3. FrameInv'
  BY Zenon DEF FrameInv, InHandler, Running
<1>4. FramesOnly
  BY Zenon DEF FramesOnly, FrameInv, DataTypes, Running
<1> QED BY <1>1, <1>2, <1>3, <1>4, FramesOnlyInv, Zenon

\* invoke() has no connection left to choose from.
LEMMA InvokeDividesByZeroInv == ASSUME IndInv, InvokeDividesByZero PROVE IndInv'
<1> USE BoundAssumption
    DEF BoundAssumption, IndInv, TypeOK, InvokeDividesByZero, Ids, Magic, NoId
<1>1. FlagTypes' /\ TodoTypes'
  BY Zenon DEF FlagTypes, TodoTypes
<1>2. FrameTypes'
  BY Zenon DEF FrameTypes, Locs
<1>3. FrameInv'
  BY Zenon DEF FrameInv, InHandler, Running
<1>4. FramesOnly
  BY Zenon DEF FramesOnly, DataTypes, Running
<1> QED BY <1>1, <1>2, <1>3, <1>4, FramesOnlyInv, Zenon

\* The synchronous invoke queues its request and enters the loop.
LEMMA SyncInvokeInv == ASSUME IndInv, SyncInvoke PROVE IndInv'
<1> USE BoundAssumption
    DEF BoundAssumption, IndInv, TypeOK, SyncInvoke, Calls, EnterLoop, Register, Ids, Magic, NoId
<1>1. DataTypes'
  BY SizeAssumption DEF DataTypes, Kinds, Wires
<1>2. FlagTypes'
  BY Zenon DEF FlagTypes
<1>3. FrameTypes'
  BY DEF FrameTypes, Locs, Apis, DataTypes
<1>4. TodoTypes'
  BY Zenon DEF TodoTypes
<1>5. FrameInv'
  BY Zenon DEF FrameInv, InHandler, Running
<1>6. MapsInv'
  BY DEF MapsInv, Requests, DataTypes
<1>7. CallsInv'
  BY DEF CallsInv, WalkedPast, Running, Requests, DataTypes
<1> QED BY <1>1, <1>2, <1>3, <1>4, <1>5, <1>6, <1>7, Zenon

\* invoke() queues the request and goes on with the next invocation or returns.
LEMMA InvokeQueuesInv == ASSUME IndInv, InvokeQueues PROVE IndInv'
<1> USE BoundAssumption DEF BoundAssumption, InvokeQueues, Ids, Magic, NoId
<1>1. /\ apiId \in Ids /\ apiId < m_nextRequestId /\ calls[apiId] = 0
      /\ \A c \in Bev : apiId \notin m_callbacks[c]
  BY Zenon DEF IndInv, TypeOK, FrameTypes, FrameInv, MapsInv, CallsInv
<1>2. Head(apiTodo) \in Kinds \ {"none"}
  BY DEF IndInv, TypeOK, TodoTypes, FrameInv, Invocations
<1>3. PICK size \in {"small", "large"}, b \in m_bevs :
        /\ Register(apiId, Head(apiTodo), b, size)
        /\ m_backpressuredBevs' = IF OverLimit(b) \/ size = "large"
                                  THEN m_backpressuredBevs \cup {b}
                                  ELSE m_backpressuredBevs
  BY SelectFacts, SizeAssumption, Zenon DEF SizesOf
<1>4. /\ apiId' = NoId /\ loc' \in {"entry", "app"}
      /\ loc' = "entry" => api' = api /\ apiTodo' = Tail(apiTodo) /\ Len(apiTodo) > 1
      /\ loc' = "app" => api' = "none" /\ apiTodo' = <<>>
  BY Zenon DEF InvocationDone, Return
<1>5. /\ m_callbacks' \in [Bev -> SUBSET (Ids \cup {Magic})]
      /\ kind' \in [Ids -> Kinds] /\ wire' \in [Ids -> Wires]
      /\ m_outstandingRequests' \in Int
      /\ MapsInv'
  BY <1>1, <1>2, <1>3, <1>4, RegisterMaps, SMTT(30) DEF IndInv, TypeOK, DataTypes
<1>6. DataTypes'
  BY <1>3, <1>5, Zenon DEF IndInv, TypeOK, DataTypes
<1>7. FlagTypes'
  BY Zenon DEF IndInv, TypeOK, FlagTypes, InvocationDone, Return
<1>8. FrameTypes'
  BY Zenon DEF IndInv, TypeOK, FrameTypes, InvocationDone, Return, Locs, Apis, Attempts, Responses
<1>9. TodoTypes'
  BY <1>4, TailFact, ApiTodoFacts, Zenon DEF IndInv, TypeOK, TodoTypes
<1>10. FrameInv'
  <2>1. /\ loc = "invoke" /\ hb = NoBev /\ hid = NoId /\ hInput = {}
        /\ UNCHANGED <<hb, hid, hInput, hTodo>> /\ api \in {"async", "affinity"}
    BY Zenon DEF IndInv, FrameInv, Running
  <2>2. apiTodo' = Tail(apiTodo) /\ Len(apiTodo) > 1 => apiTodo' # <<>>
    BY TailFact, Zenon DEF IndInv, TypeOK, TodoTypes
  <2> QED BY <1>4, <2>1, <2>2 DEF FrameInv, InHandler, Running
<1>11. CallsInv'
  <2>1. loc = "invoke" /\ Running
    BY Zenon DEF Running
  <2>2. (Running => \A c \in m_bevs : \A j \in Requests(c) :
           calls[j] = IF (loc = "callback" /\ j = hid) \/ WalkedPast(c, j)
                      THEN 1 ELSE 0)'
    BY <1>1, <1>3, <1>4, <2>1, RegisterCalls, Zenon
  <2> QED BY <1>4, <2>2, Zenon DEF IndInv, CallsInv
<1> QED BY <1>5, <1>6, <1>7, <1>8, <1>9, <1>10, <1>11, Zenon DEF IndInv, TypeOK
=============================================================================
