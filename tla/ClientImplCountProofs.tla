------------------------ MODULE ClientImplCountProofs -----------------------
(***************************************************************************)
(* What bounds the work of the client.  First, for user code that never    *)
(* throws and a listener that never queues, the selection of a connection. *)
(* Then what m_outstandingRequests counts: every step changes the requests *)
(* that wait by at most one, and the counter with it, except that the loss *)
(* of a connection takes one too many off (CountStep).  The bound on the   *)
(* drift, what drain() may say and the limit of invoke() follow.           *)
(***************************************************************************)
EXTENDS ClientImplProofs, FiniteSetTheorems

USE DEF conVars, reqVars, bpVars, distVars, frameVars, hVars, loopVars

-----------------------------------------------------------------------------
(* Backpressure, when user code neither throws nor overrides it.            *)

\* m_ignoreBackpressure is put back whenever user code returns, and when a
\* listener is told that a callback of the client itself threw.
LEMMA IgnoredStep ==
  ASSUME IndInv, PoliteUserCode, IgnoredOnlyInCallbacks, HasListener \/ NeverRouted,
         [Next]_vars
  PROVE  IgnoredOnlyInCallbacks'
<1> USE DEF IgnoredOnlyInCallbacks, PoliteUserCode
<1>1. CASE Application
  BY <1>1, Zenon DEF Application, Run, NoConnections, Drain, Invoke, SyncInvoke, Calls,
     CreateConnection, CreatePendingConnection, SetClientAffinity
<1>2. CASE ApiSteps
  BY <1>2, Zenon DEF ApiSteps, LoopReturns, LoopEnds, InvokeEntry, InvokeQueues, InvokeBlocks,
     MustWait, InvokeDividesByZero
<1>3. CASE Connecting \/ Network
  BY <1>3, Zenon DEF Connecting, AuthenticationEvent, FinalizeAuthentication, InLoop,
     FinalizeMismatch, Network, RegularWriteCallback, RegularReadCallback,
     RegularEventCallback, StartReading
<1>4. CASE Reading
  <2>1. ASSUME NEW break \in BOOLEAN, NEW ignore \in BOOLEAN, Caught(break, ignore), HasListener
        PROVE  ignore = FALSE
    BY <2>1, Zenon DEF Caught
  <2>2. ASSUME NEW i \in Ids, AffinityCallback(i) PROVE m_ignoreBackpressure' = FALSE
    <3>1. HasListener
      BY <2>2, Zenon DEF AffinityCallback, NeverRouted
    <3> QED BY <2>1, <2>2, <3>1, Zenon DEF AffinityCallback, Forgets, Answered
  <2>3. ASSUME TopologyNotification PROVE m_ignoreBackpressure' = FALSE
    <3>1. HasListener
      BY <2>3, Zenon DEF TopologyNotification, NeverRouted
    <3> QED BY <2>1, <2>3, <3>1, Zenon DEF TopologyNotification
  <2> QED BY <1>4, <2>2, <2>3, ZenonT(30)
          DEF Reading, UserCallback, SyncCallback, UserCallbackReturns, ReadDone, Forgets, Answered
<1>5. CASE Losing
  BY <1>5, ZenonT(30) DEF Losing, LostUserCallback, LostSyncCallback, LostAffinityCallback,
     SyncCallbackCrashes, ConnectionLostReturns, LostUserCallbackReturns,
     LostUncaughtThrows, LostNotificationEntry, ConnectionGone, Visited, NextEntry
<1>6. CASE Invoking
  BY <1>6, Zenon DEF Invoking, HandlerInvoke, ConnectionActiveReturns, NestedInvoke,
     NestedSyncInvoke, NestedDrain, InvokesNow, InvokeThrows, MustWait
<1>7. CASE UNCHANGED vars
  BY <1>7, Zenon DEF vars
<1> QED BY <1>1, <1>2, <1>3, <1>4, <1>5, <1>6, <1>7, Zenon DEF Next

\* Without synchronous invocations no request carries a SyncCallback.
LEMMA NoSyncStep ==
  ASSUME IndInv, NoSyncCalls, NoSyncRequests, [Next]_vars
  PROVE  NoSyncRequests'
<1> USE DEF NoSyncRequests
<1>1. ~SyncInvoke /\ ~NestedSyncInvoke
  BY Zenon DEF SyncInvoke, NestedSyncInvoke, Calls, NoSyncCalls
<1>2. kind \in [Ids -> Kinds]
  BY Zenon DEF IndInv, TypeOK, DataTypes
<1>3. CASE RegistersFresh
  BY <1>1, <1>3 DEF RegistersFresh, Register
<1>4. CASE AnswersOne
  BY <1>4 DEF AnswersOne, Forgets, Answered
<1>5. CASE ConnectionGone \/ \E b \in Bev, c \in Cluster : FinalizeAuthentication(b, c)
  BY <1>5, Zenon DEF ConnectionGone, FinalizeAuthentication
<1>6. CASE (\E b \in Bev : RegularWriteCallback(b)) \/ UNCHANGED kind
  BY <1>6, Zenon DEF RegularWriteCallback
<1> QED BY <1>3, <1>4, <1>5, <1>6, MapSteps, Zenon

\* What is left to invoke in a handler, the subscriptions and the input change in
\* few steps.
LEMMA TodoSteps ==
  ASSUME [Next]_vars
  PROVE  /\ \/ UNCHANGED hTodo
            \/ \E b \in Bev, c \in Cluster : FinalizeAuthentication(b, c)
            \/ ConnectionGone \/ HandlerInvoke \/ ConnectionActiveReturns
         /\ UNCHANGED subscribed \/ ConnectionGone \/ \E b \in Bev : RegularWriteCallback(b)
         /\ \/ hInput' \subseteq hInput
            \/ \E b \in Bev : \E batch \in SUBSET Answerable(b) : hInput' = batch
<1>1. CASE Application \/ ApiSteps
  BY <1>1, Zenon DEF Application, Run, NoConnections, Drain, Invoke, SyncInvoke,
     CreateConnection, CreatePendingConnection, SetClientAffinity, ApiSteps, LoopReturns,
     InvokeEntry, InvokeQueues, InvokeBlocks, InvokeDividesByZero
<1>2. CASE Connecting
  BY <1>2, Zenon DEF Connecting, AuthenticationEvent, FinalizeAuthentication, FinalizeMismatch
<1>3. CASE Network
  BY <1>3, Zenon DEF Network, RegularWriteCallback, RegularReadCallback, RegularEventCallback,
     StartReading
<1>4. CASE Reading
  BY <1>4, Zenon DEF Reading, UserCallback, SyncCallback, AffinityCallback,
     UserCallbackReturns, TopologyNotification, ReadDone, Forgets, Answered
<1>5. CASE Losing
  BY <1>5, Zenon DEF Losing, LostUserCallback, LostSyncCallback, LostAffinityCallback,
     SyncCallbackCrashes, ConnectionLostReturns, LostUserCallbackReturns,
     LostUncaughtThrows, LostNotificationEntry, ConnectionGone, Visited
<1>6. CASE Invoking
  BY <1>6, Zenon DEF Invoking, HandlerInvoke, ConnectionActiveReturns, NestedInvoke,
     NestedSyncInvoke, NestedDrain
<1>7. CASE UNCHANGED vars
  BY <1>7, Zenon DEF vars
<1> QED BY <1>1, <1>2, <1>3, <1>4, <1>5, <1>6, <1>7, Zenon DEF Next

\* Without client affinity nothing is routed past the selection loop, and no
\* callback of the client itself is called with a response.
LEMMA NeverRoutedStep ==
  ASSUME IndInv, NoAffinityCalls, NeverRouted, [Next]_vars PROVE NeverRouted'
<1>0. m_useClientAffinity = FALSE
  BY DEF NeverRouted
<1>1. ~HandlerInvoke /\ (loc = "invoke" => Head(apiTodo) = "user")
  BY DEF NeverRouted, HandlerInvoke, IndInv, FrameInv
<1>2. (\A i \in Ids : ~AffinityCallback(i)) /\ ~TopologyNotification
  BY Zenon DEF AffinityCallback, TopologyNotification, NeverRouted
<1>3. ~m_useClientAffinity' /\ api' # "affinity" /\ apiTodo' \in {<<>>, <<"user">>}
  <2>1. CASE Application
    BY <1>0, <2>1, Zenon
       DEF Application, Run, NoConnections, Drain, Invoke, SyncInvoke, Calls, CreateConnection,
           CreatePendingConnection, SetClientAffinity, NeverRouted, NoAffinityCalls
  <2>2. CASE ApiSteps
    <3>1. ~(Len(apiTodo) > 1)
      <4>1. CASE apiTodo = <<>>
        BY <4>1
      <4>2. CASE apiTodo = <<"user">>
        BY <4>2
      <4> QED BY <4>1, <4>2, Zenon DEF NeverRouted
    <3> QED BY <1>0, <2>2, <3>1, Zenon
            DEF ApiSteps, LoopReturns, Return, InvokeEntry, InvocationDone, InvokeQueues,
                InvokeBlocks, InvokeDividesByZero, NeverRouted
  <2>3. CASE Connecting \/ Network \/ Reading \/ Losing \/ Invoking
    <3>1. m_useClientAffinity' = FALSE /\ api' = api /\ apiTodo' = apiTodo
      BY <1>0, <2>3, HandlersKeepApi, Zenon
    <3> QED BY <3>1, Zenon DEF NeverRouted
  <2>4. CASE UNCHANGED vars
    BY <2>4, Zenon DEF vars, NeverRouted
  <2> QED BY <2>1, <2>2, <2>3, <2>4, Zenon DEF Next
<1>4. hTodo' \in {<<>>, <<"active">>}
  <2>1. CASE \E b \in Bev, c \in Cluster : FinalizeAuthentication(b, c)
    BY <1>0, <2>1 DEF FinalizeAuthentication
  <2>2. CASE ConnectionGone \/ ConnectionActiveReturns
    BY <1>0, <2>2, Zenon DEF ConnectionGone, ConnectionActiveReturns, NeverRouted
  <2>3. CASE UNCHANGED hTodo
    BY <2>3, Zenon DEF NeverRouted
  <2> QED BY <1>1, <2>1, <2>2, <2>3, TodoSteps, Zenon
<1>5. \A i \in Ids : kind'[i] \notin {"proc", "topo", "sub"}
  <2>1. kind \in [Ids -> Kinds] /\ \A i \in Ids : kind[i] \notin {"proc", "topo", "sub"}
    BY Zenon DEF IndInv, TypeOK, DataTypes, NeverRouted
  <2>2. CASE RegistersFresh
    BY <1>1, <2>1, <2>2, SMTT(30) DEF RegistersFresh, Register
  <2>3. CASE AnswersOne
    BY <2>1, <2>3 DEF AnswersOne, Forgets, Answered
  <2>4. CASE ConnectionGone \/ UNCHANGED kind
    BY <2>1, <2>4, Zenon DEF ConnectionGone
  <2>5. CASE (\E b \in Bev : RegularWriteCallback(b)) \/ \E b \in Bev, c \in Cluster : FinalizeAuthentication(b, c)
    BY <2>1, <2>5, Zenon DEF RegularWriteCallback, FinalizeAuthentication
  <2> QED BY <2>2, <2>3, <2>4, <2>5, MapSteps, Zenon
<1>6. subscribed' = {}
  <2>1. CASE \E b \in Bev : RegularWriteCallback(b)
    BY <2>1, Zenon DEF RegularWriteCallback, NeverRouted, Requests, IndInv, TypeOK, DataTypes
  <2>2. CASE ConnectionGone
    BY <2>2, Zenon DEF ConnectionGone, NeverRouted
  <2>3. CASE UNCHANGED subscribed
    BY <2>3, Zenon DEF NeverRouted
  <2> QED BY <2>1, <2>2, <2>3, TodoSteps, Zenon
<1>7. Magic \notin hInput'
  <2>1. CASE \E b \in Bev : \E batch \in SUBSET Answerable(b) : hInput' = batch
    BY <2>1, Zenon DEF Answerable, Requests, NeverRouted
  <2>2. CASE hInput' \subseteq hInput
    BY <2>2, Zenon DEF NeverRouted
  <2> QED BY <2>1, <2>2, TodoSteps, Zenon
<1> QED BY <1>3, <1>4, <1>5, <1>6, <1>7, Zenon DEF NeverRouted

\* If user code neither throws nor answers backpressure() with true, and the
\* application makes no synchronous invocation and has a listener or does not use
\* client affinity (so that what the client's own callbacks throw is answered, or
\* they are not called with a response), the process never ends: neither
\* by the remainder in invoke() when the last connection was lost while it waited
\* nor by a callback that writes to a frame that is gone.
THEOREM NeverDividesByZero ==
  ASSUME PoliteUserCode, NoSyncCalls, HasListener \/ NoAffinityCalls
  PROVE  Spec => []NoDivisionByZero
<1> DEFINE J == /\ IgnoredOnlyInCallbacks /\ NoSyncRequests /\ NoDivisionByZero
                /\ HasListener \/ NeverRouted
<1>1. Init => J
  BY Zenon DEF Init, IgnoredOnlyInCallbacks, NoSyncRequests, NoDivisionByZero, NeverRouted
<1>2. IndInv /\ J /\ [Next]_vars => J'
  <2> SUFFICES ASSUME IndInv, J, [Next]_vars PROVE NoDivisionByZero'
    BY IgnoredStep, NoSyncStep, NeverRoutedStep, Zenon DEF HasListener
  <2>1. ~InvokeDividesByZero
    BY Zenon DEF InvokeDividesByZero, IgnoredOnlyInCallbacks, PoliteUserCode
  <2>2. \A i \in Ids : ~SyncCallbackCrashes(i)
    BY Zenon DEF SyncCallbackCrashes, NoSyncRequests
  <2>3. CASE UNCHANGED vars
    BY <2>3, Zenon DEF vars, NoDivisionByZero
  <2> QED BY <2>1, <2>2, <2>3, StepFacts, Zenon DEF NoDivisionByZero
<1>3. J => NoDivisionByZero
  OBVIOUS
<1> QED BY <1>1, <1>2, <1>3, Invariance, PTL DEF Spec

\* If user code neither throws nor answers backpressure() with true, and client
\* affinity is not used, an invocation of the application never adds to a
\* connection marked as backpressured.
THEOREM BackpressureRespected ==
  ASSUME PoliteUserCode, NoAffinityCalls
  PROVE  Spec => AppRequestsAvoidBackpressure
<1> DEFINE K == IgnoredOnlyInCallbacks /\ NeverRouted
           Avoids == loc = "invoke" /\ loc' = "app" =>
                       \A b \in Bev : m_callbacks'[b] # m_callbacks[b]
                                      => b \notin m_backpressuredBevs
<1>1. Init => K
  BY Zenon DEF Init, IgnoredOnlyInCallbacks, NeverRouted
<1>2. IndInv /\ K /\ [Next]_vars => K'
  BY IgnoredStep, NeverRoutedStep, Zenon
<1>3. IndInv /\ K /\ [Next]_vars => [Avoids]_vars
  <2> SUFFICES ASSUME IndInv, K, Next, loc = "invoke", loc' = "app", NEW b \in Bev,
                      m_callbacks'[b] # m_callbacks[b]
               PROVE  b \notin m_backpressuredBevs
    OBVIOUS
  <2>1. InvokeQueues
    BY StepFacts, Zenon
       DEF ApiSteps, LoopReturns, LoopEnds, InvokeEntry, InvokeBlocks, EnterLoop,
           InvokeDividesByZero
  <2>2. PICK d \in m_bevs \ m_backpressuredBevs, size \in SizesOf(Head(apiTodo)) :
                 Register(apiId, Head(apiTodo), d, size)
    BY <2>1, Zenon
       DEF InvokeQueues, Select, Queue, Routed, Acceptable, IgnoredOnlyInCallbacks, NeverRouted,
           PoliteUserCode
  <2> QED BY <2>2 DEF Register
<1>4. Spec => [][Avoids]_vars
  BY <1>1, <1>2, <1>3, Invariance, PTL DEF Spec
<1> QED BY <1>4, Zenon DEF AppRequestsAvoidBackpressure

-----------------------------------------------------------------------------
(* Which requests wait: no step changes more than one of them.              *)

\* The request counter, the losses and the kinds of the waiting requests agree
\* with what was: the waiting requests are the same.
SameWaiting ==
  /\ Waiting' = Waiting /\ \A j \in Waiting : kind'[j] = kind[j]
  /\ UNCHANGED <<m_outstandingRequests, losses>>
  /\ hid' = Magic <=> hid = Magic

\* Request i is queued: by a synchronous invoke, by one that has just checked the
\* limit, or by one that checked it before it waited.
Queues(i) ==
  /\ i \in Ids \ Waiting /\ Waiting' = Waiting \cup {i}
  /\ \A j \in Waiting : kind'[j] = kind[j]
  /\ kind'[i] = "sync" \/ ~TooBusy \/ (Admitted /\ ~Admitted')
  /\ m_outstandingRequests' = m_outstandingRequests + 1
  /\ UNCHANGED <<losses, hid>>

\* Request i is answered, or the walk over its lost connection counts it off.
Settles(i) ==
  /\ i \in Waiting /\ Waiting' = Waiting \ {i}
  /\ \A j \in Waiting \ {i} : kind'[j] = kind[j]
  /\ m_outstandingRequests' = m_outstandingRequests - 1
  /\ UNCHANGED losses /\ hid # Magic /\ hid' # Magic

\* The walk counts the entry for topology notifications.
Overcounts ==
  /\ Waiting' = Waiting /\ \A j \in Waiting : kind'[j] = kind[j]
  /\ m_outstandingRequests' = m_outstandingRequests - 1
  /\ UNCHANGED losses /\ hid # Magic /\ hid' = Magic

\* The walk has ended and the connection is gone.
Loses ==
  /\ Waiting' = Waiting /\ \A j \in Waiting : kind'[j] = kind[j]
  /\ UNCHANGED m_outstandingRequests
  /\ losses' = losses + 1 /\ hid = Magic /\ hid' # Magic

CountStep ==
  \/ SameWaiting \/ Overcounts \/ Loses
  \/ \E i \in Ids : Queues(i) \/ Settles(i)

Walking == loc \in {"lost", "lostCallback"}

\* A step that leaves the maps alone and takes no part in a walk.
LEMMA FrameStep ==
  ASSUME IndInv, UNCHANGED <<m_bevs, m_callbacks, kind, m_outstandingRequests, losses>>,
         ~Walking, ~Walking', hid' = hid \/ (hid' \in Ids /\ hid # Magic)
  PROVE  SameWaiting
  BY DEF SameWaiting, Waiting, CountedOff, Walking, Ids, Magic

\* No step leads back into a running client.
LEMMA NeverRunsAgain == ASSUME [Next]_vars, Running' PROVE Running
  BY StepFacts, Zenon DEF vars, Running

\* Registering an id that is in no map and that no walk has passed.
LEMMA RegisterStep ==
  ASSUME IndInv, NEW id \in Ids, NEW k, NEW size, NEW b \in m_bevs,
         Register(id, k, b, size), \A c \in Bev : id \notin m_callbacks[c],
         UNCHANGED <<m_bevs, losses, hb, hid>>,
         (loc' = loc /\ loc # "lost" /\ (loc = "lostCallback" => hid < id))
         \/ (~Walking /\ ~Walking'),
         k = "sync" \/ ~TooBusy \/ (Admitted /\ ~Admitted')
  PROVE  Queues(id)
<1> USE DEF Register
<1>1. /\ b \in Bev /\ m_callbacks'[b] = m_callbacks[b] \cup {id}
      /\ \A c \in Bev \ {b} : m_callbacks'[c] = m_callbacks[c]
      /\ kind'[id] = k /\ \A j \in Ids \ {id} : kind'[j] = kind[j]
      /\ m_bevs \subseteq Bev
  BY Zenon DEF IndInv, TypeOK, DataTypes
<1>2. id \notin Waiting /\ Waiting \subseteq Ids
  BY <1>1, Zenon DEF Waiting
<1>3. ASSUME NEW i \in Ids
      PROVE  i \in Waiting' <=> i \in Waiting \/ i = id
  <2>1. (\E c \in m_bevs' : i \in m_callbacks'[c]) <=>
        (\E c \in m_bevs : i \in m_callbacks[c]) \/ i = id
    BY <1>1, Zenon
  <2>2. CASE i = id
    BY <2>1, SMTT(30) DEF Waiting, CountedOff, Walking, IndInv, TypeOK, FrameTypes, Ids
  <2>3. CASE i # id
    <3>1. hb # NoBev => (i \in m_callbacks'[hb] <=> i \in m_callbacks[hb])
      BY <2>3
    <3> QED BY <2>3 DEF Waiting, CountedOff, Walking
  <2> QED BY <2>2, <2>3, Zenon
<1>4. Waiting' = Waiting \cup {id}
  <2>1. Waiting' \subseteq Ids
    BY Zenon DEF Waiting
  <2> QED BY <1>2, <1>3, <2>1, Zenon
<1> QED BY <1>1, <1>2, <1>4, Zenon DEF Queues

\* The API functions: a synchronous invoke queues its request, the others none.
LEMMA ApplicationCounts == ASSUME IndInv, Application PROVE CountStep
<1>1. CASE SyncInvoke
  <2>1. PICK b \in m_bevs, size \in Sizes : Register(m_nextRequestId, "sync", b, size)
    BY <1>1, Zenon DEF SyncInvoke
  <2>2. /\ m_nextRequestId < MaxRequests /\ UNCHANGED <<m_bevs, losses, hb, hid>>
        /\ ~Walking /\ ~Walking'
    BY <1>1, Zenon DEF SyncInvoke, Calls, EnterLoop, Walking
  <2> QED BY <2>1, <2>2, NextIdIsFresh, RegisterStep, Zenon DEF CountStep
<1>2. CASE Application /\ ~SyncInvoke
  <2>1. /\ UNCHANGED <<m_bevs, m_callbacks, kind, m_outstandingRequests, losses>>
        /\ hid' = hid /\ ~Walking /\ ~Walking'
    BY <1>2, Zenon DEF Application, Run, NoConnections, Drain, Invoke, EnterLoop,
       CreateConnection, CreatePendingConnection, SetClientAffinity, Calls, Walking
  <2>2. SameWaiting
    BY <2>1, FrameStep, Zenon
  <2> QED BY <2>2, Zenon DEF CountStep
<1> QED BY <1>1, <1>2, Zenon

\* What invoke() does in the application after its entry.
LEMMA ApiCounts == ASSUME IndInv, ApiSteps PROVE CountStep
<1>1. CASE InvokeQueues
  <2>1. PICK size \in Sizes \cup {"small"}, b \in m_bevs :
          Register(apiId, Head(apiTodo), b, size)
    BY <1>1, SelectFacts, Zenon DEF InvokeQueues, SizesOf
  <2>2. /\ apiId' = NoId /\ UNCHANGED <<m_bevs, losses, hb, hid>>
        /\ ~Walking /\ ~Walking'
    BY <1>1, Zenon DEF InvokeQueues, InvocationDone, Return, Walking
  <2>3. /\ apiId \in Ids /\ \A c \in Bev : apiId \notin m_callbacks[c]
        /\ Admitted /\ ~Admitted'
    BY <1>1, <2>2, WaitingIdIsFresh, Zenon DEF InvokeQueues, Admitted
  <2> QED BY <2>1, <2>2, <2>3, RegisterStep, Zenon DEF CountStep
<1>2. CASE ApiSteps /\ ~InvokeQueues
  <2>1. /\ UNCHANGED <<m_bevs, m_callbacks, kind, m_outstandingRequests, losses>>
        /\ hid' = hid /\ ~Walking /\ ~Walking'
    BY <1>2, Zenon DEF ApiSteps, LoopReturns, LoopEnds, Return, EnterLoop, InvokeEntry,
       InvocationDone, InvokeBlocks, InvokeDividesByZero, Walking
  <2>2. SameWaiting
    BY <2>1, FrameStep, Zenon
  <2> QED BY <2>2, Zenon DEF CountStep
<1> QED BY <1>1, <1>2, Zenon

\* A new connection has no request; logging in, writing and starting to read
\* change none.
LEMMA LoopCounts == ASSUME IndInv, Connecting \/ Network PROVE CountStep
<1>1. ASSUME NEW b \in Bev, NEW c \in Cluster, FinalizeAuthentication(b, c)
      PROVE  SameWaiting
  <2> USE <1>1 DEF FinalizeAuthentication
  <2>1. /\ hid' = hid /\ kind' = kind
        /\ UNCHANGED <<m_outstandingRequests, losses>>
        /\ ~Walking /\ ~Walking'
    BY Zenon DEF InLoop, Walking
  <2>2. /\ m_callbacks'[b] = {Magic} /\ m_callbacks[b] = {}
        /\ \A d \in Bev \ {b} : m_callbacks'[d] = m_callbacks[d]
        /\ m_bevs' = m_bevs \cup {b} /\ m_bevs \subseteq Bev
    BY DEF IndInv, TypeOK, DataTypes, MapsInv
  <2>3. Magic \notin Ids
    BY DEF Ids, Magic
  <2>4. ASSUME NEW i \in Ids
        PROVE  (\E d \in m_bevs' : i \in m_callbacks'[d]) <=>
               (\E d \in m_bevs : i \in m_callbacks[d])
    BY <2>2, <2>3, Zenon
  <2>5. Waiting' = Waiting
    BY <2>1, <2>4, Zenon DEF Waiting, CountedOff, Walking
  <2> QED BY <2>5, Zenon DEF SameWaiting
<1>2. CASE \/ Network
           \/ Connecting
              /\ ~(\E b \in Bev, c \in Cluster : FinalizeAuthentication(b, c))
  <2>1. /\ UNCHANGED <<m_bevs, m_callbacks, kind, m_outstandingRequests, losses>>
        /\ hid' = hid /\ ~Walking /\ ~Walking'
    BY <1>2, Zenon DEF Connecting, AuthenticationEvent, FinalizeMismatch, InLoop, Network,
       RegularWriteCallback, RegularReadCallback, RegularEventCallback, StartReading,
       Walking
  <2>2. SameWaiting
    BY <2>1, FrameStep, Zenon
  <2> QED BY <2>2, Zenon DEF CountStep
<1> QED BY <1>1, <1>2, Zenon DEF CountStep

\* A request whose callback has returned is forgotten.
LEMMA AnsweredStep ==
  ASSUME IndInv, NEW i \in hInput \ {Magic}, i \in Ids, NEW break, NEW ignore,
         loc \in {"read", "callback"}, Forgets(i, break, ignore)
  PROVE  Settles(i)
<1> USE DEF Forgets, Answered
<1>0. /\ hid = NoId \/ hid \in hInput \ {Magic}
      /\ hb \in m_bevs /\ hInput \subseteq m_callbacks[hb]
  BY Zenon DEF IndInv, FrameInv, InHandler, Running
<1>1. /\ hb \in m_bevs /\ hb \in Bev /\ i \in m_callbacks[hb] /\ m_bevs \subseteq Bev
      /\ hid # Magic /\ hid' # Magic
  BY <1>0 DEF IndInv, TypeOK, DataTypes, Magic, NoId
<1>2. /\ m_callbacks'[hb] = m_callbacks[hb] \ {i}
      /\ \A c \in Bev \ {hb} : m_callbacks'[c] = m_callbacks[c]
      /\ \A j \in Ids \ {i} : kind'[j] = kind[j]
  BY <1>1, Zenon DEF IndInv, TypeOK, DataTypes
<1>3. \A c \in m_bevs \ {hb} : i \notin m_callbacks[c]
  BY <1>1, Zenon DEF IndInv, MapsInv
<1>4. ASSUME NEW j \in Ids
      PROVE  (\E c \in m_bevs' : j \in m_callbacks'[c]) <=>
             (\E c \in m_bevs : j \in m_callbacks[c]) /\ j # i
  BY <1>2, <1>3
<1>5. i \in Waiting /\ Waiting' = Waiting \ {i}
  BY <1>1, <1>4, Zenon DEF Waiting, CountedOff
<1> QED BY <1>1, <1>5 DEF Settles

\* Reading settles the request whose callback ends, and no other.
LEMMA ReadingCounts == ASSUME IndInv, Reading PROVE CountStep
<1> USE BoundAssumption DEF BoundAssumption, Ids, Magic, NoId
<1>1. ASSUME NEW i \in Ids, SyncCallback(i) \/ AffinityCallback(i)
      PROVE  Settles(i)
  <2>1. /\ loc = "read" /\ i \in hInput \ {Magic}
        /\ \E break, ignore \in BOOLEAN : Forgets(i, break, ignore)
    BY <1>1, Zenon DEF SyncCallback, AffinityCallback
  <2> QED BY <2>1, AnsweredStep
<1>2. ASSUME UserCallbackReturns
      PROVE  hid \in Ids /\ Settles(hid)
  <2>1. hid \in Ids /\ hid \in hInput \ {Magic}
    BY <1>2, Zenon DEF UserCallbackReturns, IndInv, FrameInv, TypeOK, FrameTypes
  <2>2. loc = "callback" /\ \E break, ignore \in BOOLEAN : Forgets(hid, break, ignore)
    BY <1>2, Zenon DEF UserCallbackReturns
  <2> QED BY <2>1, <2>2, AnsweredStep
<1>3. ASSUME NEW i \in Ids, UserCallback(i) PROVE SameWaiting
  <2>1. /\ UNCHANGED <<m_bevs, m_callbacks, kind, m_outstandingRequests, losses>>
        /\ hid' = i /\ ~Walking /\ ~Walking'
    BY <1>3, Zenon DEF UserCallback, Walking
  <2>2. hid # Magic
    BY <1>3, SMTT(30) DEF UserCallback, IndInv, FrameInv, Running
  <2> QED BY <2>1, <2>2, FrameStep, Zenon
<1>4. CASE TopologyNotification
  <2>1. /\ UNCHANGED <<m_bevs, m_callbacks, kind, m_outstandingRequests, losses>>
        /\ hid' = hid /\ ~Walking /\ ~Walking'
    BY <1>4, Zenon DEF TopologyNotification, Walking
  <2>2. SameWaiting
    BY <2>1, FrameStep, Zenon
  <2> QED BY <2>2, Zenon DEF CountStep
<1>5. CASE ReadDone
  <2>1. /\ UNCHANGED <<m_bevs, m_callbacks, kind, m_outstandingRequests, losses, hid>>
        /\ hid = NoId /\ loc = "read" /\ loc' # "lostCallback"
    BY <1>5, Zenon DEF ReadDone, IndInv, FrameInv, Running
  <2>2. Waiting' = Waiting
    BY <2>1 DEF Waiting, CountedOff
  <2> QED BY <2>1, <2>2, Zenon DEF SameWaiting, CountStep
<1> QED BY <1>1, <1>2, <1>3, <1>4, <1>5, Zenon DEF Reading, CountStep

\* The walk goes to the next entry i: nothing lies between.
LEMMA NextEntryStep ==
  ASSUME IndInv, NEW i \in Ids \cup {Magic}, NextEntry(i)
  PROVE  /\ hb \in m_bevs /\ hb \in Bev /\ hb # NoBev /\ i \in m_callbacks[hb]
         /\ hid < i /\ hid # Magic
         /\ \A j \in Ids : j \in m_callbacks[hb] => (j < i <=> j <= hid)
         /\ i \in Ids => i \in Waiting
<1> USE BoundAssumption, BevAssumption DEF BoundAssumption, BevAssumption, Ids, Magic, NoId
<1>1. /\ hb \in m_bevs /\ hb \in Bev /\ hb # NoBev
      /\ hid \in Int /\ loc = "lost"
  BY DEF NextEntry, IndInv, FrameInv, InHandler, TypeOK, DataTypes
<1>2. /\ i \in m_callbacks[hb] /\ i > hid
      /\ \A j \in m_callbacks[hb] : j > hid => i <= j
  BY Zenon DEF NextEntry, Unvisited
<1>3. \A j \in Ids : j \in m_callbacks[hb] => (j < i <=> j <= hid)
  BY <1>1, <1>2
<1>4. i \in Ids => i \in Waiting
  BY <1>1, <1>2 DEF Waiting, CountedOff
<1> QED BY <1>1, <1>2, <1>4

\* The walk counts off an entry that needs no user code.
LEMMA VisitStep ==
  ASSUME IndInv, NEW i \in Ids, NextEntry(i), NEW break, Visited(break), hid' = i,
         loc' = loc
  PROVE  Settles(i)
<1> USE BoundAssumption DEF BoundAssumption, Ids, Magic, NoId, Visited
<1>1. loc = "lost" /\ loc' = "lost"
  BY Zenon DEF NextEntry
<1>2. ASSUME NEW j \in Ids PROVE j \in Waiting' <=> j \in Waiting /\ j # i
  <2>1. j \in m_callbacks[hb] => (j <= i <=> j <= hid \/ j = i)
    BY NextEntryStep
  <2> QED BY <1>1, NextEntryStep DEF Waiting, CountedOff
<1>3. Waiting' = Waiting \ {i}
  BY <1>2, Zenon DEF Waiting
<1> QED BY <1>3, NextEntryStep DEF Settles

\* The walk: it counts off one entry at a time, the one for topology notifications
\* included, and ends past that one.
LEMMA LosingCounts == ASSUME IndInv, Losing, Running' PROVE CountStep
<1> USE BoundAssumption, BevAssumption DEF BoundAssumption, BevAssumption, Ids, Magic, NoId
<1>1. ASSUME NEW i \in Ids, LostSyncCallback(i) \/ LostAffinityCallback(i)
      PROVE  Settles(i)
  <2>1. /\ NextEntry(i) /\ hid' = i /\ loc' = loc
        /\ \E break \in BOOLEAN : Visited(break)
    BY <1>1, Zenon DEF LostSyncCallback, LostAffinityCallback
  <2> QED BY <2>1, VisitStep, Zenon
<1>2. ASSUME NEW i \in Ids, LostUserCallback(i) PROVE SameWaiting
  <2>1. /\ NextEntry(i) /\ hid' = i /\ loc' = "lostCallback" /\ loc = "lost"
        /\ UNCHANGED <<m_bevs, m_callbacks, kind, m_outstandingRequests, losses, hb>>
    BY <1>2, Zenon DEF LostUserCallback, NextEntry
  <2>2. ASSUME NEW j \in Ids PROVE CountedOff(j)' <=> CountedOff(j)
    BY <2>1, NextEntryStep, Zenon DEF CountedOff
  <2>3. Waiting' = Waiting
    BY <2>1, <2>2, Zenon DEF Waiting
  <2> QED BY <2>1, <2>3, NextEntryStep DEF SameWaiting
<1>3. ASSUME LostUserCallbackReturns PROVE hid \in Ids /\ Settles(hid)
  <2>1. /\ loc = "lostCallback" /\ loc' = "lost" /\ hid' = hid
        /\ m_outstandingRequests' = m_outstandingRequests - 1
        /\ UNCHANGED <<m_bevs, m_callbacks, kind, losses, hb>>
    BY <1>3, Zenon DEF LostUserCallbackReturns, Visited
  <2>2. hid \in Requests(hb) /\ hb \in m_bevs
    BY <2>1, Zenon DEF IndInv, FrameInv, InHandler
  <2>3. hid \in Ids /\ hid \in m_callbacks[hb] /\ hb # NoBev
    BY <2>2, RegisteredFacts, Zenon DEF Requests
  <2>4. ASSUME NEW j \in Ids PROVE CountedOff(j)' <=> CountedOff(j) \/ j = hid
    BY <2>1, <2>3 DEF CountedOff
  <2>5. ~CountedOff(hid)
    BY <2>1, <2>3 DEF CountedOff
  <2>6. hid \in Waiting /\ Waiting' = Waiting \ {hid}
    BY <2>1, <2>2, <2>3, <2>4, <2>5, Zenon DEF Waiting
  <2> QED BY <2>1, <2>3, <2>6 DEF Settles
<1>4. CASE ConnectionLostReturns
  <2>1. /\ UNCHANGED <<m_bevs, m_callbacks, kind, m_outstandingRequests, losses, hid>>
        /\ hid = NoId /\ loc = "listener" /\ loc' = "lost"
    BY <1>4, Zenon DEF ConnectionLostReturns, IndInv, FrameInv, Running
  <2>2. Waiting' = Waiting
    BY <2>1 DEF Waiting, CountedOff
  <2> QED BY <2>1, <2>2, Zenon DEF SameWaiting, CountStep
<1>5. CASE LostNotificationEntry
  <2>1. /\ NextEntry(Magic) /\ hid' = Magic /\ loc = "lost" /\ loc' = "lost"
        /\ m_outstandingRequests' = m_outstandingRequests - 1
        /\ UNCHANGED <<m_bevs, m_callbacks, kind, losses, hb>>
    BY <1>5, Zenon DEF LostNotificationEntry, NextEntry, Visited
  <2>2. ASSUME NEW j \in Ids PROVE CountedOff(j)' <=> CountedOff(j)
    BY <2>1, NextEntryStep DEF CountedOff
  <2>3. Waiting' = Waiting
    BY <2>1, <2>2, Zenon DEF Waiting
  <2> QED BY <2>1, <2>3, NextEntryStep, Zenon DEF Overcounts, CountStep
<1>6. CASE ConnectionGone
  <2> USE <1>6 DEF ConnectionGone
  <2>1. /\ hb \in m_bevs /\ hb \in Bev /\ hb # NoBev /\ hid \in Int /\ hid <= Magic
        /\ m_callbacks[hb] \subseteq Ids \cup {Magic} /\ m_bevs \subseteq Bev
        /\ Magic \in m_callbacks[hb]
    BY SMTT(30) DEF IndInv, FrameInv, MapsInv, InHandler, TypeOK, DataTypes, FrameTypes
  <2>2. hid = Magic /\ \A i \in m_callbacks[hb] : i <= hid
    BY <2>1 DEF Unvisited
  <2>3. /\ hb' = NoBev /\ m_bevs' = m_bevs \ {hb}
        /\ \A c \in Bev \ {hb} : m_callbacks'[c] = m_callbacks[c]
    OBVIOUS
  <2>4. ASSUME NEW j \in Ids
        PROVE  j \in Waiting <=> \E c \in m_bevs \ {hb} : j \in m_callbacks[c]
    <3>1. j \in m_callbacks[hb] => \A c \in m_bevs \ {hb} : j \notin m_callbacks[c]
      BY <2>1, Zenon DEF IndInv, MapsInv
    <3> QED BY <2>1, <2>2, <3>1, Zenon DEF Waiting, CountedOff
  <2>5. Waiting' = Waiting
    <3>1. \A j \in Ids : j \in Waiting' <=> \E c \in m_bevs' : j \in m_callbacks'[c]
      BY Zenon DEF Waiting, CountedOff
    <3>2. \A j \in Ids : j \in Waiting' <=> j \in Waiting
      BY <2>4, <3>1
    <3>3. Waiting' \subseteq Ids /\ Waiting \subseteq Ids
      BY Zenon DEF Waiting
    <3> QED BY <3>2, <3>3, Zenon
  <2>6. \A j \in Waiting : kind'[j] = kind[j]
    <3>1. \A j \in Waiting : j \in Ids /\ j \notin Requests(hb)
      BY <2>1, <2>2, Zenon DEF Waiting, CountedOff, Requests
    <3> QED BY <3>1, Zenon
  <2> QED BY <2>2, <2>5, <2>6 DEF Loses, CountStep
<1>7. CASE \E i \in Ids : SyncCallbackCrashes(i)
  BY <1>7, Zenon DEF SyncCallbackCrashes, Running
<1>8. CASE LostUncaughtThrows
  BY <1>8, Zenon DEF LostUncaughtThrows, Running
<1> QED BY <1>1, <1>2, <1>3, <1>4, <1>5, <1>6, <1>7, <1>8, Zenon DEF Losing, CountStep

\* An invocation in a handler or in user code queues one request under the next
\* id, which the walk cannot have passed, or none.
LEMMA InvokingCounts == ASSUME IndInv, Invoking, Running' PROVE CountStep
<1> USE BoundAssumption DEF BoundAssumption, Ids, Magic, NoId
<1>1. ASSUME NEW k, NEW size, NEW b \in m_bevs, m_nextRequestId < MaxRequests,
             Register(m_nextRequestId, k, b, size), k = "sync" \/ ~TooBusy,
             UNCHANGED <<m_bevs, losses, hb, hid>>,
             (loc = "update" /\ loc' \in {"update", "loop"}) \/ (InUserCode /\ loc' = loc)
      PROVE  Queues(m_nextRequestId)
  <2>1. loc = "lostCallback" => hid < m_nextRequestId
    BY Zenon DEF IndInv, FrameInv, MapsInv, InHandler, TypeOK, DataTypes
  <2>2. (loc' = loc /\ loc # "lost") \/ (~Walking /\ ~Walking')
    BY <1>1, Zenon DEF InUserCode, Walking
  <2> QED BY <1>1, <2>1, <2>2, NextIdIsFresh, RegisterStep, Zenon
<1>2. ASSUME UNCHANGED <<m_bevs, m_callbacks, kind, m_outstandingRequests, losses>>,
             UNCHANGED <<hb, hid>>, loc' = loc \/ (~Walking /\ ~Walking')
      PROVE  SameWaiting
  BY <1>2, Zenon DEF SameWaiting, Waiting, CountedOff, Walking
<1>3. CASE HandlerInvoke
  <2>1. CASE TooBusy
    BY <1>2, <1>3, <2>1, Zenon DEF HandlerInvoke, Walking, CountStep
  <2>2. CASE ~TooBusy
    <3>1. InvokesNow(Head(hTodo), "small")
      BY <1>3, <2>2, Zenon DEF HandlerInvoke, Running
    <3>2. PICK b \in m_bevs : Register(m_nextRequestId, Head(hTodo), b, "small")
      BY <3>1, SelectFacts, Zenon DEF InvokesNow
    <3>3. Queues(m_nextRequestId)
      BY <1>1, <1>3, <3>1, <3>2 DEF HandlerInvoke, InvokesNow, Running
    <3> QED BY <3>3, Zenon DEF CountStep, Queues
  <2> QED BY <2>1, <2>2, Zenon
<1>4. CASE NestedInvoke
  <2>1. CASE InvokeThrows
    BY <1>2, <1>4, <2>1, Zenon DEF NestedInvoke, InvokeThrows, CountStep
  <2>2. ASSUME NEW size \in Sizes, InvokesNow("user", size) PROVE CountStep
    <3>1. PICK b \in m_bevs : Register(m_nextRequestId, "user", b, size)
      BY <2>2, SelectFacts, Zenon DEF InvokesNow
    <3>2. Queues(m_nextRequestId)
      BY <1>1, <1>4, <2>2, <3>1, Zenon DEF NestedInvoke, InvokesNow
    <3> QED BY <3>2, Zenon DEF CountStep, Queues
  <2> QED BY <1>4, <2>1, <2>2, Zenon DEF NestedInvoke
<1>5. CASE NestedSyncInvoke
  <2>1. PICK b \in m_bevs, size \in Sizes : Register(m_nextRequestId, "sync", b, size)
    BY <1>5, Zenon DEF NestedSyncInvoke
  <2>2. Queues(m_nextRequestId)
    BY <1>1, <1>5, Zenon DEF NestedSyncInvoke
  <2> QED BY <2>2, Zenon DEF CountStep, Queues
<1>6. CASE ConnectionActiveReturns \/ NestedDrain
  BY <1>2, <1>6, Zenon DEF ConnectionActiveReturns, NestedDrain, Walking, CountStep
<1> QED BY <1>3, <1>4, <1>5, <1>6, Zenon DEF Invoking

\* Every step of a running client changes the waiting requests by at most one.
LEMMA NextCounts == ASSUME IndInv, [Next]_vars, Running' PROVE CountStep
<1>1. CASE UNCHANGED vars
  BY <1>1, Zenon DEF vars, CountStep, SameWaiting, Waiting, CountedOff
<1> QED BY <1>1, ApplicationCounts, ApiCounts, LoopCounts, ReadingCounts, LosingCounts,
           InvokingCounts, Zenon
           DEF Next

-----------------------------------------------------------------------------
(* The counter and the limit.                                               *)

\* The waiting requests can be counted.
LEMMA WaitingFinite ==
  /\ IsFiniteSet(Waiting) /\ Cardinality(Waiting) \in Nat
  /\ IsFiniteSet(SyncWaiting) /\ Cardinality(SyncWaiting) \in Nat
<1>1. IsFiniteSet(Ids)
  BY FS_Interval, BoundAssumption DEF Ids
<1>2. IsFiniteSet(Waiting) /\ IsFiniteSet(SyncWaiting)
  BY <1>1, FS_Subset, Zenon DEF Waiting, SyncWaiting
<1> QED BY <1>2, FS_CardinalityType, Zenon

\* A step that is counted keeps the counter and the number of waiting requests
\* apart by the losses.
LEMMA CountPreserved ==
  ASSUME IndInv, IndInv', CountStep,
         m_outstandingRequests = Cardinality(Waiting) - losses - (IF hid = Magic THEN 1 ELSE 0)
  PROVE  m_outstandingRequests' =
           Cardinality(Waiting') - losses' - (IF hid' = Magic THEN 1 ELSE 0)
<1> USE WaitingFinite
<1>1. m_outstandingRequests \in Int /\ losses \in Nat
  BY Zenon DEF IndInv, TypeOK, DataTypes
<1>2. ASSUME NEW i \in Ids, Queues(i) PROVE Cardinality(Waiting') = Cardinality(Waiting) + 1
  BY <1>2, FS_AddElement, Zenon DEF Queues
<1>3. ASSUME NEW i \in Ids, Settles(i) PROVE Cardinality(Waiting') = Cardinality(Waiting) - 1
  BY <1>3, FS_RemoveElement, Zenon DEF Settles
<1> QED BY <1>1, <1>2, <1>3 DEF CountStep, SameWaiting, Overcounts, Loses, Queues, Settles

\* m_outstandingRequests falls behind the number of waiting requests by exactly
\* one for every connection lost, in every execution.
THEOREM CountDrifts == Spec => []CountDriftsByLosses
<1>1. Init => CountDriftsByLosses
  <2> SUFFICES ASSUME Init PROVE CountDriftsByLosses
    OBVIOUS
  <2>1. Waiting = {}
    BY Zenon DEF Init, Waiting
  <2> QED BY <2>1, FS_EmptySet, BoundAssumption DEF Init, CountDriftsByLosses, Magic, NoId
<1>2. IndInv /\ IndInv' /\ CountDriftsByLosses /\ [Next]_vars => CountDriftsByLosses'
  BY NextCounts, NeverRunsAgain, CountPreserved, Zenon DEF CountDriftsByLosses
<1> QED BY <1>1, <1>2, Invariance, PTL DEF Spec

\* drain() returns true with no more requests waiting than connections were lost.
THEOREM DrainTellsOfLosses == Spec => DrainedUpToLosses
<1> DEFINE Up == ret' = "drained" /\ ret # "drained" => Cardinality(Waiting) <= losses
<1>1. IndInv /\ CountDriftsByLosses /\ [Next]_vars => [Up]_vars
  <2> SUFFICES ASSUME IndInv, CountDriftsByLosses, Next, ret' = "drained", ret # "drained"
               PROVE  Cardinality(Waiting) <= losses
    OBVIOUS
  <2>1. DrainResult = "drained" /\ loc \in {"app", "loop"}
    <3>1. CASE Application
      BY <3>1, Zenon
         DEF Application, Run, NoConnections, Drain, Invoke, SyncInvoke, Calls, CreateConnection,
             CreatePendingConnection, SetClientAffinity
    <3>2. CASE ApiSteps
      BY <3>2, Zenon
         DEF ApiSteps, LoopReturns, LoopEnds, Return, EnterLoop, InvokeEntry, InvocationDone,
             InvokeQueues, InvokeBlocks, InvokeDividesByZero, IndInv, TypeOK, FrameTypes,
             Responses
    <3> QED BY <3>1, <3>2, HandlersKeepApi, Zenon DEF Next
  <2>2. m_outstandingRequests = 0 /\ hid = NoId /\ Running
    BY <2>1, Zenon DEF DrainResult, IndInv, FrameInv, Running
  <2>3. hid # Magic
    BY <2>2, BoundAssumption DEF Magic, NoId
  <2> QED BY <2>2, <2>3, WaitingFinite DEF CountDriftsByLosses, IndInv, TypeOK, DataTypes
<1>2. Spec => [][Up]_vars
  BY <1>1, Invariance, CountDrifts, PTL DEF Spec
<1> QED BY <1>2, Zenon DEF DrainedUpToLosses

\* An invocation becomes admitted only below the limit.
LEMMA AdmittedBelowLimit ==
  ASSUME IndInv, [Next]_vars, Admitted', ~Admitted PROVE ~TooBusy
<1> USE DEF Admitted
<1>1. CASE Application
  BY <1>1, ZenonT(30) DEF Application, Run, NoConnections, Drain, Invoke, SyncInvoke, Calls,
     CreateConnection, CreatePendingConnection, SetClientAffinity, IndInv, FrameInv
<1>2. CASE ApiSteps
  BY <1>2, Zenon
     DEF ApiSteps, LoopReturns, Return, InvokeEntry, InvocationDone, InvokeQueues, InvokeBlocks,
         InvokeDividesByZero
<1>3. CASE Connecting \/ Network \/ Reading \/ Losing \/ Invoking
  BY <1>3, HandlersKeepApi, Zenon
<1>4. CASE UNCHANGED vars
  BY <1>4, Zenon DEF vars
<1> QED BY <1>1, <1>2, <1>3, <1>4, Zenon DEF Next

\* A step that is counted changes the waiting synchronous requests no more than
\* the counter, unless a request was queued below or up to the limit.
LEMMA SyncCounts ==
  ASSUME IndInv, CountStep
  PROVE  \/ /\ Cardinality(SyncWaiting') = Cardinality(SyncWaiting)
            /\ m_outstandingRequests' <= m_outstandingRequests
         \/ /\ Cardinality(SyncWaiting') = Cardinality(SyncWaiting)
            /\ m_outstandingRequests' = m_outstandingRequests + 1
            /\ ~TooBusy \/ (Admitted /\ ~Admitted')
         \/ /\ Cardinality(SyncWaiting') = Cardinality(SyncWaiting) + 1
            /\ m_outstandingRequests' = m_outstandingRequests + 1
         \/ /\ Cardinality(SyncWaiting') = Cardinality(SyncWaiting) - 1
            /\ m_outstandingRequests' = m_outstandingRequests - 1
<1>0. m_outstandingRequests \in Int
  BY Zenon DEF IndInv, TypeOK, DataTypes
<1>1. ASSUME Waiting' = Waiting, \A j \in Waiting : kind'[j] = kind[j]
      PROVE  SyncWaiting' = SyncWaiting
  BY <1>1, Zenon DEF SyncWaiting
<1>2. ASSUME NEW i \in Ids, Queues(i)
      PROVE  IF kind'[i] = "sync"
             THEN Cardinality(SyncWaiting') = Cardinality(SyncWaiting) + 1
             ELSE SyncWaiting' = SyncWaiting
  <2>1. CASE kind'[i] = "sync"
    <3>1. SyncWaiting' = SyncWaiting \cup {i} /\ i \notin SyncWaiting
      BY <1>2, <2>1, Zenon DEF Queues, SyncWaiting
    <3> QED BY <2>1, <3>1, WaitingFinite, FS_AddElement, Zenon
  <2>2. CASE kind'[i] # "sync"
    BY <1>2, <2>2, Zenon DEF Queues, SyncWaiting
  <2> QED BY <2>1, <2>2, Zenon
<1>3. ASSUME NEW i \in Ids, Settles(i)
      PROVE  \/ Cardinality(SyncWaiting') = Cardinality(SyncWaiting)
             \/ Cardinality(SyncWaiting') = Cardinality(SyncWaiting) - 1
  <2>1. SyncWaiting' = SyncWaiting \ {i}
    BY <1>3, Zenon DEF Settles, SyncWaiting
  <2>2. CASE i \in SyncWaiting
    BY <2>1, WaitingFinite, FS_RemoveElement, Zenon
  <2>3. CASE i \notin SyncWaiting
    <3>1. SyncWaiting \ {i} = SyncWaiting
      BY <2>3, Zenon
    <3> QED BY <2>1, <3>1, Zenon
  <2> QED BY <2>2, <2>3, Zenon
<1>4. CASE SameWaiting \/ Overcounts \/ Loses
  BY <1>0, <1>1, <1>4 DEF SameWaiting, Overcounts, Loses
<1>5. ASSUME NEW i \in Ids, Queues(i)
      PROVE  \/ /\ Cardinality(SyncWaiting') = Cardinality(SyncWaiting)
                /\ m_outstandingRequests' = m_outstandingRequests + 1
                /\ ~TooBusy \/ (Admitted /\ ~Admitted')
             \/ /\ Cardinality(SyncWaiting') = Cardinality(SyncWaiting) + 1
                /\ m_outstandingRequests' = m_outstandingRequests + 1
  BY <1>2, <1>5, Zenon DEF Queues
<1>6. ASSUME NEW i \in Ids, Settles(i)
      PROVE  /\ m_outstandingRequests' = m_outstandingRequests - 1
             /\ m_outstandingRequests' <= m_outstandingRequests
  BY <1>0, <1>6 DEF Settles
<1> QED BY <1>3, <1>4, <1>5, <1>6, Zenon DEF CountStep

\* No more than the limit and one request wait, synchronous ones aside, although
\* an invocation that waited does not look at the limit again.
THEOREM LimitKept == Spec => []LimitHolds
<1>1. Init => LimitInv
  BY WaitingFinite, BoundAssumption DEF Init, LimitInv
<1>2. IndInv /\ IndInv' /\ LimitInv /\ [Next]_vars => LimitInv'
  <2> SUFFICES ASSUME IndInv, IndInv', LimitInv, [Next]_vars, Running' PROVE LimitInv'
    BY Zenon DEF LimitInv
  <2> USE BoundAssumption DEF BoundAssumption
  <2>1. Running /\ CountStep
    BY NextCounts, NeverRunsAgain, Zenon
  <2>2. /\ m_outstandingRequests \in Int /\ m_outstandingRequests' \in Int
        /\ Cardinality(SyncWaiting) \in Nat /\ Cardinality(SyncWaiting') \in Nat
    <3>1. IsFiniteSet(Ids)
      BY FS_Interval DEF Ids
    <3>2. SyncWaiting' \subseteq Ids
      BY Zenon DEF SyncWaiting, Waiting
    <3>3. Cardinality(SyncWaiting') \in Nat
      BY <3>1, <3>2, FS_Subset, FS_CardinalityType, Zenon
    <3> QED BY <3>3, WaitingFinite, Zenon DEF IndInv, TypeOK, DataTypes
  <2>3. Admitted' /\ ~Admitted => m_outstandingRequests < MaxOutstanding
    BY <2>2, AdmittedBelowLimit DEF TooBusy
  <2> QED BY <2>1, <2>2, <2>3, SyncCounts DEF LimitInv, TooBusy
<1>3. IndInv /\ LimitInv => LimitHolds
  BY BoundAssumption, WaitingFinite DEF LimitInv, LimitHolds, IndInv, TypeOK, DataTypes
<1> QED BY <1>1, <1>2, <1>3, Invariance, PTL DEF Spec
=============================================================================
