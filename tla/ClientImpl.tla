----------------------------- MODULE ClientImpl -----------------------------
(***************************************************************************)
(* The request engine of the VoltDB client: src/src/ClientImpl.cpp.        *)
(*                                                                         *)
(* The client is single threaded.  The application calls the API; the API  *)
(* calls libevent's loop; the loop calls the handlers of ClientImpl; the   *)
(* handlers call procedure callbacks and the status listener, which may    *)
(* invoke procedures again.  The variable loc says which of these frames   *)
(* is running.  Whatever runs without giving control to user code, to      *)
(* libevent or back to the caller is one action.                           *)
(*                                                                         *)
(* m_callbacks, m_contexts and m_bevs gain and lose a connection in the    *)
(* same handler: the key set of the two maps is m_bevs here.  The          *)
(* round-robin index m_nextConnectionIndex is abstracted to a choice among *)
(* the connections the code would accept.                                  *)
(***************************************************************************)
EXTENDS Integers, Sequences, FiniteSets

CONSTANTS
  Bev,               \* bufferevent addresses (connections)
  NoBev,             \* NULL
  Cluster,           \* identities (start time, leader) a server may report
  NoCluster,         \* m_instanceIdIsSet = false
  MaxOutstanding,    \* m_maxOutstandingRequests
  MaxRequests,       \* bound: request ids
  MaxUserRequests,   \* bound: the application invokes only below this id
  MaxLosses,         \* bound: connections lost
  UserOutcomes,      \* what a procedure callback does: "true" "false" "throw"
  ListenerOutcomes,  \* the same for the status listener; {} is no listener
  Sizes,             \* request sizes: "small", "large" (> 262144 bytes)
  ApiCalls           \* the API functions the application uses

Ids   == 0 .. MaxRequests - 1
Magic == MaxRequests          \* VOLT_NOTIFICATION_MAGIC_NUMBER: above every id
NoId  == -1

ASSUME BevAssumption == NoBev \notin Bev
ASSUME ClusterAssumption == NoCluster \notin Cluster
ASSUME BoundAssumption ==
  /\ MaxOutstanding \in Nat
  /\ MaxRequests \in Nat
  /\ MaxUserRequests \in Nat
  /\ MaxLosses \in Nat
ASSUME OutcomeAssumption ==
  /\ UserOutcomes \subseteq {"true", "false", "throw"}
  /\ ListenerOutcomes \subseteq {"true", "false", "throw"}
ASSUME SizeAssumption == Sizes \subseteq {"small", "large"}

VARIABLES
  m_bevs, m_callbacks, m_backpressuredBevs, m_outstandingRequests,
  m_nextRequestId, m_ignoreBackpressure, m_invocationBlockedOnBackpressure,
  m_isDraining, m_useClientAffinity, m_isUpdating, m_isElastic,
  m_instance,        \* m_instanceIdIsSet, m_clusterStartTime, m_leaderAddress
  m_pendingConnectionSize,
  kind,              \* which ProcedureCallback class a request id carries
  wire,              \* where a request is: an output buffer, or sent
  subscribed,        \* connections whose server pushes topology changes
  loc,               \* the running frame
  event_break,       \* libevent: event_base_loopbreak was called
  exits,             \* libevent: event_base_loopexit events not yet fired
  api,               \* the API function on the application's stack
  apiId, apiTodo,    \* its request id; the invocations it still has to make
  attempt,           \* createConnection: state of its PendingConnection
  syncResponse,      \* synchronous invoke: the response on its stack
  ret,               \* what the last API function returned
  hb, hid, hBreak,   \* handler: connection, current callback, breakEventLoop
  hInput, hLost,     \* responses in the input buffer; the connection is lost
  hTodo,             \* what the handler still has to invoke or notify
  cluster,           \* history: the cluster each connection belongs to
  calls,             \* history: how often each request's callback was called
  losses             \* history: connections lost

conVars  == <<m_bevs, m_instance, m_pendingConnectionSize, cluster, losses>>
reqVars  == <<m_callbacks, m_outstandingRequests, kind, wire>>
bpVars   == <<m_backpressuredBevs, m_ignoreBackpressure,
              m_invocationBlockedOnBackpressure>>
distVars == <<m_useClientAffinity, m_isUpdating, m_isElastic, subscribed>>
frameVars == <<api, apiId, apiTodo, attempt, syncResponse>>
hVars    == <<hb, hid, hBreak, hInput, hLost, hTodo>>
loopVars == <<event_break, exits>>
vars == <<conVars, reqVars, m_nextRequestId, bpVars, distVars, frameVars, ret,
          m_isDraining, hVars, loopVars, loc, calls>>

Kinds == {"none", "user", "sync", "proc", "topo", "sub"}
Wires == {"none", "small", "large", "server"}
Locs  == {"app", "entry", "invoke", "loop", "read", "callback", "listener",
          "lost", "lostCallback", "update", "crashed", "escaped"}
Apis  == {"none", "run", "runOnce", "drain", "sync", "async", "affinity",
          "connect1", "connect2"}
Responses == {"none", "response", "lost", "foreign"}
Attempts == {"none", "connecting", "connected", "failed", "done"}

HasListener == ListenerOutcomes # {}

Requests(b) == m_callbacks[b] \ {Magic}

Init ==
  /\ m_bevs = {} /\ m_instance = NoCluster /\ m_pendingConnectionSize = 0
  /\ cluster = [b \in Bev |-> NoCluster] /\ losses = 0
  /\ m_callbacks = [b \in Bev |-> {}] /\ m_outstandingRequests = 0
  /\ kind = [i \in Ids |-> "none"] /\ wire = [i \in Ids |-> "none"]
  /\ calls = [i \in Ids |-> 0] /\ m_nextRequestId = 0
  /\ m_backpressuredBevs = {} /\ m_ignoreBackpressure = FALSE
  /\ m_invocationBlockedOnBackpressure = FALSE
  /\ m_useClientAffinity = FALSE /\ m_isUpdating = FALSE /\ m_isElastic = TRUE
  /\ subscribed = {}
  /\ api = "none" /\ apiId = NoId /\ apiTodo = <<>> /\ attempt = "none"
  /\ syncResponse = "none" /\ ret = "none" /\ m_isDraining = FALSE
  /\ hb = NoBev /\ hid = NoId /\ hBreak = FALSE /\ hLost = FALSE
  /\ hInput = {} /\ hTodo = <<>> /\ loc = "app" /\ event_break = FALSE /\ exits = 0

-----------------------------------------------------------------------------
(* Entering and leaving the API and the event loop.                         *)

Calls(f) == loc = "app" /\ f \in ApiCalls

\* event_base_loop clears event_break on entry; loopexit events stay queued.
EnterLoop == loc' = "loop" /\ event_break' = FALSE

Return(r) ==
  /\ loc' = "app" /\ api' = "none" /\ ret' = r /\ apiId' = NoId
  /\ apiTodo' = <<>> /\ attempt' = "none" /\ syncResponse' = "none"
  /\ event_break' = FALSE

\* run() and runOnce() refuse to enter the loop with nothing to wait for.
HasWork == m_bevs # {} \/ m_pendingConnectionSize > 0

Run(f) ==
  /\ Calls(f) /\ HasWork
  /\ api' = f /\ ret' = "none" /\ EnterLoop
  /\ UNCHANGED <<conVars, reqVars, m_nextRequestId, bpVars, distVars, apiId,
                 apiTodo, attempt, syncResponse, m_isDraining, hVars, exits,
                 calls>>

\* NoConnectionsException; a synchronous invoke needs an established connection.
NoConnections(f) ==
  /\ Calls(f) /\ f \in {"run", "runOnce", "sync"}
  /\ m_bevs = {} /\ (f = "sync" \/ m_pendingConnectionSize = 0)
  /\ ret' = "threw"
  /\ UNCHANGED <<conVars, reqVars, m_nextRequestId, bpVars, distVars, frameVars,
                 m_isDraining, hVars, loopVars, loc, calls>>

\* Fault: drain() reports success whatever made the loop return.
DrainResult_Always == "drained"

DrainResult == IF m_outstandingRequests = 0 THEN "drained" ELSE "notDrained"

\* m_isDraining is never cleared again.
Drain ==
  /\ Calls("drain")
  /\ \/ /\ m_outstandingRequests > 0 /\ HasWork
        /\ m_isDraining' = TRUE /\ api' = "drain" /\ ret' = "none" /\ EnterLoop
     \/ /\ m_outstandingRequests <= 0
        /\ ret' = DrainResult
        /\ UNCHANGED <<m_isDraining, api, loc, event_break>>
  /\ UNCHANGED <<conVars, reqVars, m_nextRequestId, bpVars, distVars, apiId,
                 apiTodo, attempt, syncResponse, hVars, exits, calls>>

\* The loop ends after loopbreak, when a loopexit event fires, and, with
\* EVLOOP_NONBLOCK, when nothing is ready.
LoopEnds ==
  /\ loc = "loop"
  /\ \/ (event_break \/ api = "runOnce") /\ exits' = exits
     \/ ~event_break /\ exits > 0 /\ exits' = exits - 1

\* What each API function does when event_base_dispatch returns.  A
\* synchronous invoke returns whatever is in its response variable.
LoopReturns ==
  /\ LoopEnds
  /\ \/ api \in {"run", "runOnce"} /\ Return("returned")
     \/ api = "drain" /\ Return(DrainResult)
     \/ api = "sync"
        /\ Return(IF syncResponse = "none" THEN "unanswered" ELSE syncResponse)
     \/ /\ api \in {"async", "affinity"} /\ loc' = "invoke"
        /\ event_break' = FALSE
        /\ UNCHANGED <<frameVars, ret>>
     \/ /\ api = "connect1" /\ attempt # "failed"
        /\ api' = "connect2" /\ EnterLoop
        /\ UNCHANGED <<apiId, apiTodo, attempt, syncResponse, ret>>
     \/ api = "connect1" /\ attempt = "failed" /\ Return("threw")
     \/ api = "connect2"
        /\ Return(CASE attempt = "done"   -> "connected"
                    [] attempt = "failed" -> "threw"
                    [] OTHER              -> "gaveUp")
  /\ UNCHANGED <<conVars, reqVars, m_nextRequestId, bpVars, distVars,
                 m_isDraining, hVars, calls>>

-----------------------------------------------------------------------------
(* invoke(): choosing a connection and queueing the request.                *)

\* Fault: marked connections are not skipped.
Acceptable_Marked ==
  IF m_ignoreBackpressure \/ m_outstandingRequests <= MaxOutstanding THEN m_bevs ELSE {}

\* The connections the selection loop accepts without asking the listener.
Acceptable ==
  IF m_ignoreBackpressure THEN m_bevs
  ELSE IF m_outstandingRequests <= MaxOutstanding
       THEN m_bevs \ m_backpressuredBevs
       ELSE {}

\* Fault: a host's stale bufferevent is used without looking it up.
Routed_Stale(S) == IF m_useClientAffinity /\ ~m_isUpdating THEN Bev ELSE S

\* routeProcedure may send the request to any connection instead: which one
\* depends on the topology tables; a lost one is not in m_callbacks.
Routed(S) == IF m_useClientAffinity /\ ~m_isUpdating THEN m_bevs ELSE S

\* Fault: the request is not counted.
Register_Uncounted(id, k, b, size) ==
  /\ m_callbacks' = [m_callbacks EXCEPT ![b] = @ \cup {id}]
  /\ kind' = [kind EXCEPT ![id] = k]
  /\ wire' = [wire EXCEPT ![id] = size]
  /\ UNCHANGED m_outstandingRequests

Register(id, k, b, size) ==
  /\ m_callbacks' = [m_callbacks EXCEPT ![b] = @ \cup {id}]
  /\ kind' = [kind EXCEPT ![id] = k]
  /\ wire' = [wire EXCEPT ![id] = size]
  /\ m_outstandingRequests' = m_outstandingRequests + 1

\* evbuffer_get_length(output) > 262144.
OverLimit(b) == \E i \in Requests(b) : wire[i] = "large"

\* Fault: the connection is marked whatever its output buffer holds.
Queue_AlwaysMarks(id, k, S, size) ==
  \E b \in Routed(S) : /\ Register(id, k, b, size)
                       /\ m_backpressuredBevs' = m_backpressuredBevs \cup {b}

Queue(id, k, S, size) ==
  \E b \in Routed(S) :
    /\ Register(id, k, b, size)
    /\ m_backpressuredBevs' = IF OverLimit(b) \/ size = "large"
                              THEN m_backpressuredBevs \cup {b}
                              ELSE m_backpressuredBevs

SizesOf(k) == IF k = "user" THEN Sizes ELSE {"small"}

\* Fault: off by one.
TooBusy_OffByOne == m_outstandingRequests > MaxOutstanding

TooBusy == m_outstandingRequests >= MaxOutstanding
LegacyMode == ~m_isUpdating /\ ~m_isElastic

Invoke ==
  /\ Calls("async") /\ m_nextRequestId < MaxUserRequests
  /\ api' = "async" /\ apiTodo' = <<"user">> /\ ret' = "none" /\ loc' = "entry"
  /\ UNCHANGED <<conVars, reqVars, m_nextRequestId, bpVars, distVars, apiId,
                 attempt, syncResponse, m_isDraining, hVars, loopVars, calls>>

\* The next invocation of setClientAffinity, or the end of the API function.
InvocationDone ==
  \/ /\ Len(apiTodo) > 1 /\ apiTodo' = Tail(apiTodo) /\ loc' = "entry"
     /\ apiId' = NoId
     /\ UNCHANGED <<api, attempt, syncResponse, ret, event_break,
                    m_useClientAffinity>>
  \/ /\ Len(apiTodo) = 1 /\ Return("done")
     /\ m_useClientAffinity' = (m_useClientAffinity \/ api = "affinity")

\* The checks at the top of invoke: abandon, throw, or take a request id.
InvokeEntry ==
  /\ loc = "entry"
  /\ \/ /\ m_bevs # {} /\ TooBusy
        /\ InvocationDone
        /\ UNCHANGED m_nextRequestId
     \/ /\ m_bevs = {} \/ (~TooBusy /\ LegacyMode)
        /\ Return("threw")
        /\ UNCHANGED <<m_nextRequestId, m_useClientAffinity>>
     \/ /\ m_bevs # {} /\ ~TooBusy /\ ~LegacyMode
        /\ m_nextRequestId < MaxRequests
        /\ apiId' = m_nextRequestId /\ m_nextRequestId' = m_nextRequestId + 1
        /\ loc' = "invoke"
        /\ UNCHANGED <<api, apiTodo, attempt, syncResponse, ret, event_break,
                       m_useClientAffinity>>
  /\ UNCHANGED <<conVars, reqVars, bpVars, m_isUpdating, m_isElastic,
                 subscribed, m_isDraining, hVars, exits, calls>>

\* An acceptable connection was found, or the listener said to queue anyway.
Select(id, k, size) ==
  \/ Acceptable # {} /\ Queue(id, k, Acceptable, size)
  \/ Acceptable = {} /\ "true" \in ListenerOutcomes /\ Queue(id, k, m_bevs, size)

\* The listener is absent, says to wait, or throws; if it throws,
\* m_ignoreBackpressure is not put back.
MustWait ==
  /\ Acceptable = {} /\ ~m_ignoreBackpressure
  /\ \/ ~HasListener /\ m_ignoreBackpressure' = FALSE
     \/ \E l \in ListenerOutcomes \ {"true"} : m_ignoreBackpressure' = (l = "throw")

InvokeQueues ==
  /\ loc = "invoke" /\ m_bevs # {}
  /\ \E size \in SizesOf(Head(apiTodo)) : Select(apiId, Head(apiTodo), size)
  /\ InvocationDone
  /\ UNCHANGED <<conVars, m_nextRequestId, m_ignoreBackpressure,
                 m_invocationBlockedOnBackpressure, m_isUpdating, m_isElastic,
                 subscribed, m_isDraining, hVars, exits, calls>>

InvokeBlocks ==
  /\ loc = "invoke" /\ MustWait
  /\ m_invocationBlockedOnBackpressure' = TRUE
  /\ EnterLoop
  /\ UNCHANGED <<conVars, reqVars, m_nextRequestId, m_backpressuredBevs,
                 distVars, frameVars, ret, m_isDraining, hVars, exits, calls>>

\* m_bevs[++m_nextConnectionIndex % m_bevs.size()] with m_bevs empty: every
\* connection was lost while the invocation was blocked.
InvokeDividesByZero ==
  /\ loc = "invoke" /\ m_bevs = {}
  /\ m_ignoreBackpressure \/ "true" \in ListenerOutcomes
  /\ loc' = "crashed"
  /\ UNCHANGED <<conVars, reqVars, m_nextRequestId, bpVars, distVars, frameVars,
                 ret, m_isDraining, hVars, loopVars, calls>>

\* The synchronous invoke checks neither the limit nor backpressure.
SyncInvoke ==
  /\ Calls("sync") /\ m_nextRequestId < MaxUserRequests
  /\ m_nextRequestId < MaxRequests
  /\ \E b \in m_bevs, size \in Sizes : Register(m_nextRequestId, "sync", b, size)
  /\ apiId' = m_nextRequestId /\ m_nextRequestId' = m_nextRequestId + 1
  /\ api' = "sync" /\ ret' = "none" /\ EnterLoop
  /\ UNCHANGED <<conVars, bpVars, distVars, apiTodo, attempt, syncResponse,
                 m_isDraining, hVars, exits, calls>>

\* setClientAffinity: updateHashinator and the subscription, then the flag.
SetClientAffinity(enable) ==
  /\ Calls("affinity")
  /\ \/ /\ enable /\ ~m_useClientAffinity /\ m_bevs # {}
        /\ m_nextRequestId < MaxUserRequests
        /\ m_isUpdating' = TRUE /\ api' = "affinity"
        /\ apiTodo' = <<"proc", "topo", "sub">> /\ loc' = "entry" /\ ret' = "none"
        /\ UNCHANGED m_useClientAffinity
     \/ /\ ~enable \/ m_useClientAffinity \/ m_bevs = {}
        /\ m_useClientAffinity' = enable /\ ret' = "done"
        /\ UNCHANGED <<m_isUpdating, api, apiTodo, loc>>
  /\ UNCHANGED <<conVars, reqVars, m_nextRequestId, bpVars, m_isElastic,
                 subscribed, apiId, attempt, syncResponse,
                 m_isDraining, hVars, loopVars, calls>>

-----------------------------------------------------------------------------
(* Establishing connections.  The reconnect timers are left out: a pending  *)
(* connection may complete whenever the loop runs.                          *)

\* Every connection, established or pending, has an address of its own.
AddressesInUse == Cardinality(m_bevs) + m_pendingConnectionSize

MaxExits == 2   \* bound: loopexit events left over from earlier attempts

CreateConnection ==
  /\ Calls("connect") /\ AddressesInUse < Cardinality(Bev) /\ exits < MaxExits
  /\ api' = "connect1" /\ attempt' = "connecting" /\ ret' = "none" /\ EnterLoop
  /\ UNCHANGED <<conVars, reqVars, m_nextRequestId, bpVars, distVars, apiId,
                 apiTodo, syncResponse, m_isDraining, hVars, exits, calls>>

CreatePendingConnection ==
  /\ Calls("pending") /\ AddressesInUse < Cardinality(Bev)
  /\ m_pendingConnectionSize' = m_pendingConnectionSize + 1 /\ ret' = "done"
  /\ UNCHANGED <<m_bevs, m_instance, cluster, losses, reqVars, m_nextRequestId,
                 bpVars, distVars, frameVars, m_isDraining, hVars, loopVars,
                 loc, calls>>

\* libevent runs the next handler unless the loop was broken.
InLoop == loc = "loop" /\ ~event_break

\* authenticationEventCallback for the connection createConnection waits for:
\* connected (the authentication request is sent), or an error.
AuthenticationEvent(result) ==
  /\ InLoop
  /\ \/ attempt = "connecting" /\ result \in {"connected", "failed"}
     \/ attempt = "connected" /\ result = "failed"
  /\ attempt' = result /\ exits' = exits + 1
  /\ UNCHANGED <<conVars, reqVars, m_nextRequestId, bpVars, distVars, api,
                 apiId, apiTodo, syncResponse, ret, m_isDraining, hVars,
                 event_break, loc, calls>>

\* A login response arrived for createConnection's connection or a pending one.
LoginCompletes ==
  \/ /\ attempt = "connected" /\ attempt' = "done" /\ exits' = exits + 1
     /\ UNCHANGED m_pendingConnectionSize
  \/ /\ m_pendingConnectionSize > 0
     /\ m_pendingConnectionSize' = m_pendingConnectionSize - 1
     /\ UNCHANGED <<attempt, exits>>

\* Fault: the cluster a server reports is not compared with the others'.
SameInstance_Unchecked(c) == TRUE

SameInstance(c) == m_instance \in {NoCluster, c}

FinalizeAuthentication(b, c) ==
  /\ InLoop /\ b \notin m_bevs /\ SameInstance(c)
  /\ LoginCompletes
  /\ m_instance' = c /\ m_bevs' = m_bevs \cup {b}
  /\ cluster' = [cluster EXCEPT ![b] = c]
  /\ m_callbacks' = [m_callbacks EXCEPT ![b] = {Magic}]
  /\ m_isUpdating' = (m_isUpdating \/ m_useClientAffinity)
  /\ hTodo' = (IF m_useClientAffinity THEN <<"proc", "topo", "sub">> ELSE <<>>)
              \o (IF HasListener THEN <<"active">> ELSE <<>>)
  /\ loc' = IF hTodo' = <<>> THEN "loop" ELSE "update"
  /\ UNCHANGED <<losses, m_outstandingRequests, kind, wire, m_nextRequestId,
                 bpVars, m_useClientAffinity, m_isElastic, subscribed, api,
                 apiId, apiTodo, syncResponse, ret, m_isDraining, hb, hid,
                 hBreak, hInput, hLost, event_break, calls>>

\* ClusterInstanceMismatchException leaves the handler through libevent, whose
\* loop can then not be entered again.
FinalizeMismatch ==
  /\ InLoop /\ \E c \in Cluster : ~SameInstance(c)
  /\ attempt = "connected" \/ m_pendingConnectionSize > 0
  /\ loc' = "escaped"
  /\ UNCHANGED <<conVars, reqVars, m_nextRequestId, bpVars, distVars, frameVars,
                 ret, m_isDraining, hVars, loopVars, calls>>

-----------------------------------------------------------------------------
(* Writing: libevent sends part of an output buffer and, when what is left  *)
(* is below the low watermark (no large request), calls the write callback. *)
(* The bytes leave in order; the model lets any of the requests leave.      *)

\* Fault: the loop is not broken for the invocation that waits.
WriteDone_NoBreak(b) ==
  /\ m_backpressuredBevs' = m_backpressuredBevs \ {b}
  /\ m_invocationBlockedOnBackpressure' = FALSE
  /\ event_break' = FALSE

WriteDone(b) ==
  /\ m_backpressuredBevs' = m_backpressuredBevs \ {b}
  /\ m_invocationBlockedOnBackpressure' = FALSE
  /\ event_break' = m_invocationBlockedOnBackpressure

RegularWriteCallback(b) ==
  /\ InLoop /\ b \in m_bevs
  /\ \E sent \in SUBSET {i \in Requests(b) : wire[i] \in {"small", "large"}} :
       /\ sent # {}
       /\ wire' = [i \in Ids |-> IF i \in sent THEN "server" ELSE wire[i]]
       /\ subscribed' = IF \E i \in sent : kind[i] = "sub"
                        THEN subscribed \cup {b} ELSE subscribed
       /\ IF \E i \in Requests(b) \ sent : wire[i] = "large"
          THEN UNCHANGED <<m_backpressuredBevs, event_break,
                           m_invocationBlockedOnBackpressure>>
          ELSE WriteDone(b)
  /\ UNCHANGED <<conVars, m_callbacks, m_outstandingRequests, kind,
                 m_nextRequestId, m_ignoreBackpressure, m_useClientAffinity,
                 m_isUpdating, m_isElastic, frameVars, ret, m_isDraining, hVars,
                 exits, loc, calls>>

-----------------------------------------------------------------------------
(* Reading: the server has answered some of the requests it was sent, in    *)
(* any order, and perhaps pushed a topology notification.                   *)

Answerable(b) == {i \in Requests(b) : wire[i] = "server"}
                 \cup (IF b \in subscribed THEN {Magic} ELSE {})

StartReading(b, batch, lost) ==
  /\ loc' = "read" /\ hb' = b /\ hInput' = batch /\ hLost' = lost
  /\ UNCHANGED <<conVars, reqVars, m_nextRequestId, bpVars, distVars, frameVars,
                 ret, m_isDraining, hid, hBreak, hTodo, loopVars, calls>>

RegularReadCallback(b) ==
  /\ InLoop /\ b \in m_bevs
  /\ \E batch \in SUBSET Answerable(b) : batch # {} /\ StartReading(b, batch, FALSE)

\* An error or EOF: what is in the input buffer is read first.
RegularEventCallback(b) ==
  /\ InLoop /\ b \in m_bevs /\ losses < MaxLosses
  /\ \E batch \in SUBSET Answerable(b) : StartReading(b, batch, TRUE)

\* Fault: the last response of a drain does not break the loop.
Breaks_NotDraining(break) == hBreak \/ break

Breaks(break) == hBreak \/ break \/ (m_isDraining /\ m_outstandingRequests' = 0)

\* The callback of request i has returned or thrown: it is forgotten.
Answered(i, break, ignore) ==
  /\ m_callbacks' = [m_callbacks EXCEPT ![hb] = @ \ {i}]
  /\ m_outstandingRequests' = m_outstandingRequests - 1
  /\ kind' = [kind EXCEPT ![i] = "none"] /\ wire' = [wire EXCEPT ![i] = "none"]
  /\ hInput' = hInput \ {i}
  /\ hBreak' = Breaks(break)
  /\ m_ignoreBackpressure' = ignore
  /\ UNCHANGED <<conVars, m_nextRequestId, m_backpressuredBevs,
                 m_invocationBlockedOnBackpressure, m_useClientAffinity,
                 subscribed, api, apiId, apiTodo, attempt, ret, m_isDraining,
                 hb, hLost, hTodo, loopVars>>

Forgets(i, break, ignore) ==
  Answered(i, break, ignore) /\ loc' = "read" /\ hid' = NoId

UserCallback(i) ==
  /\ loc = "read" /\ i \in hInput \ {Magic} /\ kind[i] = "user"
  /\ loc' = "callback" /\ hid' = i /\ m_ignoreBackpressure' = TRUE
  /\ calls' = [calls EXCEPT ![i] = @ + 1]
  /\ UNCHANGED <<conVars, reqVars, m_nextRequestId, m_backpressuredBevs,
                 m_invocationBlockedOnBackpressure, distVars, frameVars, ret,
                 m_isDraining, hb, hBreak, hInput, hLost, hTodo, loopVars>>

\* What a callback that throws does to breakEventLoop and m_ignoreBackpressure:
\* it is reported to the listener, and the flag is put back only by the calls that
\* return.
Caught(break, ignore) ==
  IF HasListener THEN \E l \in ListenerOutcomes : break = (l = "true") /\ ignore = (l = "throw")
  ELSE ~break /\ ignore

UserCallbackReturns ==
  /\ loc = "callback"
  /\ \/ \E o \in UserOutcomes \ {"throw"} : Forgets(hid, o = "true", FALSE)
     \/ /\ "throw" \in UserOutcomes
        /\ \E break, ignore \in BOOLEAN : Caught(break, ignore) /\ Forgets(hid, break, ignore)
  /\ UNCHANGED <<m_isUpdating, m_isElastic, syncResponse, calls>>

\* SyncCallback writes through a pointer into the frame of its invoke.  If that
\* frame is gone the write may land in the frame of a later synchronous invoke.
StoreResponse(i, r) ==
  syncResponse' \in IF api = "sync" /\ apiId = i THEN {r}
                    ELSE {syncResponse} \cup (IF api = "sync" THEN {"foreign"}
                                                              ELSE {})

SyncCallback(i) ==
  /\ loc = "read" /\ i \in hInput \ {Magic} /\ kind[i] = "sync"
  /\ Forgets(i, TRUE, FALSE) /\ StoreResponse(i, "response")
  /\ calls' = [calls EXCEPT ![i] = @ + 1]
  /\ UNCHANGED <<m_isUpdating, m_isElastic>>

\* The callbacks of updateHashinator and the subscription: failure returns
\* false; success returns true, and the topology ends the update.  A catalog or a
\* topology that is not as expected throws (there is no row, no such column).
AffinityCallback(i) ==
  /\ loc = "read" /\ i \in hInput \ {Magic} /\ kind[i] \in {"proc", "topo", "sub"}
  /\ \/ \E success \in BOOLEAN :
          /\ Forgets(i, success, FALSE)
          /\ IF success /\ kind[i] = "topo"
             THEN m_isUpdating' = FALSE /\ m_isElastic' \in BOOLEAN
             ELSE UNCHANGED <<m_isUpdating, m_isElastic>>
     \/ /\ kind[i] # "sub" /\ UNCHANGED <<m_isUpdating, m_isElastic>>
        /\ \E break, ignore \in BOOLEAN : Caught(break, ignore) /\ Forgets(i, break, ignore)
  /\ calls' = [calls EXCEPT ![i] = @ + 1]
  /\ UNCHANGED syncResponse

\* TopologyNotificationCallback stays registered; only a topology table that
\* differs from the saved one is applied, or throws.
TopologyNotification ==
  /\ loc = "read" /\ Magic \in hInput /\ hInput' = hInput \ {Magic}
  /\ \/ \E success \in BOOLEAN :
          /\ hBreak' = Breaks(success) /\ m_ignoreBackpressure' = FALSE
          /\ \/ success /\ m_isUpdating' = FALSE /\ m_isElastic' \in BOOLEAN
             \/ UNCHANGED <<m_isUpdating, m_isElastic>>
     \/ \E break, ignore \in BOOLEAN :
          /\ Caught(break, ignore) /\ UNCHANGED <<m_isUpdating, m_isElastic>>
          /\ hBreak' = Breaks(break) /\ m_ignoreBackpressure' = ignore
  /\ UNCHANGED <<conVars, reqVars, m_nextRequestId, m_backpressuredBevs,
                 m_invocationBlockedOnBackpressure, m_useClientAffinity,
                 subscribed, frameVars, ret, m_isDraining, hb, hid, hLost,
                 hTodo, loopVars, loc, calls>>

\* The input buffer is empty: back to libevent, or on with the lost connection
\* (the listener hears of it first).
ReadDone ==
  /\ loc = "read" /\ hInput = {}
  /\ event_break' = hBreak /\ hBreak' = FALSE
  /\ loc' = IF ~hLost THEN "loop" ELSE IF HasListener THEN "listener" ELSE "lost"
  /\ hb' = IF hLost THEN hb ELSE NoBev
  /\ m_ignoreBackpressure' = (m_ignoreBackpressure \/ (hLost /\ HasListener))
  /\ UNCHANGED <<conVars, reqVars, m_nextRequestId, m_backpressuredBevs,
                 m_invocationBlockedOnBackpressure, distVars, frameVars, ret,
                 m_isDraining, hid, hInput, hLost, hTodo, exits, calls>>

-----------------------------------------------------------------------------
(* A lost connection: regularEventCallback after the last read.             *)

\* Fault: the flag is not put back after the notification.
ConnectionLostReturns_NoReset ==
  /\ loc = "listener" /\ loc' = "lost" /\ m_ignoreBackpressure' = TRUE
  /\ \E l \in ListenerOutcomes : hBreak' = (l = "true")
  /\ UNCHANGED <<conVars, reqVars, m_nextRequestId, m_backpressuredBevs,
                 m_invocationBlockedOnBackpressure, distVars, frameVars, ret,
                 m_isDraining, hb, hid, hInput, hLost, hTodo, loopVars, calls>>

ConnectionLostReturns ==
  /\ loc = "listener" /\ loc' = "lost"
  /\ \E l \in ListenerOutcomes :
       hBreak' = (l = "true") /\ m_ignoreBackpressure' = (l = "throw")
  /\ UNCHANGED <<conVars, reqVars, m_nextRequestId, m_backpressuredBevs,
                 m_invocationBlockedOnBackpressure, distVars, frameVars, ret,
                 m_isDraining, hb, hid, hInput, hLost, hTodo, loopVars, calls>>

\* Fault: the walk does not advance.
Unvisited_Stuck == {i \in m_callbacks[hb] : i >= hid}

\* Fault: there is no walk; the map is just dropped.
Unvisited_Dropped == {}

\* The callback map is walked in the order of the ids, entries added meanwhile
\* included.
Unvisited == {i \in m_callbacks[hb] : i > hid}

\* Fault: the walk skips entries.
NextEntry_Skips(i) == loc = "lost" /\ i \in Unvisited

NextEntry(i) == loc = "lost" /\ i \in Unvisited /\ \A j \in Unvisited : i <= j

LostUserCallback(i) ==
  /\ NextEntry(i) /\ i # Magic /\ kind[i] = "user"
  /\ loc' = "lostCallback" /\ hid' = i /\ calls' = [calls EXCEPT ![i] = @ + 1]
  /\ UNCHANGED <<conVars, reqVars, m_nextRequestId, bpVars, distVars, frameVars,
                 ret, m_isDraining, hb, hBreak, hInput, hLost, hTodo, loopVars>>

\* Every entry visited is counted as one request less.
Visited(break) ==
  /\ m_outstandingRequests' = m_outstandingRequests - 1
  /\ hBreak' = (hBreak \/ break)
  /\ UNCHANGED <<conVars, m_callbacks, kind, wire, m_nextRequestId, bpVars,
                 distVars, api, apiId, apiTodo, attempt, ret, m_isDraining, hb,
                 hInput, hLost, hTodo, loopVars>>

LostUserCallbackReturns ==
  /\ loc = "lostCallback" /\ loc' = "lost"
  /\ \/ \E o \in UserOutcomes \ {"throw"} : Visited(o = "true")
     \/ "throw" \in UserOutcomes /\ ~HasListener /\ Visited(FALSE)
     \/ "throw" \in UserOutcomes
        /\ \E l \in ListenerOutcomes \ {"throw"} : Visited(l = "true")
  /\ UNCHANGED <<syncResponse, hid, calls>>

\* Here an exception of the listener is not caught: it leaves through libevent.
LostUncaughtThrows ==
  /\ loc = "lostCallback" /\ "throw" \in UserOutcomes \cap ListenerOutcomes
  /\ loc' = "escaped"
  /\ UNCHANGED <<conVars, reqVars, m_nextRequestId, bpVars, distVars, frameVars,
                 ret, m_isDraining, hVars, loopVars, calls>>

LostSyncCallback(i) ==
  /\ NextEntry(i) /\ i # Magic /\ kind[i] = "sync"
  /\ Visited(TRUE) /\ StoreResponse(i, "lost")
  /\ hid' = i /\ calls' = [calls EXCEPT ![i] = @ + 1] /\ UNCHANGED loc

LostAffinityCallback(i) ==
  /\ NextEntry(i) /\ i # Magic /\ kind[i] \in {"proc", "topo", "sub"}
  /\ Visited(FALSE)
  /\ hid' = i /\ calls' = [calls EXCEPT ![i] = @ + 1]
  /\ UNCHANGED <<loc, syncResponse>>

\* The entry of the topology notifications was never counted as a request.
LostNotificationEntry ==
  /\ NextEntry(Magic) /\ Visited(FALSE)
  /\ hid' = Magic /\ UNCHANGED <<loc, syncResponse, calls>>

\* A write through the dangling pointer may also end the process.
SyncCallbackCrashes(i) ==
  /\ \/ loc = "read" /\ i \in hInput \ {Magic}
     \/ NextEntry(i) /\ i # Magic
  /\ kind[i] = "sync" /\ ~(api = "sync" /\ apiId = i)
  /\ loc' = "crashed"
  /\ UNCHANGED <<conVars, reqVars, m_nextRequestId, bpVars, distVars, frameVars,
                 ret, m_isDraining, hVars, loopVars, calls>>

\* All callbacks were told: forget the connection and schedule a reconnect.
ConnectionGone ==
  /\ loc = "lost" /\ Unvisited = {}
  /\ m_bevs' = m_bevs \ {hb} /\ losses' = losses + 1
  /\ m_backpressuredBevs' = m_backpressuredBevs \ {hb}
  /\ subscribed' = subscribed \ {hb}
  /\ m_pendingConnectionSize' = m_pendingConnectionSize + 1
  /\ cluster' = [cluster EXCEPT ![hb] = NoCluster]
  /\ m_callbacks' = [m_callbacks EXCEPT ![hb] = {}]
  /\ kind' = [i \in Ids |-> IF i \in Requests(hb) THEN "none" ELSE kind[i]]
  /\ wire' = [i \in Ids |-> IF i \in Requests(hb) THEN "none" ELSE wire[i]]
  /\ m_instance' = IF m_bevs' = {} THEN NoCluster ELSE m_instance
  /\ event_break' = \/ event_break \/ hBreak \/ m_bevs' = {}
                    \/ m_isDraining /\ m_outstandingRequests = 0
  /\ IF m_useClientAffinity /\ m_bevs' # {}
     THEN m_isUpdating' = TRUE /\ hTodo' = <<"proc", "topo">> /\ loc' = "update"
     ELSE loc' = "loop" /\ UNCHANGED <<m_isUpdating, hTodo>>
  /\ hb' = NoBev /\ hid' = NoId /\ hBreak' = FALSE /\ hLost' = FALSE
  /\ UNCHANGED <<m_outstandingRequests, m_nextRequestId, m_ignoreBackpressure,
                 m_invocationBlockedOnBackpressure, m_useClientAffinity,
                 m_isElastic, frameVars, ret, m_isDraining, hInput, exits, calls>>

-----------------------------------------------------------------------------
(* invoke() inside a handler or a callback: the loop cannot be entered      *)
(* again (event_base_loop returns -1), so an invocation that would have to  *)
(* wait throws LibEventException.                                           *)

InvokesNow(k, size) ==
  /\ m_nextRequestId < MaxRequests /\ m_nextRequestId' = m_nextRequestId + 1
  /\ Select(m_nextRequestId, k, size)
  /\ UNCHANGED <<m_ignoreBackpressure, m_invocationBlockedOnBackpressure>>

InvokeThrows ==
  /\ m_nextRequestId < MaxRequests /\ m_nextRequestId' = m_nextRequestId + 1
  /\ MustWait /\ m_invocationBlockedOnBackpressure' = TRUE
  /\ UNCHANGED <<reqVars, m_backpressuredBevs>>

\* updateHashinator and subscribeToTopologyNotifications in a handler; the
\* exception leaves through libevent.
HandlerInvoke ==
  /\ loc = "update" /\ Head(hTodo) # "active"
  /\ hTodo' = Tail(hTodo)
  /\ \/ /\ TooBusy \/ InvokesNow(Head(hTodo), "small")
        /\ TooBusy => UNCHANGED <<reqVars, m_nextRequestId, bpVars>>
        /\ loc' = IF hTodo' = <<>> THEN "loop" ELSE "update"
     \/ ~TooBusy /\ InvokeThrows /\ loc' = "escaped"
  /\ UNCHANGED <<conVars, distVars, frameVars, ret, m_isDraining, hb, hid,
                 hBreak, hInput, hLost, loopVars, calls>>

\* The result of connectionActive is not looked at.
ConnectionActiveReturns ==
  /\ loc = "update" /\ Head(hTodo) = "active"
  /\ hTodo' = <<>> /\ loc' = "loop"
  /\ UNCHANGED <<conVars, reqVars, m_nextRequestId, bpVars, distVars, frameVars,
                 ret, m_isDraining, hb, hid, hBreak, hInput, hLost, loopVars,
                 calls>>

InUserCode == \/ loc \in {"callback", "listener", "lostCallback"}
              \/ loc = "update" /\ Head(hTodo) = "active"

\* User code called by a handler invokes a procedure.
NestedInvoke ==
  /\ InUserCode /\ "nested" \in ApiCalls
  /\ m_nextRequestId < MaxUserRequests /\ ~TooBusy /\ ~LegacyMode
  /\ (\E size \in Sizes : InvokesNow("user", size)) \/ InvokeThrows
  /\ UNCHANGED <<conVars, distVars, frameVars, ret, m_isDraining, hVars,
                 loopVars, loc, calls>>

\* A synchronous invoke in user code registers its request and then cannot
\* enter the loop: it throws, and its callback is left behind.
NestedSyncInvoke ==
  /\ InUserCode /\ "nestedSync" \in ApiCalls
  /\ m_nextRequestId < MaxUserRequests /\ m_nextRequestId < MaxRequests
  /\ \E b \in m_bevs, size \in Sizes : Register(m_nextRequestId, "sync", b, size)
  /\ m_nextRequestId' = m_nextRequestId + 1
  /\ UNCHANGED <<conVars, bpVars, distVars, frameVars, ret, m_isDraining, hVars,
                 loopVars, loc, calls>>

\* drain() in user code sets its flag before it throws.
NestedDrain ==
  /\ InUserCode /\ "nestedDrain" \in ApiCalls /\ m_outstandingRequests > 0
  /\ m_isDraining' = TRUE
  /\ UNCHANGED <<conVars, reqVars, m_nextRequestId, bpVars, distVars, frameVars,
                 ret, hVars, loopVars, loc, calls>>

-----------------------------------------------------------------------------
Application ==
  \/ \E f \in {"run", "runOnce"} : Run(f)
  \/ \E f \in {"run", "runOnce", "sync"} : NoConnections(f)
  \/ Drain \/ Invoke \/ SyncInvoke \/ CreateConnection
  \/ CreatePendingConnection \/ \E e \in BOOLEAN : SetClientAffinity(e)

ApiSteps == LoopReturns \/ InvokeEntry \/ InvokeQueues \/ InvokeBlocks
            \/ InvokeDividesByZero

Connecting ==
  \/ \E r \in {"connected", "failed"} : AuthenticationEvent(r)
  \/ \E b \in Bev, c \in Cluster : FinalizeAuthentication(b, c)
  \/ FinalizeMismatch

Network == \E b \in Bev : \/ RegularWriteCallback(b) \/ RegularReadCallback(b)
                          \/ RegularEventCallback(b)

Reading ==
  \/ \E i \in Ids : UserCallback(i) \/ SyncCallback(i) \/ AffinityCallback(i)
  \/ UserCallbackReturns \/ TopologyNotification \/ ReadDone

Losing ==
  \/ \E i \in Ids : \/ LostUserCallback(i) \/ LostSyncCallback(i)
                    \/ LostAffinityCallback(i) \/ SyncCallbackCrashes(i)
  \/ ConnectionLostReturns \/ LostUserCallbackReturns \/ LostUncaughtThrows
  \/ LostNotificationEntry \/ ConnectionGone

Invoking == \/ HandlerInvoke \/ ConnectionActiveReturns
            \/ NestedInvoke \/ NestedSyncInvoke \/ NestedDrain

Next == Application \/ ApiSteps \/ Connecting \/ Network \/ Reading \/ Losing
        \/ Invoking

Spec == Init /\ [][Next]_vars

-----------------------------------------------------------------------------
DataTypes ==
  /\ m_bevs \subseteq Bev /\ m_backpressuredBevs \subseteq m_bevs
  /\ subscribed \subseteq m_bevs
  /\ m_instance \in Cluster \cup {NoCluster} /\ m_pendingConnectionSize \in Nat
  /\ cluster \in [Bev -> Cluster \cup {NoCluster}] /\ losses \in Nat
  /\ m_callbacks \in [Bev -> SUBSET (Ids \cup {Magic})]
  /\ m_outstandingRequests \in Int /\ m_nextRequestId \in 0 .. MaxRequests
  /\ kind \in [Ids -> Kinds] /\ wire \in [Ids -> Wires] /\ calls \in [Ids -> Nat]

FlagTypes ==
  /\ m_ignoreBackpressure \in BOOLEAN
  /\ m_invocationBlockedOnBackpressure \in BOOLEAN
  /\ m_isDraining \in BOOLEAN /\ m_useClientAffinity \in BOOLEAN
  /\ m_isUpdating \in BOOLEAN /\ m_isElastic \in BOOLEAN
  /\ event_break \in BOOLEAN /\ hBreak \in BOOLEAN /\ hLost \in BOOLEAN

FrameTypes ==
  /\ loc \in Locs /\ exits \in Nat /\ api \in Apis /\ attempt \in Attempts
  /\ syncResponse \in Responses /\ apiId \in Ids \cup {NoId}
  /\ hb \in Bev \cup {NoBev} /\ hid \in Ids \cup {NoId, Magic}
  /\ hInput \subseteq Ids \cup {Magic}

Invocations == Kinds \ {"none", "sync"}   \* what goes through the asynchronous invoke
TodoTypes == apiTodo \in Seq(Invocations) /\ hTodo \in Seq(Invocations \cup {"active"})

\* The state is what the C++ declarations and the frames allow; marked and
\* subscribed connections are live ones.
TypeOK == DataTypes /\ FlagTypes /\ FrameTypes /\ TodoTypes

-----------------------------------------------------------------------------
(* Safety.                                                                  *)

\* A request's callback is called at most once, whether by a response, by the
\* loss of its connection, or by both racing in regularEventCallback.
CalledAtMostOnce == \A i \in Ids : calls[i] <= 1

\* A callback leaves the callback maps only once it was called: no interleaving
\* of responses, losses and nested invocations drops a request silently.
ForgottenOnlyAfterCallback ==
  [][\A b \in Bev : \A i \in (m_callbacks[b] \ m_callbacks'[b]) \ {Magic} :
       calls'[i] = 1]_vars

\* The process is alive and no exception has left through libevent.
Running == loc \notin {"crashed", "escaped"}

\* Entries of the dying connection that the walk has already counted.
CountedOff(i) ==
  /\ hb # NoBev /\ i \in m_callbacks[hb]
  /\ \/ loc = "lost" /\ i <= hid
     \/ loc = "lostCallback" /\ i < hid

\* The requests an application still waits for.
Waiting == {i \in Ids : (\E b \in m_bevs : i \in m_callbacks[b]) /\ ~CountedOff(i)}

\* m_outstandingRequests is the number of waiting requests less one for every
\* connection lost, because the walk in regularEventCallback also counts the
\* entry of the topology notifications.
CountDriftsByLosses ==
  Running => m_outstandingRequests =
               Cardinality(Waiting) - losses - (IF hid = Magic THEN 1 ELSE 0)

\* Synchronous requests among them.
SyncWaiting == {i \in Waiting : kind[i] = "sync"}

\* The limit is checked by every asynchronous invocation before it queues, in
\* the application, in callbacks and in handlers, but not again when an
\* invocation that waited goes on: callbacks may have filled the queue meanwhile,
\* so one request more than the limit may wait.  Synchronous invocations are not
\* limited.
LimitHolds ==
  Running => m_outstandingRequests <=
               MaxOutstanding + 1 + Cardinality(SyncWaiting)

\* All live connections belong to the cluster the client remembers, and it
\* remembers one exactly while it has a connection.
SameCluster ==
  /\ m_instance = NoCluster <=> m_bevs = {}
  /\ \A b \in m_bevs : cluster[b] = m_instance

\* Every live connection keeps the entry for topology notifications, which
\* answering a notification must not erase.
NotificationEntryStays == \A b \in m_bevs : Magic \in m_callbacks[b]

\* A connection marked as backpressured has unsent data, so that a write
\* callback will come to unmark it.
MarkedHasUnsentData == \A b \in m_backpressuredBevs : OverLimit(b)

\* An invocation of the application never adds to a backpressured connection,
\* if no listener answers backpressure() with true.
AppRequestsAvoidBackpressure ==
  [][loc = "invoke" /\ loc' = "app" =>
       \A b \in Bev : m_callbacks'[b] # m_callbacks[b]
                      => b \notin m_backpressuredBevs]_vars

\* drain() returns true only when no request waits for its response.
DrainedMeansAnswered == [][ret' = "drained" /\ ret # "drained" => Waiting = {}]_vars

\* When drain() returns true no more requests wait than connections were lost.
DrainedUpToLosses ==
  [][ret' = "drained" /\ ret # "drained" => Cardinality(Waiting) <= losses]_vars

\* A synchronous invoke returns with the response of its own request.
SyncReturnsResponse == ret \notin {"unanswered", "foreign"}

\* If the loop breaks while an invocation waits, the invocation is queued
\* despite backpressure, so that the break takes effect: it does not wait again.
BreakEndsWaiting ==
  [][loc = "invoke" /\ loc' = "loop" => ~m_invocationBlockedOnBackpressure]_vars

\* If no callback throws, the client's own included unless a listener hears of it,
\* and no listener asks for the request to be queued all the same, invoke() never
\* takes a remainder by the number of connections when the last one was lost while
\* it waited.
NoDivisionByZero == loc # "crashed"

-----------------------------------------------------------------------------
(* Liveness.  libevent dispatches what is ready, the network accepts bytes, *)
(* the server answers what it was sent, and user code returns.              *)

Fairness ==
  /\ WF_vars(ApiSteps) /\ WF_vars(Reading) /\ WF_vars(Losing)
  /\ WF_vars(HandlerInvoke \/ ConnectionActiveReturns)
  /\ \A b \in Bev : WF_vars(RegularWriteCallback(b)) /\ WF_vars(RegularReadCallback(b))

FairSpec == Spec /\ Fairness

\* A waiting invocation returns once a connection would accept it.
WokenWhenAcceptable ==
  (loc = "loop" /\ api = "async" /\ Acceptable # {}) ~> api # "async"

\* Without a connection loss a waiting invocation returns once a connection
\* would accept it.
WokenUnlessLost ==
  (loc = "loop" /\ api = "async" /\ Acceptable # {}) ~> (api # "async" \/ losses > 0)

\* Without a connection loss drain() returns, whatever callbacks invoke and
\* whichever of them break the loop.
DrainReturnsUnlessLost == api = "drain" ~> (api # "drain" \/ losses > 0)

\* While the application stays in run(), every request is called back.
EveryRequestCalledBack ==
  \A i \in Ids : (kind[i] = "user" /\ api = "run") ~> (calls[i] = 1 \/ api # "run")

-----------------------------------------------------------------------------
(* The inductive invariant from which the safety properties are proved.     *)

InHandler == loc \in {"read", "callback", "listener", "lost", "lostCallback"}

\* What the running frame knows of its own variables.
FrameInv ==
  /\ api \in {"async", "affinity"} => apiTodo # <<>>
  /\ loc = "update" => hTodo # <<>>
  /\ loc = "app" => api = "none" /\ apiId = NoId
  /\ loc = "entry" => apiId = NoId
  /\ loc \in {"entry", "invoke"} => api \in {"async", "affinity"}
  /\ api \in {"async", "affinity"} /\ loc # "entry" => apiId # NoId
  /\ InHandler => hb \in m_bevs
  /\ loc \in {"listener", "lost", "lostCallback"} => hLost
  /\ loc \in {"app", "entry", "invoke", "loop", "update"} => hb = NoBev
  /\ loc \notin {"read", "callback", "crashed", "escaped"} => hInput = {}
  /\ hb \in m_bevs /\ hInput # {} => hInput \subseteq m_callbacks[hb]
  /\ \A i \in hInput \ {Magic} : wire[i] = "server"
  /\ loc = "callback" => hid \in hInput \ {Magic} /\ kind[hid] = "user"
  /\ loc = "lostCallback" => hid \in Requests(hb) /\ kind[hid] = "user"
  /\ loc = "lost" => hid = NoId \/ hid \in m_callbacks[hb]
  /\ Running /\ loc \notin {"callback", "lost", "lostCallback"} => hid = NoId

\* A request is in the map of at most one connection, and that one is live; its
\* id was handed out before.  The id of a waiting invocation is in no map.
MapsInv ==
  /\ \A b \in Bev \ m_bevs : m_callbacks[b] = {}
  /\ \A b \in m_bevs : Magic \in m_callbacks[b]
  /\ \A b \in Bev : \A i \in Requests(b) : i < m_nextRequestId /\ kind[i] # "none"
  /\ \A b, c \in Bev : \A i \in Ids :
       i \in m_callbacks[b] /\ i \in m_callbacks[c] => b = c
  /\ api \in {"async", "affinity"} /\ apiId # NoId =>
       apiId < m_nextRequestId /\ \A b \in Bev : apiId \notin m_callbacks[b]

\* The walk over the map of a lost connection has called the callback of i.
WalkedPast(b, i) == loc \in {"lost", "lostCallback"} /\ b = hb /\ i <= hid

\* A registered request was called back only if its callback is running or the
\* walk over its lost connection has reached it; one not yet queued never was.
CallsInv ==
  /\ \A i \in Ids : calls[i] \in {0, 1}
  /\ \A i \in Ids : i >= m_nextRequestId => calls[i] = 0
  /\ api \in {"async", "affinity"} /\ apiId # NoId => calls[apiId] = 0
  /\ Running => \A b \in m_bevs : \A i \in Requests(b) :
       calls[i] = IF (loc = "callback" /\ i = hid) \/ WalkedPast(b, i) THEN 1 ELSE 0

\* The inductive invariant the theorems rest on.
IndInv == TypeOK /\ FrameInv /\ MapsInv /\ CallsInv

\* An invocation of the application has passed the check of the limit and has
\* not queued its request yet.
Admitted == api \in {"async", "affinity"} /\ apiId # NoId

\* The strengthening of LimitHolds: one place is kept for an admitted invocation.
LimitInv ==
  Running => m_outstandingRequests <= MaxOutstanding + Cardinality(SyncWaiting)
                                      + (IF Admitted THEN 0 ELSE 1)

\* No callback throws and the listener never answers true: then backpressure is
\* ignored only while a callback or the listener runs.
PoliteUserCode == "throw" \notin UserOutcomes /\ ListenerOutcomes \subseteq {"false"}
IgnoredOnlyInCallbacks == m_ignoreBackpressure => loc \in {"callback", "listener"}

\* The application makes no synchronous invocation: no request carries a pointer
\* into a stack frame.
NoSyncCalls == ApiCalls \cap {"sync", "nestedSync"} = {}
NoSyncRequests == \A i \in Ids : kind[i] # "sync"

\* The application does not ask for client affinity: nothing is routed, and no
\* callback of the client itself is called with a response.
NoAffinityCalls == "affinity" \notin ApiCalls
NeverRouted ==
  /\ ~m_useClientAffinity /\ api # "affinity" /\ subscribed = {} /\ Magic \notin hInput
  /\ \A i \in Ids : kind[i] \notin {"proc", "topo", "sub"}
  /\ apiTodo \in {<<>>, <<"user">>} /\ hTodo \in {<<>>, <<"active">>}
=============================================================================
