# A TLA+ model of the VoltDB C++ client

The modules in this directory model `voltdb-client-cpp`: the request engine with
its event loop and callbacks, making and remaking connections, the reader of the
byte stream, stopping the loop from other threads, client affinity, parameters and
responses as bytes, and the pool that shares clients between the threads of a
scripting environment. TLC checks them on small instances; TLAPS proves the safety
properties, and two refinements, for every instance.

## The system

| Part | Source | State | Model |
|---|---|---|---|
| Request engine | `src/ClientImpl.cpp` | connections (`m_bevs`), a callback map per connection, the outstanding count, backpressure marks and flags | `ClientImpl` |
| Connection establishment | `src/ClientImpl.cpp` 53-208, 332-547 | `PendingConnection`s and their list, reconnect timers, attempts | `Reconnect`, implements `Membership` |
| Response framing | `src/ClientImpl.cpp` 109-175, 786-861 | expected length and watermark per connection | `Framing`, implements `MessageChannel` |
| Wakeup and interrupt | `src/ClientImpl.cpp` 228-233, 956-967, 1090-1098 | a pipe, a lock | `Wakeup` |
| Client affinity | `src/ClientImpl.cpp` 611-632, 984-1088, `src/Distributer.cpp` | partition, host and procedure tables, update flags | `Routing`; its requests also in `ClientImpl` |
| Hashinator | `include/ElasticHashinator.h` | the token ring | `ElasticHashinator` |
| Procedures and parameters | `include/ParameterSet.hpp`, `include/Procedure.hpp` | parameter list and buffer | `Procedure`, with `ByteBuffer` and `WireType` |
| Responses, tables and rows | `include/InvocationResponse.hpp`, `src/Table.cpp`, `include/TableIterator.h`, `include/Row.hpp` | windows on a message and positions in them | `Response`, with `ByteBuffer` and `WireType` |
| Connection pool | `src/ConnectionPool.cpp` | pooled clients, thread-local lists, one lock | `ConnectionPool` |

How they interact: the application calls the API; the API calls libevent's loop;
the loop calls the handlers; the handlers call procedure callbacks and the status
listener; these may call the API again, one level down. There is one thread in the
engine, but four kinds of code take turns in an order nobody chooses: what makes it
hard is not parallelism but re-entrance. `wakeup`, `interrupt`,
`createPendingConnection` and the pool add real threads.

What is hard in it:

* responses in the input buffer race the loss of their connection; both call back;
* callbacks invoke procedures while the handler walks the map they are added to;
* a blocked invocation runs the loop, and everything may have changed when the
  loop returns: connections, limit, flags, the mode of the cluster;
* any callback may break the loop of any API function;
* flags are put back after calls that may throw;
* counts and flags outlive the call they were made for (`m_isDraining`,
  `m_outstandingRequests`, loop exits of an earlier `createConnection`);
* bufferevents hold raw pointers to `PendingConnection`s, and maps hold addresses of
  bufferevents, which may be gone;
* bytes arrive in any pieces, topologies in any order;
* threads acquire and return clients in any order, more than once.

## `ClientImpl`

`loc` names the running frame: `app` (the application), `entry` and `invoke`
(inside `invoke`, before and in the selection loop), `loop` (libevent), `read`,
`callback`, `listener`, `lost`, `lostCallback`, `update` (handlers and the user
code they call), and two ends: `crashed` (the process died) and `escaped` (an
exception left a handler through libevent, whose loop cannot be entered again).
Code that runs without handing control to user code, to libevent or back to the
caller is one action. `api`, `apiId`, `apiTodo`, `attempt` and `syncResponse` are
the local variables of the API function on the application's stack; `hb`, `hid`,
`hBreak`, `hInput`, `hLost` and `hTodo` those of the handler. `cluster`, `calls`
and `losses` are history variables.

| Code | Actions |
|---|---|
| `run`, `runOnce`, `drain` | `Run`, `NoConnections`, `Drain`, `LoopReturns` |
| asynchronous `invoke` | `Invoke`, `InvokeEntry`, `InvokeQueues`, `InvokeBlocks`, `InvokeDividesByZero`; inside handlers and user code `HandlerInvoke`, `NestedInvoke` |
| synchronous `invoke`, `SyncCallback` | `SyncInvoke`, `NestedSyncInvoke`, `SyncCallback`, `LostSyncCallback`, `SyncCallbackCrashes` |
| `setClientAffinity`, `updateHashinator`, subscription and their callbacks | `SetClientAffinity`, `AffinityCallback`, `LostAffinityCallback`, `TopologyNotification` |
| `createConnection`, `createPendingConnection`, authentication handlers, `finalizeAuthentication` | `CreateConnection`, `CreatePendingConnection`, `AuthenticationEvent`, `FinalizeAuthentication`, `FinalizeMismatch`, `ConnectionActiveReturns` |
| `regularWriteCallback` | `RegularWriteCallback` |
| `regularReadCallback` | `RegularReadCallback`, `UserCallback`, `UserCallbackReturns`, `ReadDone` |
| `regularEventCallback` | `RegularEventCallback`, `ConnectionLostReturns`, `LostUserCallback`, `LostUserCallbackReturns`, `LostUncaughtThrows`, `LostNotificationEntry`, `ConnectionGone` |

Abstractions. A request is an id with the class of its callback (`kind`) and a
place (`wire`): small or large and unsent, or at the server. The round-robin
index is a choice among the connections the selection loop would accept. Routing
chooses any live connection; `Routing` models the tables it consults. The
server answers what it was sent in any order and pushes notifications to
subscribed connections. libevent: a loop entered while one runs fails; a break
is cleared on entry, a loop exit stays scheduled; the write callback comes only
when the output is below its watermark. Callbacks of the client itself throw when a
topology or a catalog is not as expected; the listener's `uncaughtException` for them does
not call the client back. A pending connection may complete
whenever the loop runs: the timers are in `Reconnect`. `backpressure()` and `abandon()`
do not call the client back. A response through a dangling `SyncCallback` may
change the frame of another synchronous invoke, nothing, or end the process.

Bounds, all named constants: `MaxRequests` ids, of which user code takes those
below `MaxUserRequests`; `MaxLosses`; `MaxExits`; the sets `Bev` and `Cluster`.
`UserOutcomes`, `ListenerOutcomes`, `Sizes` and `ApiCalls` select what user code
may do in a run. Two connections are enough for a request to be on the wrong one;
two losses for a count to drift twice and a connection to come back; three
requests for one to wait, one to be answered and one to be added meanwhile.

Fairness (`FairSpec`): the API function goes on when the loop returns, handlers
and user code finish, and for each connection bytes are sent and responses come.
That is libevent's promise to dispatch what is ready, a live network and server,
and user code that returns. Losses, new connections and calls of the application
are never forced.

## `ConnectionPool`

The threads are those of `Threads`, which `Wakeup` has as well. Every function that does not block is one action under the lock;
`acquireClient` is `AcquireClient`, `Search`, `Verify` or `VerifyThrows`, `Connect`
or `ConnectThrows`, since it runs event loops and connects while it holds the
lock, and `AcquireReuses` when the thread has a client of that identifier. `handles`
is history: how often a script acquired a client and has not returned it.
Fairness: a thread inside `acquireClient` goes on, because `runOnce()` does not
block and a connection attempt ends.

## `Framing` and `MessageChannel`

The stream of a connection is the list of the extents of the message bodies in it;
`arrived` and `consumed` are offsets, and the input buffer is what lies between.
A length is known only where a header is; what the code would decode anywhere else
may be any number (`LengthsAt`), so that a reader out of step shows.

| Code | Actions |
|---|---|
| `authenticationReadCallback` | `AuthenticationLength`, `AuthenticationMessage` |
| `regularReadCallback` | `StartReading` (its early return), `ReadLength`, `ReadMessage`, `ReadDone` |
| `regularEventCallback` | `EventCallback`, which reads first, and `Gone` |
| server, libevent (external) | `Send`, `Arrive` |

`MessageChannel` is what this should amount to: messages sent are received whole,
once and in order until the channel closes. `ImplementsChannel` is that
specification under the mapping `received <- delivered`, `open <- phase # "closed"`.
Assumed of the server: a body has at least as many bytes as a header (the code
compares the bytes it has with a stale `m_nextLength` even when it expects a header,
and that is harmless only then) and fits below `HIGH_WATERMARK`. Fairness: the network
delivers what was sent and the handlers run. The `PendingConnection` is a fresh one.

## `Reconnect` and `Membership`

A `PendingConnection` lives as long as a `shared_ptr` in the list (`pending`), in the
frame of `createConnection` (`frame`) or of `createPendingConnection` (`creating`); a
bufferevent has a raw pointer (`bev[b].pc`). A callback on freed memory finds its old
contents or anything else (`Tail`). Time is the age of `m_startPending` and the time
left to a timer.

| Code | Actions |
|---|---|
| `createConnection` | `CreateConnection`, `DispatchReturns` after each of its loops; `CreateConnectionRefused` where libevent refuses the loop |
| `createPendingConnection` | `CreatePendingConnection`, `SetTimer` (another thread's step: the lock is released between) |
| `reconnectEventCallback` | `ReconnectEventCallback`, `ReconnectThrows` |
| authentication callbacks, `finalizeAuthentication` | `Connected`, `AttemptFails`, `LoggedIn`, `AuthenticationThrows` |
| `regularEventCallback` | `ConnectionLost` |
| anything that ends a loop | `LoopBroken`, `RunReturns`, and `HandlerThrows` for exceptions of the listener or of an invocation in a handler |

`overlapped` (a second attempt for a `PendingConnection` while one is under way: the
code has the assignment to `m_startPending` that would prevent it commented out),
`abandoned` (`createConnection` returned because something else ended its loop) and
`threw` (an exception left the loop through libevent, which then refuses to be entered
again: timers, sockets and the list stay as they are and no handler runs) are history. They are the only ways in which the properties fail, and the
properties say so. `Membership` keeps two numbers for each host, wanted and up;
`ImplementsMembership` maps pending and live connections to them. Fairness: the clock
ticks, due timers run as long as the loop can be entered, an attempt ends one way or the other, a thread between the two
halves of `createPendingConnection` goes on.

## `Wakeup`

Threads in `wakeup` are in one of its steps (`TryLock`, `Write`, `Unlock`; `LoopBreak` when
the pipe could not be made); the owner runs the loop (`Run`, `RunReturns`) and may call
`wakeup` and `interrupt` itself from a callback, when the loop waits for it. The
pipe is blocking and holds `Capacity` bytes, of which a callback reads `BufSize`.
`asked` remembers a `wakeup` during the present run; "late" is one that found the lock
held by a thread that had already written, whose byte may have been read.
Fairness: threads in `wakeup` are scheduled, and the callbacks of the pipe and of
`interrupt` are strongly fair: a break ends a run between two callbacks, but what was
active then heads libevent's queue in the next one. `OwnerBlocked` is the exception in
all three liveness properties: the owner, in a callback, waits for room in the pipe
that only it can empty.

## `Routing` and `ElasticHashinator`

`ElasticHashinator` is the binary search of `partitionForToken`, one step per
iteration, over any sorted ring; below the first token, or in an empty ring, the code
reads in front of the array (`Stray`). `Routing` extends it: the search runs on the ring
of the topology that the client has.

A topology is known by its number. The cluster changes (`Change`), notifies subscribed
connections, and answers a request with the topology of some moment since it was
sent. `UpdateHashinator` sends the requests, each of which `invoke` may refuse when too
many are outstanding; `TopoUpdateCallback`, `TopoUpdateFails`, `ProcUpdateCallback`,
`SubscribeCallback` and `TopologyNotification` are the callbacks, and
`UpdateAffinityTopology` replaces the tables or throws half way. `Invoke` is the top
of `invoke`, up to the wait for a connection; `SendAnywhere`, `SendUnhashed` and
`HashParameter`, `SearchRing`, `SendHashed` are the ways through `routeProcedure`.

History: `told` (the newest topology the client was sent, used or ignored), `excused`
(an update was refused, failed or lost, an answer was older than something the client
had been told, or nobody was notified), `stranded` (the last topology request was refused,
failed or got lost, or its answer could not be used), `torn` (the last update failed half way),
`ambiguous` (a host had two connections, of which `m_hostIdToEvent` keeps the later). The
properties hold up to these. `told` is needed because a notification with the
leaders of the saved topology is ignored: an answer that was sent before it and
arrives after it then leaves the client with old leaders, although it is newer than the
topology that is saved. An address that a later connection reuses is no exception:
`m_hostIdToEvent` is written again with it.

## `ByteBuffer`, `WireType`, `Procedure`, `Response`

A byte is the value it belongs to, the width that was written and its place, so a
value comes back only if it is read where and as wide as it was written; anything else
is `Garbage`. A byte sequence may have any length: `EnsureCapacity` doubles as often as it
needs to. `ByteBuffer` has a `FlattenSeq` of its own, because the proofs would carry every
other definition of `SequencesExt` along. `Procedure` has the list of types (declared, or growing with the first
parameters), the current position and the buffer: `Params`, `Add`, `AddThrows`, `AddNull`,
`Invoke`, for every type the constants name. An exception that a `throw()` list does
not name ends the program (`alive`): that of `addNull()` after a null too many, and that of
an array of doubles, which reserves two bytes less than it writes. The server's reader (`ReadParameters`) is external.

`Response` reads what an external writer (`MessageBytes`) laid out: `Receive` (the
constructor of `InvocationResponse` and of its tables), `Stream` (a copy of the
response through a stream), `Iterate`, `NextRow`, the getters of `Row` (`GetColumn`,
`GetByName`, `IsNull`) and the two `toString`, for what they do to positions and flags.
A getter is `validateType`, which throws (`InvalidColumn`) before anything is changed,
`getOffset`, which takes `m_wasNull` back, the read, and the getter's own test for null
(`TestsNull`): against the least number of the column's type (`Least`), or the length -1.
What it returns for a null is that number, an empty string, or, like `getVarbinary` without
room for the value, nothing. `getVarbinary`'s `out_len` is left out. `Least` of a double stands for all numbers up
to -1.7E+308, which the code takes for null.

## Runs

| Run | Instance | Shows |
|---|---|---|
| `core` | two connections, four requests, limit 1, two losses; callbacks return true or false, throw, invoke, invoke synchronously, drain | each request is called back at most once and before it is forgotten; what the outstanding count really counts |
| `affinity` | two connections, six requests, limit 2, one loss; callbacks and a listener that return true or false or throw; catalog, topology and subscription requests | the inductive invariant under routing, notifications and updates; the limit holds up to one blocked invocation; marks mean unsent data |
| `pressure` | two clusters, `createConnection` and pending connections, four requests, two losses, no exceptions | invocations of the application respect marks and never select among no connections; live connections belong to one cluster |
| `progress` | three requests, one loss, fairness | every request is called back; until a loss blocked invocations are woken and `drain()` returns; `drain()` returns true with at most as many requests waiting as connections were lost |
| `framing` | bodies of 4, 5 and 7 bytes, four messages, buffer of 7 | messages are delivered once, whole and in order, and before a connection is closed; the channel is implemented |
| `reconnect` | one host, two objects and two bufferevents, two timers | pending hosts have a timer and are tried until they are up, as long as no exception ends the loop; connections are conserved; attempts own what their callbacks use; `Membership` is implemented |
| `wakeup` | three threads, a pipe of 3 bytes read by 2, six calls | a wakeup ends the present run and at most one; an interrupt ends a run; callers return |
| `routing` | two hosts, two connections, two topologies that differ in a leader and in the ring, one loss, two outstanding requests | the search is right; ring and leaders match; requests reach the leader; the client's topology is current; an update that is marked is under way, or its request was refused, failed, lost or of no use |
| `procedure` | three types and arrays of them, declared and dynamic lists, two parameters, two messages, buffer of 8 bytes | the server reads what was added; the partition key is the first parameter; the two ways in which an add function throws what it does not declare |
| `response` | four responses with and without optional parts, every column type, nulls, two iterators | what is read is what was sent, and `wasNull()` is about the column read last, also after getters that threw |
| `pool` | two threads, two clients, two identifiers, fairness | one owner, listeners of the borrower only, the lock is released |
| `sync_unanswered` | one connection, two requests | violated: a synchronous invoke returns without its response when another callback breaks the loop, against `include/Client.h:69` |

Why the bounds are enough. Two connections let a request be on the wrong one; two
losses let a count drift twice and a connection come back; three requests are one that
waits, one that is answered and one that is added meanwhile. Bodies of 4 and 5 bytes
make a header and a body, or two bodies, end at the same or neighbouring offsets, and
one of 7 fills the buffer. Two timers and two objects are the least for attempts
to overlap. A capacity above the read size leaves bytes behind in the pipe. The
buffer of 8 bytes doubles in the middle of values of 8, so that each short
reservation meets the end of the buffer.

Deadlock is checked where the system cannot stop (`pool`, `reconnect`, `response`);
elsewhere an application may stop calling, or a bound is reached.

### Statements of the code's documents that the models refute

Defined in the modules and refuted by TLC on instances like those above, without a
configuration of their own:

| Definition | Statement | What the code does |
|---|---|---|
| `DrainedMeansAnswered` | `include/Client.h:126` "@return true if all requests were drained and false otherwise" | a loss decrements the count for the notification entry, which was never counted (`ClientImpl.cpp:904`): `drain()` returns true while a request waits |
| `WokenWhenAcceptable` | `include/Client.h:78` "if there is backpressure this method will block until there is none" | only a write callback wakes the invocation; a new connection does not |
| `BreakEndsWaiting` | `ClientImpl.cpp:682` "so that loop break occurs as requested" | `m_loopBreakRequested` is never set |
| `AppRequestsAvoidBackpressure`, with callbacks that throw | `include/Client.h:78`, as above | `m_ignoreBackpressure` stays set after an exception |
| `NoDivisionByZero`, with callbacks that throw, a listener that says to queue, or client affinity without a listener | `include/Client.h:82` "@throws NoConnectionsException" | the remainder by `m_bevs.size()` is taken after the last connection was lost; without a listener, an exception of the client's own callback leaves `m_ignoreBackpressure` set as well (one connection, seven requests) |
| `OneUser` | `include/Client.h:40` "are not thread safe" | a client acquired twice by a thread and returned once is handed to another |
| `IdleWakeupHasNoEffect` | `include/Client.h:144` "and has no effect if the loop isn,t running" | the byte stays in the pipe and stops the next run |
| `EveryWakeupStops` | `include/Client.h:140` "this method will instruct it to exit as soon as it finishes it's current immediate task" | a wakeup that finds the lock held by a thread that has already written may be lost |
| `OnlyDeclaredThrows` | `include/ParameterSet.hpp:358` "@throws ParamMismatchException Supplied parameter is the wrong type for this position or too many have been set", and so for every add function | a null too many makes the next `addNull()` throw a pointer, and an array of doubles at the end of the buffer an `OverflowUnderflowException`; `throw()` ends the program |
| `LegacyNotCalled` | `ClientImpl.cpp:656` "do not call the procedures if hashinator is in the LEGACY mode" | the mode may change while the invocation waits in the loop |

## Proofs

Eight modules, no bound on any constant beyond the assumptions named `...Assumption`
in the modules that declare them. Every safety invariant that a run checks is proved, and
so are the safety action properties and both refinements.

| Module | About |
|---|---|
| `ClientImplHandlerProofs` | each handler, and the start of an invocation, preserves `IndInv` |
| `ClientImplProofs` | the other actions; `Invariance` and what follows from it |
| `ClientImplCountProofs` | backpressure, and the outstanding count |
| `RoutingProofs` | the hashinator's search and client affinity |
| `ReconnectProofs` | connection establishment, and that it implements `Membership` |
| `ConnectionProofs` | the pool, framing (it implements `MessageChannel`), wakeup |
| `ProcedureProofs` | byte buffers; what a procedure writes and the server reads |
| `ResponseProofs` | what the server writes and the application reads |

### Request engine

`ClientImplProofs` proves `Spec => []IndInv`. None of the properties is inductive by
itself: that a request is called back at most once depends on where it is registered
and on how far a walk has come. `IndInv` has three parts besides the types. `FrameInv`:
what a frame may assume of its variables (the handler's connection is live, its input
is registered there and was sent, the walk stands at an entry). `MapsInv`: a request is
in one map at most, of a live connection, with an id handed out before; the id of a
blocked invocation is in none. `CallsInv`: a registered request was called back exactly
if its callback is running or the walk has passed it. There is one lemma per action and
below it one step per conjunct, in `ClientImplHandlerProofs` for reading, the loss of a
connection and the beginning of an invocation, in `ClientImplProofs` for the rest. `TypeOK`,
`CalledAtMostOnce` and `NotificationEntryStays` follow at once, and from `IndInv` with
one more induction each:

* `OneCluster` (`SameCluster`): the live connections are of the remembered cluster.
* `NothingForgotten` (`ForgottenOnlyAfterCallback`): an entry leaves a map only once its
  request was called back.
* `MarksAreJustified` (`MarkedHasUnsentData`): a mark is set where unsent data is, and
  every action that lets the data shrink below the limit takes the mark away.
* in `ClientImplCountProofs`, `NeverDividesByZero` (`NoDivisionByZero`) for `PoliteUserCode`, `NoSyncCalls` and `HasListener \/ NoAffinityCalls`, and
  `BackpressureRespected` (`AppRequestsAvoidBackpressure`) for `PoliteUserCode` and
  `NoAffinityCalls`. Both rest on `IgnoredOnlyInCallbacks`: without exceptions and with a
  listener that answers false, `m_ignoreBackpressure` is set only while a callback or the
  listener runs; what the client's own callbacks throw is either reported to a listener,
  whose return puts the flag back, or never happens, because without affinity there are none
  (`NeverRouted`). The hypotheses are needed: the table above shows the first without
  them; a routed request goes to a leader whether it is marked or not; and a
  synchronous request that outlives its call is answered through a dangling pointer. They
  restrict the application, not the client, and the `pressure` run satisfies them.

The rest of `ClientImplCountProofs` is about `m_outstandingRequests`. `CountStep` says what a step may do
to the waiting requests: nothing, queue one and count it (`Queues`), answer one and count
it off (`Settles`), count off the notification entry (`Overcounts`), or end a walk (`Loses`).
Every step is one of these (`NextCounts`), for sets of any size. It gives `CountDrifts`
(`CountDriftsByLosses`: the counter is behind by exactly one for every loss) and
`DrainTellsOfLosses` (`DrainedUpToLosses`). For `LimitKept` (`LimitHolds`) the bound has to be
one lower while an invocation that has passed the check waits (`Admitted`), so that
there is room when it queues without another look: that is `LimitInv`.

### Routing

`RoutingProofs` proves `Spec => []RoutingInv` for any hosts, connections, rings and
sequence of topologies. Its parts besides the types and the properties: `HostsKnown`
(`m_hostIdToEvent` is right for every live connection), `HashinatorOrUpdate` (without a
hashinator an update is running, which is why `invoke` waits), `LeadersOnTheWay` (the
present leaders are known and nothing newer was sent, or they are in a
notification, or a request is old enough to be answered with nothing else), and
`SearchesHashinator` (the ring that is searched is the hashinator's). They follow:
`RingAndLeaders`, `HashinatorThere`, `LeaderReached`, `LeadersCurrent`, and
`RoutedByOneTopology` (the ring that is searched and the leaders the result is looked up
in are of one topology unless the last update failed half way). `UpdateAwaited` has an induction of
its own: unless `stranded`, an update that is marked has a topology request under way
(`UpdateUnderWay`), and the answer of such a request takes the mark away or throws half way
(`AnswerEndsUpdate`). A request that is refused, fails or is lost leaves the mark with nothing
under way; the next connection that is made or lost asks again.

Of the search it proves the loop invariant `SearchInv` (tokens in front of `min` are
below the hash, those behind `max` above it), that the result belongs to the owner of
the hash (`SearchFindsOwner`) and that every iteration shrinks the range (`SearchEnds`),
for every sorted ring; and, since no step of the rest of the client disturbs a search,
the same within `Routing` (`OwnerFound`).

### Reconnection, pool, framing, wakeup

`ReconnectProofs` proves `ReconnectInv` (`Consistent`: an attempt is for the host of its
`PendingConnection` and has it to itself unless attempts overlapped) together with
`Attached`, from which `NoDanglingAttempt` follows. `RetryScheduled` is inductive with the
types. For the refinement each action is shown to change the numbers of pending and
live connections of one host by at most one (lemmas on the cardinalities), which gives
`ReconnectImplementsMembership` and, with `asked`, `ReconnectConserves`.

`ConnectionProofs` has three parts, about modules that have nothing but threads in common.
`PoolInv`, for any number of threads, clients and identifiers: the types, the lock
(`LockInv`: a thread inside `acquireClient` holds it), freshness (`FreshInv`: a client not
made yet is nowhere), and the ownership properties themselves; `OneOwner` and
`ListenerIsBorrower` follow. `FramingInv`: `Layout` (bodies follow each other, a header
before each) and `InStep` (between messages the reader is at a header, inside one right
behind it with the length of this very message, and what was delivered is a prefix of what
was sent). From it follow that the watermark can be reached (`ReaderWatermark`), that a
dying connection is read to the end (`ReaderDrains`), and that every step is a step of
`MessageChannel` or leaves it alone (`ReaderImplementsChannel`). `WakeupInv`: with the lock
held by the one thread in `wakeup`, the pipe never stops more runs than bytes were written
(`WakeupsPaidFor`), and a wakeup of the present run is never forgotten
(`WakeupNotForgotten`): the loop is told to stop, or a byte waits for it, or a thread is
about to write one. The second is what `WakeupStops` needs besides fairness.

### Bytes

What readers and writers compute is defined by recursion, and the library's induction
principles take an operator that none of the provers can instantiate. `SetInduction` states
induction for a set of numbers instead and is proved from the well-foundedness of `<`; a
property becomes the set of the numbers that have it. A recursive function is shown to
exist by a witness, the explicit function that it should be, which satisfies the
recursion; since functions that satisfy it are equal, that is the one `CHOOSE` finds.
So the theorems hold for lists, arrays, tables, rows, strings and buffers of any length.
`Holds(mem, at, bytes)` says what stands where in a sequence of bytes; lemmas say what `Get`,
`Put`, `PutAt`, `FlattenSeq` and `EnsureCapacity` do to it.

`ProcedureProofs` proves `LaidOutAlways`: the buffer holds the number of parameters of
the list and the encodings of those given (`BufferInv`), and the last message, unless its
parameters were never touched, a count and encodings that fit each other (`MessageInv`).
`MessageReadableAlways` follows, as the server's reader goes over them, and
`KeyIsFirstAlways`, as the client's does, for names of any length. `EndsOnlyAtEdgesAlways` computes, for every type, how
much `Reserved` and what is written differ.

`ResponseProofs` proves `ShownAlways`: every window that the response, an iterator or the
current row has shows exactly the bytes of its part of the message, iterators stand at the
beginning of a row, offsets once counted are those of the columns, `m_wasNull` is about the
column read last, and what was got is its value (`ResponseInv`). The longest part is that the constructor finds every
part where the writer put it, with or without the optional ones (`ResponseRead`), and
that a getter finds its column behind those of other sizes (`ColumnAt`).
`ResponseAsSentAlways`, `GotAsSentAlways` and `WasNullOfLastAlways` follow. Assumed of the
server: rows are as long as the list of columns, types are those of the protocol, and the
least number of a type is sent for null only.

### Only model-checked

Everything under fairness: liveness and `ENABLED` are out of the prover's reach. These are
`WokenUnlessLost`, `DrainReturnsUnlessLost`, `EveryRequestCalledBack`, `LockReleased`,
`EveryMessageDelivered`, `RetriedUntilUp`, `WakeupStops`, `InterruptStops` and `WritersReturn`.
The inductive invariants were invariants of the instances above before they were proved;
`IndInv` still is of `affinity`.

## Not modelled

* The headers of third-party libraries in `include/`: `ttmath/` and `event2/`, two thirds
  of all lines. libevent is modelled by what the client uses of it; `Decimal.hpp` is
  arithmetic of ttmath's integers.
* Hash functions (`sha1.c`, `sha256.cpp`, `MurmurHash3.cpp`): bit arithmetic without
  control. A value has some hash, a password some digest.
* The contents of the login messages, and a login length that an earlier attempt left
  in a `PendingConnection` that is tried again (`ClientImpl.cpp:141`).
* `Client`, `ClientConfig`, `ClientLogger`, the exceptions: forwarding and records.
* `RowBuilder`: it fills a buffer that nothing in the library reads.
* `ClientImpl`'s destructor, logging, and calls into the client from `backpressure()` and
  `abandon()`.
* In `Procedure`, counts of arrays beyond 16 bits and buffers beyond 2^31 bytes.
* The pool does not follow the requests of the clients it hands out.
