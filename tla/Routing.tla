------------------------------- MODULE Routing -------------------------------
(***************************************************************************)
(* Client affinity: how the client learns the topology of the cluster and  *)
(* the catalog (src/src/Distributer.cpp and the callbacks in               *)
(* src/src/ClientImpl.cpp), and how it chooses a connection by them, with  *)
(* the search of ElasticHashinator.                                        *)
(*                                                                         *)
(* What is kept of a topology is its number.  A request is answered with   *)
(* the topology of some moment between its sending and its answer, and the *)
(* answers of different requests may overtake each other.                  *)
(***************************************************************************)
EXTENDS ElasticHashinator, Bags

CONSTANTS
  Bev, NoBev,
  HostId, NoHost,
  Topology,       \* the topologies of the cluster, one after the other
  Proc,           \* procedures of the catalog: multiPart, partition parameter
  Key,            \* first parameters: a hash, a null string, or not supported
  MP_INIT_PID,
  NoInvocation,
  m_maxOutstandingRequests,
  MaxLosses       \* bound: connections lost

ASSUME RoutingAssumption ==
  /\ NoBev \notin Bev /\ NoHost \notin HostId /\ Len(Topology) \in Nat \ {0}
  /\ \A i \in 1 .. Len(Topology) : Topology[i].ring \in Ring
  /\ \A key \in Key : key.kind = "hashed" => key.hash \in Hash

VARIABLES
  host,                 \* of a live connection (m_callbacks), or NoHost
  m_hostIdToEvent,
  m_useClientAffinity,
  m_isUpdating, m_isElastic,
  m_hashinator, m_PartitionToHostId, m_savedTopoTable,   \* 0: none yet
  m_procedureInfo,
  requests,             \* of the client itself, not answered yet
  legacy, version,      \* the mode of the cluster and its topology
  subscribed, notes,    \* connections it notifies, and what is under way
  invocation,           \* an invoke: NoBev until its connection is chosen
  losses,
  told,                 \* the newest topology the client was sent, used or ignored
  excused,              \* the last update failed, or was overtaken by an older one
  torn,                 \* the last update failed half way
  stranded,             \* the last topology request was refused, failed or got lost,
                        \* or its answer could not be used
  ambiguous,            \* a host had two connections
  misrouted,            \* a request went elsewhere, the leader being connected
  nulled                \* a null hashinator was used

conns == <<host, m_hostIdToEvent>>
tables == <<m_hashinator, m_PartitionToHostId, m_savedTopoTable>>
server == <<legacy, version, subscribed, notes>>
route == <<invocation, misrouted, nulled, searchVars>>
ghosts == <<losses, ambiguous>>
vars == <<conns, m_useClientAffinity, m_isUpdating, m_isElastic, tables, m_procedureInfo,
          requests, server, route, ghosts, told, excused, torn, stranded>>

Live == {b \in Bev : host[b] # NoHost}

Init ==
  /\ host = [b \in Bev |-> NoHost] /\ m_hostIdToEvent = [h \in HostId |-> NoBev]
  /\ m_useClientAffinity = FALSE /\ m_isUpdating = FALSE /\ m_isElastic = TRUE
  /\ m_hashinator = 0 /\ m_PartitionToHostId = 0 /\ m_savedTopoTable = 0
  /\ m_procedureInfo = {} /\ requests = EmptyBag
  /\ legacy \in BOOLEAN /\ version = 1 /\ subscribed = {} /\ notes = [b \in Bev |-> <<>>]
  /\ invocation = NoInvocation /\ misrouted = FALSE /\ nulled = FALSE
  /\ losses = 0 /\ ambiguous = FALSE /\ told = 0 /\ excused = FALSE /\ torn = FALSE
  /\ stranded = FALSE /\ SearchInit

-----------------------------------------------------------------------------
(* Updates.                                                                 *)

Request(kind, b) == [kind |-> kind, bev |-> b, since |-> IF kind = "topology" THEN version ELSE 0]

\* What invoke makes of the outstanding requests: nothing if there are too many,
\* which requests of the application may cause as well.
Queued(bag, kind, bevs) ==
  {bag} \cup {bag (+) SetToBag({Request(kind, b)}) :
                b \in IF BagCardinality(bag) < m_maxOutstandingRequests THEN bevs ELSE {}}

\* updateHashinator, and subscribeToTopologyNotifications after it.
UpdateHashinator(bag, bevs, subscribe) ==
  \E catalog \in Queued(bag, "catalog", bevs) :
    \E topology \in Queued(catalog, "topology", bevs) :
      /\ requests' \in IF subscribe THEN Queued(topology, "subscribe", bevs) ELSE {topology}
      /\ m_isUpdating' = TRUE
      /\ excused' = (topology = catalog) /\ stranded' = (topology = catalog)

SetClientAffinity(enable) ==
  /\ IF enable /\ ~m_useClientAffinity /\ Live # {}
     THEN UpdateHashinator(requests, Live, TRUE)
     ELSE UNCHANGED <<requests, m_isUpdating, excused, stranded>>
  /\ m_useClientAffinity' = enable
  /\ UNCHANGED <<conns, m_isElastic, tables, m_procedureInfo, server, route, ghosts, told, torn>>

\* Fault: the last connection stands for every host.
Register_Last(b, h) == m_hostIdToEvent' = [g \in HostId |-> b]

Register(b, h) == m_hostIdToEvent' = [m_hostIdToEvent EXCEPT ![h] = b]

\* finalizeAuthentication.  The bufferevent may have the address of one that was
\* freed.
Connect(b, h) ==
  /\ host[b] = NoHost
  /\ host' = [host EXCEPT ![b] = h] /\ Register(b, h)
  /\ IF m_useClientAffinity THEN UpdateHashinator(requests, Live \cup {b}, TRUE)
                            ELSE UNCHANGED <<requests, m_isUpdating, excused, stranded>>
  /\ ambiguous' = (ambiguous \/ \E c \in Live : host[c] = h)
  /\ UNCHANGED <<m_useClientAffinity, m_isElastic, tables, m_procedureInfo, server, route,
                 losses, told, torn>>

Answered(bag, b) == [r \in {s \in DOMAIN bag : s.bev # b} |-> bag[r]]

\* regularEventCallback: the callbacks of the connection get a failure, which they
\* ignore; then a new update is started.
Lose(b) ==
  /\ host[b] # NoHost /\ losses < MaxLosses /\ losses' = losses + 1
  /\ host' = [host EXCEPT ![b] = NoHost]
  /\ subscribed' = subscribed \ {b} /\ notes' = [notes EXCEPT ![b] = <<>>]
  /\ IF m_useClientAffinity /\ Live # {b}
     THEN UpdateHashinator(Answered(requests, b), Live \ {b}, FALSE)
     ELSE /\ requests' = Answered(requests, b) /\ m_isUpdating' = m_isUpdating
          /\ excused' = (excused \/ notes[b] # <<>> \/ \E r \in DOMAIN requests : r.bev = b)
          /\ stranded' = \/ stranded
                         \/ \E r \in DOMAIN requests : r.bev = b /\ r.kind = "topology"
  /\ UNCHANGED <<m_hostIdToEvent, m_useClientAffinity, m_isElastic, tables, m_procedureInfo,
                 legacy, version, route, ambiguous, told, torn>>

-----------------------------------------------------------------------------
(* The cluster changes.                                                     *)

Change ==
  /\ version < Len(Topology) /\ version' = version + 1
  /\ notes' = [b \in Bev |-> IF b \in subscribed THEN Append(notes[b], version + 1) ELSE notes[b]]
  /\ excused' = (excused \/ subscribed = {})
  /\ UNCHANGED <<conns, m_useClientAffinity, m_isUpdating, m_isElastic, tables, m_procedureInfo,
                 requests, legacy, subscribed, route, ghosts, told, torn, stranded>>

Told(v) == told' = IF v > told THEN v ELSE told

Judged(v, complete) ==
  Told(v) /\ excused' = (excused \/ ~complete \/ v < told) /\ torn' = ~complete

\* Fault: the old ring is kept.
UpdateAffinityTopology_KeepsRing(v, complete) ==
  /\ m_PartitionToHostId' = v /\ Judged(v, complete)
  /\ IF ~complete THEN UNCHANGED <<m_hashinator, m_isElastic, m_isUpdating, m_savedTopoTable>>
     ELSE /\ m_isElastic' = ~legacy /\ m_isUpdating' = FALSE /\ m_savedTopoTable' = v
          /\ m_hashinator' = IF legacy \/ m_hashinator # 0 THEN m_hashinator ELSE v

\* Fault: the flag is left to the catalog.
UpdateAffinityTopology_StillUpdating(v, complete) ==
  /\ m_PartitionToHostId' = v /\ UNCHANGED m_isUpdating
  /\ Judged(v, complete)
  /\ IF ~complete THEN UNCHANGED <<m_hashinator, m_isElastic, m_savedTopoTable>>
     ELSE /\ m_isElastic' = ~legacy /\ m_savedTopoTable' = v
          /\ m_hashinator' = IF legacy THEN m_hashinator ELSE v

\* Fault: the flag is cleared first.
UpdateAffinityTopology_EarlyDone(v, complete) ==
  /\ m_PartitionToHostId' = v /\ m_isUpdating' = FALSE
  /\ Judged(v, complete)
  /\ IF ~complete THEN UNCHANGED <<m_hashinator, m_isElastic, m_savedTopoTable>>
     ELSE /\ m_isElastic' = ~legacy /\ m_savedTopoTable' = v
          /\ m_hashinator' = IF legacy THEN m_hashinator ELSE v

\* A second table without a row is an exception half way.
UpdateAffinityTopology(v, complete) ==
  /\ m_PartitionToHostId' = v /\ Judged(v, complete)
  /\ IF ~complete THEN UNCHANGED <<m_hashinator, m_isElastic, m_isUpdating, m_savedTopoTable>>
     ELSE /\ m_isElastic' = ~legacy /\ m_isUpdating' = FALSE /\ m_savedTopoTable' = v
          /\ m_hashinator' = IF legacy THEN m_hashinator ELSE v

Answer(r) == BagIn(r, requests) /\ requests' = requests (-) SetToBag({r})

\* TopoUpdateCallback, and the same with a failure.
TopoUpdateCallback(r) ==
  /\ r.kind = "topology" /\ Answer(r)
  /\ \E v \in r.since .. version, complete \in BOOLEAN :
       UpdateAffinityTopology(v, complete) /\ stranded' = ~complete
  /\ UNCHANGED <<conns, m_useClientAffinity, m_procedureInfo, server, route, ghosts>>

TopoUpdateFails(r) ==
  /\ r.kind = "topology" /\ Answer(r) /\ excused' = TRUE /\ stranded' = TRUE
  /\ UNCHANGED <<conns, m_useClientAffinity, m_isUpdating, m_isElastic, tables, m_procedureInfo,
                 server, route, ghosts, told, torn>>

\* ProcUpdateCallback: all of the catalog, or what comes before a procedure that
\* cannot be parsed; nothing changes on a failure.
ProcUpdateCallback(r) ==
  /\ r.kind = "catalog" /\ Answer(r)
  /\ m_procedureInfo' \in {m_procedureInfo} \cup SUBSET Proc
  /\ UNCHANGED <<conns, m_useClientAffinity, m_isUpdating, m_isElastic, tables, server, route,
                 ghosts, told, excused, torn, stranded>>

SubscribeCallback(r) ==
  /\ r.kind = "subscribe" /\ Answer(r)
  /\ subscribed' \in {subscribed, subscribed \cup {r.bev}}
  /\ UNCHANGED <<conns, m_useClientAffinity, m_isUpdating, m_isElastic, tables, m_procedureInfo,
                 legacy, version, notes, route, ghosts, told, excused, torn, stranded>>

\* Fault: any notification after the first topology is ignored.
SameTable_Any(v) == m_savedTopoTable # 0

\* The first table only, the leaders of the partitions.
SameTable(v) == m_savedTopoTable # 0 /\ Topology[m_savedTopoTable].leader = Topology[v].leader

\* TopologyNotificationCallback and handleTopologyNotification.
TopologyNotification(b) ==
  /\ notes[b] # <<>> /\ notes' = [notes EXCEPT ![b] = Tail(@)]
  /\ IF SameTable(Head(notes[b]))
     THEN Told(Head(notes[b])) /\ UNCHANGED <<m_isUpdating, m_isElastic, tables, excused, torn>>
     ELSE \E complete \in BOOLEAN : UpdateAffinityTopology(Head(notes[b]), complete)
  /\ UNCHANGED <<conns, m_useClientAffinity, m_procedureInfo, requests, legacy, version, subscribed,
                 route, ghosts, stranded>>

-----------------------------------------------------------------------------
(* An asynchronous invocation.                                              *)

unrouted == <<conns, m_useClientAffinity, m_isUpdating, m_isElastic, tables, m_procedureInfo,
              requests, server, ghosts, told, excused, torn, stranded>>

\* A legacy cluster is refused here; then the event loop may run until there is a
\* connection without backpressure.
Invoke ==
  /\ invocation = NoInvocation /\ Live # {} /\ (m_isUpdating \/ m_isElastic)
  /\ invocation' = NoBev
  /\ UNCHANGED <<unrouted, misrouted, nulled, searchVars>>

Routes == m_useClientAffinity /\ ~m_isUpdating
SinglePartition(p) == p \in m_procedureInfo /\ ~p.multiPart

\* getHostIdByPartitionId
HostIdByPartitionId(p) ==
  IF m_PartitionToHostId # 0 /\ p \in DOMAIN Topology[m_PartitionToHostId].leader
  THEN Topology[m_PartitionToHostId].leader[p] ELSE NoHost

\* The end of routeProcedure and of invoke: b is the connection chosen without
\* affinity.
Send(b, leader) ==
  LET routed == IF leader = NoHost THEN NoBev ELSE m_hostIdToEvent[leader]
      bev == IF routed \in Live THEN routed ELSE b
  IN  /\ invocation' = NoInvocation
      /\ misrouted' = (misrouted \/ (/\ leader # NoHost /\ host[bev] # leader /\ ~ambiguous
                                     /\ \E c \in Live : host[c] = leader))

\* Without affinity; or of a single-partition procedure whose parameter is not the
\* first, or not of a type that is hashed.
SendAnywhere(b, p, key) ==
  /\ invocation = NoBev /\ b \in Live
  /\ ~Routes \/ (SinglePartition(p) /\ (p.parameter > 0 \/ key.kind = "other"))
  /\ Send(b, NoHost) /\ UNCHANGED <<unrouted, nulled, searchVars>>

\* A procedure that is not known counts as one of several partitions; a null
\* string belongs to partition 0.
SendUnhashed(b, p, key) ==
  /\ invocation = NoBev /\ b \in Live /\ Routes
  /\ \/ ~SinglePartition(p) /\ Send(b, HostIdByPartitionId(MP_INIT_PID))
     \/ /\ SinglePartition(p) /\ p.parameter <= 0 /\ key.kind = "null"
        /\ Send(b, HostIdByPartitionId(0))
  /\ UNCHANGED <<unrouted, nulled, searchVars>>

\* parseParameter.  Nothing checks that there is a hashinator.
HashParameter(b, p, key) ==
  /\ invocation = NoBev /\ b \in Live /\ Routes
  /\ SinglePartition(p) /\ p.parameter <= 0 /\ key.kind = "hashed"
  /\ IF m_hashinator = 0
     THEN nulled' = TRUE /\ invocation' = NoInvocation /\ UNCHANGED searchVars
     ELSE /\ nulled' = nulled /\ invocation' = b
          /\ Hashinate(Topology[m_hashinator].ring, key.hash)
  /\ UNCHANGED <<unrouted, misrouted>>

SearchRing == /\ PartitionForToken
              /\ UNCHANGED <<unrouted, invocation, misrouted, nulled>>

\* A negative partition has no leader.
SendHashed ==
  /\ search = "done" /\ search' = "idle" /\ partition' = 0
  /\ m_tokens' = <<>> /\ hash' = 0 /\ min' = 0 /\ max' = -1
  /\ Send(invocation, IF partition >= 0 THEN HostIdByPartitionId(partition) ELSE NoHost)
  /\ UNCHANGED <<unrouted, nulled>>

Callbacks == \/ \E r \in BagToSet(requests) : \/ TopoUpdateCallback(r) \/ TopoUpdateFails(r)
                                              \/ ProcUpdateCallback(r) \/ SubscribeCallback(r)
             \/ \E b \in Bev : TopologyNotification(b)

\* The search is not interrupted; a null hashinator ends the program.
Next == \/ /\ search = "idle" /\ ~nulled
           /\ \/ \E enable \in BOOLEAN : SetClientAffinity(enable)
              \/ \E b \in Bev, h \in HostId : Connect(b, h)
              \/ \E b \in Bev : Lose(b)
              \/ Change \/ Callbacks
              \/ Invoke
              \/ \E b \in Bev, p \in Proc, key \in Key :
                   SendAnywhere(b, p, key) \/ SendUnhashed(b, p, key) \/ HashParameter(b, p, key)
        \/ SearchRing \/ SendHashed

Spec == Init /\ [][Next]_vars

-----------------------------------------------------------------------------
\* The ring and the leaders that a request is routed by are of the same topology,
\* unless the last topology came without a ring: updateAffinityTopology replaces
\* both or throws in between.
RingMatchesLeaders == m_isElastic /\ ~torn => m_hashinator = m_PartitionToHostId

\* The hashinator is there when a parameter is hashed, unless the cluster turns out
\* to be a legacy one while the invocation waits.
HashinatorPresent == nulled => legacy

\* A request for a partition goes to a connection to its leader if there is one,
\* even if the address of a freed bufferevent was used again for another host.
\* Exception: a host had two connections, of which m_hostIdToEvent knows the last.
RoutedToLeader == ~misrouted

NoTopologyRequest == \A r \in BagToSet(requests) : r.kind # "topology"

\* When nothing is under way the client knows the present leaders, unless the last
\* update failed, was overtaken by an older one (the newer one may have been a
\* notification that SameTable ignored) or the change was not notified.
TopologyCurrent ==
  m_useClientAffinity /\ Live # {} /\ NoTopologyRequest /\ (\A b \in Bev : notes[b] = <<>>)
    /\ ~excused
  => m_savedTopoTable # 0 /\ Topology[m_savedTopoTable].leader = Topology[version].leader

\* While an update is marked as running, and requests are not routed, a topology
\* request is under way, unless the last one was refused by invoke(), failed or was
\* lost with its connection, or its answer threw: nothing asks again in these cases,
\* and the mark may stay until the next connection is made or lost.
UpdateUnderWay == m_isUpdating /\ ~stranded => ~NoTopologyRequest

\* The answer of a topology request ends the update, unless it throws half way.
AnswerEndsUpdate ==
  [][\A r \in BagToSet(requests) : TopoUpdateCallback(r) => ~m_isUpdating' \/ torn']_vars

\* "do not call the procedures if hashinator is in the LEGACY mode"
LegacyNotCalled == [][invocation # NoInvocation /\ invocation' = NoInvocation
                        => m_isUpdating \/ m_isElastic]_vars

-----------------------------------------------------------------------------
(* Why they hold: the inductive invariant.                                  *)

RoutingTypes ==
  /\ host \in [Bev -> HostId \cup {NoHost}] /\ m_hostIdToEvent \in [HostId -> Bev \cup {NoBev}]
  /\ m_useClientAffinity \in BOOLEAN /\ m_isUpdating \in BOOLEAN /\ m_isElastic \in BOOLEAN
  /\ legacy \in BOOLEAN /\ version \in 1 .. Len(Topology) /\ told \in 0 .. version
  /\ m_hashinator \in 0 .. version /\ m_PartitionToHostId \in 0 .. version
  /\ m_savedTopoTable \in 0 .. version
  /\ subscribed \subseteq Bev /\ notes \in [Bev -> Seq(1 .. version)]
  /\ IsABag(requests)
  /\ \A r \in BagToSet(requests) : r.bev \in Bev /\ (r.kind = "topology" => r.since \in 1 .. version)
  /\ excused \in BOOLEAN /\ torn \in BOOLEAN /\ ambiguous \in BOOLEAN

\* m_hostIdToEvent knows the connection to every host that has one.
HostsKnown == ~ambiguous => \A c \in Live : m_hostIdToEvent[host[c]] = c

\* An update is running as long as there is no hashinator.
HashinatorOrUpdate ==
  ~legacy /\ m_useClientAffinity /\ Live # {} => m_isUpdating \/ m_hashinator # 0

\* The present leaders are known and nothing newer than them was sent, or they are
\* under way, in a notification or as the answer of a request of this moment.
LeadersOnTheWay ==
  m_useClientAffinity /\ Live # {} /\ ~excused =>
    \/ /\ told = version /\ m_savedTopoTable # 0
       /\ Topology[m_savedTopoTable].leader = Topology[version].leader
    \/ \E b \in Bev : \E i \in DOMAIN notes[b] : notes[b][i] = version
    \/ \E r \in BagToSet(requests) : r.kind = "topology" /\ r.since = version

\* The ring that is searched is that of the hashinator.
SearchesHashinator ==
  search # "idle" => m_hashinator # 0 /\ m_tokens = Topology[m_hashinator].ring

RoutingInv ==
  /\ RoutingTypes /\ HostsKnown /\ HashinatorOrUpdate /\ LeadersOnTheWay /\ SearchesHashinator
  /\ RingMatchesLeaders /\ HashinatorPresent /\ RoutedToLeader
=============================================================================
