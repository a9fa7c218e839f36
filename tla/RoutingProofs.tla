---------------------------- MODULE RoutingProofs ----------------------------
(***************************************************************************)
(* Client affinity, for every cluster: any number of connections, hosts,   *)
(* topologies, procedures and keys, and any bound on the outstanding       *)
(* requests.  First the search: partitionForToken finds the token that     *)
(* owns a hash, in every sorted ring of every length, and its loop ends.   *)
(* Then RoutingInv, action by action, and what follows from it.            *)
(***************************************************************************)
EXTENDS Routing, TLAPS

\* What the loop knows once it has returned.
Result ==
  search = "done" =>
    \/ /\ min <= max /\ TokenAt(mid).hash = hash /\ partition = TokenAt(mid).partition
    \/ /\ min = max + 1 /\ (min = 0 \/ partition = TokenAt(min - 1).partition)

\* The middle of a range lies within it.
LEMMA Middle ==
  ASSUME NEW a \in Int, NEW b \in Int, a <= b
  PROVE  (a + b) \div 2 \in Int /\ a <= (a + b) \div 2 /\ (a + b) \div 2 <= b
OBVIOUS

\* Tokens are ordered by their place.
LEMMA Order ==
  ASSUME SearchInv, NEW i \in 0 .. m_tokenCount - 1, NEW j \in 0 .. m_tokenCount - 1, i < j
  PROVE  TokenAt(i).hash < TokenAt(j).hash
<1>1. i + 1 \in 1 .. Len(m_tokens) /\ j + 1 \in 1 .. Len(m_tokens) /\ i + 1 < j + 1
  BY DEF m_tokenCount, SearchInv
<1> QED BY <1>1, Zenon DEF SearchInv, Sorted, TokenAt

\* What is in the ring has its type.
LEMMA TokenType ==
  ASSUME SearchInv, NEW i \in 0 .. m_tokenCount - 1
  PROVE  TokenAt(i).hash \in Int /\ TokenAt(i).partition \in Int
<1>1. i + 1 \in 1 .. Len(m_tokens)
  BY DEF m_tokenCount, SearchInv
<1>2. m_tokens[i + 1] \in Token
  BY <1>1 DEF SearchInv
<1> QED BY <1>2, Zenon DEF Token, TokenAt

\* A search starts with the whole ring.
LEMMA HashinateInv ==
  ASSUME SearchInv, NEW ring \in Ring, NEW h \in Hash, Hashinate(ring, h)
  PROVE  SearchInv' /\ Result'
<1>1. ring \in Seq(Token) /\ Sorted(ring) /\ h \in Int /\ Len(ring) \in Nat
  BY RingAssumption
<1> QED BY <1>1 DEF Hashinate, SearchInv, Result, m_tokenCount, TokenAt, Sorted

\* An iteration keeps the loop invariant.
LEMMA IterationInv ==
  ASSUME SearchInv, PartitionForToken
  PROVE  SearchInv' /\ Result'
<1>0. /\ m_tokenCount \in Nat /\ min \in Int /\ max \in Int /\ m_tokens' = m_tokens /\ hash' = hash
      /\ m_tokenCount' = m_tokenCount /\ hash \in Int
      /\ \A i : TokenAt(i)' = TokenAt(i)
  BY DEF SearchInv, PartitionForToken, m_tokenCount, TokenAt
<1>1. min <= max => mid \in 0 .. m_tokenCount - 1 /\ min <= mid /\ mid <= max
  BY <1>0, Middle DEF mid, SearchInv
<1>2. CASE min <= max /\ TokenAt(mid).hash < hash /\ Above
  <2>1. \A i \in 0 .. m_tokenCount - 1 : i < mid + 1 => TokenAt(i).hash < hash
    <3> SUFFICES ASSUME NEW i \in 0 .. m_tokenCount - 1, i < mid + 1
                 PROVE  TokenAt(i).hash < hash
      OBVIOUS
    <3>1. i = mid \/ i < mid
      BY <1>1, <1>2
    <3>2. i < mid => TokenAt(i).hash < TokenAt(mid).hash
      BY <1>1, <1>2, Order, Zenon
    <3> QED BY <1>0, <1>1, <1>2, <3>1, <3>2, TokenType
  <2>2. min' = mid + 1 /\ max' = max /\ search' = search /\ partition' = partition
        /\ search = "running"
    BY <1>2, Zenon DEF Above, PartitionForToken
  <2>3. min' \in 0 .. m_tokenCount /\ min' <= max' + 1
    BY <1>0, <1>1, <1>2, <2>2 DEF SearchInv
  <2> QED BY <1>0, <2>1, <2>2, <2>3, Zenon DEF SearchInv, Result
<1>3. CASE min <= max /\ TokenAt(mid).hash > hash /\ Below
  <2>1. \A i \in 0 .. m_tokenCount - 1 : i > mid - 1 => TokenAt(i).hash > hash
    <3> SUFFICES ASSUME NEW i \in 0 .. m_tokenCount - 1, i > mid - 1
                 PROVE  TokenAt(i).hash > hash
      OBVIOUS
    <3>1. i = mid \/ mid < i
      BY <1>1, <1>3
    <3>2. mid < i => TokenAt(mid).hash < TokenAt(i).hash
      BY <1>1, <1>3, Order, Zenon
    <3> QED BY <1>0, <1>1, <1>3, <3>1, <3>2, TokenType
  <2>2. max' = mid - 1 /\ min' = min /\ search' = search /\ partition' = partition
        /\ search = "running"
    BY <1>3, Zenon DEF Below, PartitionForToken
  <2>3. max' \in -1 .. m_tokenCount - 1 /\ min' <= max' + 1
    BY <1>0, <1>1, <1>3, <2>2 DEF SearchInv
  <2> QED BY <1>0, <2>1, <2>2, <2>3, Zenon DEF SearchInv, Result
<1>4. ASSUME NEW p \in Int, Found(p) PROVE SearchInv' /\ mid' = mid
  BY <1>0, <1>4, Zenon DEF Found, SearchInv, mid
<1>5. CASE min <= max /\ TokenAt(mid).hash = hash /\ Found(TokenAt(mid).partition)
  <2>1. TokenAt(mid).partition \in Int
    BY <1>1, <1>5, TokenType, Zenon
  <2>2. SearchInv' /\ mid' = mid
    BY <1>4, <1>5, <2>1, Zenon
  <2>3. min' = min /\ max' = max /\ partition' = TokenAt(mid).partition
    BY <1>5, Zenon DEF Found
  <2>4. TokenAt(mid)' = TokenAt(mid)
    BY <1>0, <2>2, Zenon DEF TokenAt
  <2> QED BY <1>0, <1>5, <2>2, <2>3, <2>4, Zenon DEF Result
<1>6. CASE min > max /\ NotFound
  <2>1. min = max + 1
    BY <1>0, <1>6 DEF SearchInv
  <2>2. CASE min = 0
    <3>1. PICK p \in Stray : Found(p)
      BY <1>6, <2>2, Zenon DEF NotFound
    <3> QED BY <1>4, <2>1, <2>2, <3>1, RingAssumption, Zenon DEF Found, Result
  <2>3. CASE min # 0
    <3>1. min - 1 \in 0 .. m_tokenCount - 1
      BY <1>0, <2>3 DEF SearchInv
    <3>2. Found(TokenAt(min - 1).partition) /\ TokenAt(min - 1).partition \in Int
      BY <1>6, <2>3, <3>1, TokenType, Zenon DEF NotFound
    <3>3. SearchInv'
      BY <1>4, <3>2, Zenon
    <3>4. min' = min /\ max' = max /\ partition' = TokenAt(min - 1).partition
      BY <3>2, Zenon DEF Found
    <3>5. TokenAt(min - 1)' = TokenAt(min - 1)
      BY <1>0, <3>4, Zenon DEF TokenAt
    <3> QED BY <2>1, <3>3, <3>4, <3>5, Zenon DEF Result
  <2> QED BY <2>2, <2>3, Zenon
<1> QED BY <1>2, <1>3, <1>5, <1>6, Zenon DEF PartitionForToken

\* The loop invariant of partitionForToken.
THEOREM SearchInvariant == SearchSpec => [](SearchInv /\ Result)
<1>1. SearchInit => SearchInv /\ Result
  BY DEF SearchInit, SearchInv, Result, m_tokenCount, Sorted
<1>2. SearchInv /\ Result /\ [SearchNext]_searchVars => SearchInv' /\ Result'
  <2>1. ASSUME SearchInv, Result, UNCHANGED searchVars PROVE SearchInv' /\ Result'
    BY <2>1, Zenon DEF searchVars, SearchInv, Result, m_tokenCount, TokenAt, mid
  <2> QED BY <2>1, HashinateInv, IterationInv, Zenon DEF SearchNext
<1> QED BY <1>1, <1>2, PTL DEF SearchSpec

\* What partitionForToken has returned is the partition of the owner.
LEMMA ResultIsOwner ==
  ASSUME SearchInv, Result
  PROVE  FoundOwner
<1> SUFFICES ASSUME search = "done" PROVE FoundOwner
  BY Zenon DEF FoundOwner
<1>0. m_tokenCount \in Nat /\ min \in Int /\ max \in Int /\ hash \in Int
  BY DEF SearchInv, m_tokenCount
<1>1. CASE min <= max /\ TokenAt(mid).hash = hash /\ partition = TokenAt(mid).partition
  <2>1. mid \in 0 .. m_tokenCount - 1
    BY <1>0, <1>1, Middle DEF mid, SearchInv
  <2>2. mid + 1 < m_tokenCount => TokenAt(mid).hash < TokenAt(mid + 1).hash
    BY <1>0, <2>1, Order
  <2>3. Owns(mid)
    BY <1>0, <1>1, <2>2 DEF Owns
  <2> QED BY <1>1, <2>1, <2>3, Zenon DEF FoundOwner
<1>2. CASE min = max + 1 /\ (min = 0 \/ partition = TokenAt(min - 1).partition)
  <2>1. CASE min = 0
    BY <1>0, <1>2, <2>1 DEF FoundOwner, SearchInv
  <2>2. CASE min # 0
    <3>1. min - 1 \in 0 .. m_tokenCount - 1 /\ (min - 1) + 1 = min
      BY <1>0, <2>2 DEF SearchInv
    <3>2. TokenAt(min - 1).hash < hash
      BY <3>1 DEF SearchInv
    <3>3. min < m_tokenCount => hash < TokenAt(min).hash
      BY <1>0, <1>2, <3>1, TokenType DEF SearchInv
    <3>4. Owns(min - 1)
      BY <1>0, <3>1, <3>2, <3>3, TokenType DEF Owns
    <3> QED BY <1>2, <2>2, <3>1, <3>4, Zenon DEF FoundOwner
  <2> QED BY <2>1, <2>2, Zenon
<1> QED BY <1>1, <1>2, Zenon DEF Result

\* partitionForToken returns the partition of the token that owns the hash.
THEOREM SearchFindsOwner == SearchSpec => []FoundOwner
BY SearchInvariant, ResultIsOwner, PTL

\* Every iteration shrinks the range.
THEOREM SearchEnds == SearchSpec => SearchShrinks
<1>1. SearchInv /\ [SearchNext]_searchVars
        => [search = "running" /\ search' = "running" => max' - min' < max - min]_searchVars
  <2> SUFFICES ASSUME SearchInv, SearchNext, search = "running", search' = "running"
               PROVE  max' - min' < max - min
    OBVIOUS
  <2>1. PartitionForToken
    BY Zenon DEF SearchNext, Hashinate
  <2>2. min \in Int /\ max \in Int
    BY DEF SearchInv, m_tokenCount
  <2>3. min <= max /\ (Above \/ Below)
    BY <2>1, Zenon DEF PartitionForToken, NotFound, Found
  <2>4. mid \in Int /\ min <= mid /\ mid <= max
    BY <2>2, <2>3, Middle, Zenon DEF mid
  <2> QED BY <2>2, <2>3, <2>4 DEF Above, Below
<1> QED BY <1>1, SearchInvariant, PTL DEF SearchSpec, SearchShrinks

-----------------------------------------------------------------------------
(* The bag of outstanding requests.                                         *)

RequestsOK(B) ==
  /\ IsABag(B)
  /\ \A r \in DOMAIN B : r.bev \in Bev /\ (r.kind = "topology" => r.since \in 1 .. version)

\* One more request.
LEMMA BagAdd ==
  ASSUME NEW B, IsABag(B), NEW e
  PROVE  /\ IsABag(B (+) SetToBag({e}))
         /\ DOMAIN (B (+) SetToBag({e})) = DOMAIN B \cup {e}
BY DEF IsABag, SetToBag, (+)

\* One request less: the others stay.
LEMMA BagRemove ==
  ASSUME NEW B, IsABag(B), NEW e
  PROVE  /\ IsABag(B (-) SetToBag({e}))
         /\ DOMAIN (B (-) SetToBag({e})) \subseteq DOMAIN B
         /\ \A x \in DOMAIN B : x # e => x \in DOMAIN (B (-) SetToBag({e}))
BY DEF IsABag, SetToBag, (-)

\* The requests of the other connections, when one is lost.
LEMMA BagAnswered ==
  ASSUME NEW B, IsABag(B), NEW b
  PROVE  IsABag(Answered(B, b)) /\ DOMAIN Answered(B, b) = {r \in DOMAIN B : r.bev # b}
BY Zenon DEF IsABag, Answered

\* What invoke makes of the outstanding requests: those that were there, and
\* perhaps a new one.
LEMMA QueuedBag ==
  ASSUME NEW B, RequestsOK(B), version \in Nat, version >= 1,
         NEW kind, NEW bevs \in SUBSET Bev, NEW C \in Queued(B, kind, bevs)
  PROVE  /\ RequestsOK(C) /\ DOMAIN B \subseteq DOMAIN C
         /\ C # B => \E b \in bevs : Request(kind, b) \in DOMAIN C
<1>1. CASE C = B
  BY <1>1, Zenon
<1>2. CASE C # B
  <2>1. PICK b \in bevs : C = B (+) SetToBag({Request(kind, b)})
    BY <1>2, Zenon DEF Queued
  <2>2. IsABag(C) /\ DOMAIN C = DOMAIN B \cup {Request(kind, b)}
    BY <2>1, BagAdd, Zenon DEF RequestsOK
  <2>3. Request(kind, b).bev = b /\ Request(kind, b).kind = kind
        /\ (kind = "topology" => Request(kind, b).since = version)
    BY Zenon DEF Request
  <2> QED BY <2>2, <2>3 DEF RequestsOK
<1> QED BY <1>1, <1>2, Zenon

\* updateHashinator: an update is marked, and unless its request is refused a
\* request of this moment is under way.
LEMMA Updated ==
  ASSUME NEW B, RequestsOK(B), version \in Nat, version >= 1,
         NEW bevs \in SUBSET Bev, NEW subscribe \in BOOLEAN, UpdateHashinator(B, bevs, subscribe)
  PROVE  /\ IsABag(requests')
         /\ \A r \in DOMAIN requests' : r.bev \in Bev /\ (r.kind = "topology" => r.since \in 1 .. version)
         /\ m_isUpdating' = TRUE /\ excused' \in BOOLEAN /\ stranded' = excused'
         /\ excused' = FALSE => \E r \in DOMAIN requests' : r.kind = "topology" /\ r.since = version
<1>1. PICK catalog \in Queued(B, "catalog", bevs) :
        \E topology \in Queued(catalog, "topology", bevs) :
          /\ requests' \in IF subscribe THEN Queued(topology, "subscribe", bevs) ELSE {topology}
          /\ m_isUpdating' = TRUE
          /\ excused' = (topology = catalog) /\ stranded' = (topology = catalog)
  BY Zenon DEF UpdateHashinator
<1>2. PICK topology \in Queued(catalog, "topology", bevs) :
          /\ requests' \in IF subscribe THEN Queued(topology, "subscribe", bevs) ELSE {topology}
          /\ m_isUpdating' = TRUE
          /\ excused' = (topology = catalog) /\ stranded' = (topology = catalog)
  BY <1>1, Zenon
<1>3. RequestsOK(catalog)
  BY QueuedBag, Zenon
<1>4. /\ RequestsOK(topology)
      /\ topology # catalog => \E b \in bevs : Request("topology", b) \in DOMAIN topology
  BY <1>3, QueuedBag
<1>5. RequestsOK(topology) /\ DOMAIN topology \subseteq DOMAIN requests' /\ RequestsOK(requests')
  <2>1. CASE subscribe
    <3>1. requests' \in Queued(topology, "subscribe", bevs)
      BY <1>2, <2>1, Zenon
    <3> QED BY <1>4, <3>1, QueuedBag, Zenon
  <2>2. CASE ~subscribe
    BY <1>2, <1>4, <2>2, Zenon
  <2> QED BY <2>1, <2>2, Zenon
<1>6. topology # catalog => \E r \in DOMAIN requests' : r.kind = "topology" /\ r.since = version
  BY <1>4, <1>5, Zenon DEF Request
<1> QED BY <1>2, <1>5, <1>6, Zenon DEF RequestsOK

-----------------------------------------------------------------------------
(* Updates.  RoutingInv, one action at a time.                              *)

\* What the handlers of the client and the cluster leave alone while no search
\* runs.
LEMMA RouteKept ==
  ASSUME RoutingInv, search = "idle", UNCHANGED route, UNCHANGED legacy
  PROVE  SearchesHashinator' /\ HashinatorPresent' /\ RoutedToLeader'
BY Zenon DEF RoutingInv, route, searchVars, SearchesHashinator, HashinatorPresent, RoutedToLeader

\* The types used most.
LEMMA Types ==
  ASSUME RoutingInv
  PROVE  /\ version \in Nat /\ version >= 1 /\ RequestsOK(requests) /\ Live \subseteq Bev
         /\ excused \in BOOLEAN /\ m_isUpdating \in BOOLEAN
BY DEF RoutingInv, RoutingTypes, RequestsOK, Live, BagToSet

\* The topology request of an update brings the leaders of this moment.
LEMMA UpdateStarted ==
  ASSUME excused' \in BOOLEAN, version' = version,
         excused' = FALSE => \E r \in DOMAIN requests' : r.kind = "topology" /\ r.since = version
  PROVE  LeadersOnTheWay'
<1>1. CASE excused' = TRUE
  BY <1>1, Zenon DEF LeadersOnTheWay
<1>2. CASE excused' = FALSE
  <2>1. PICK r \in DOMAIN requests' : r.kind = "topology" /\ r.since = version
    BY <1>2, Zenon
  <2> QED BY <2>1, Zenon DEF LeadersOnTheWay, BagToSet
<1> QED BY <1>1, <1>2, Zenon

\* setClientAffinity
LEMMA SetClientAffinityInv ==
  ASSUME RoutingInv, search = "idle", NEW enable \in BOOLEAN, SetClientAffinity(enable)
  PROVE  RoutingInv'
<1> USE DEF RoutingInv
<1>1. /\ UNCHANGED <<conns, m_isElastic, tables, m_procedureInfo, server, route, ghosts, told, torn>>
      /\ m_useClientAffinity' = enable /\ Live' = Live
  BY Zenon DEF SetClientAffinity, conns, Live
<1>2. SearchesHashinator' /\ HashinatorPresent' /\ RoutedToLeader'
  BY <1>1, RouteKept, Zenon DEF server
<1>3. HostsKnown' /\ RingMatchesLeaders'
  BY <1>1, Zenon DEF HostsKnown, RingMatchesLeaders, conns, ghosts, tables
<1>4. CASE enable /\ ~m_useClientAffinity /\ Live # {}
  <2>1. UpdateHashinator(requests, Live, TRUE)
    BY <1>4, Zenon DEF SetClientAffinity
  <2>2. /\ IsABag(requests') /\ m_isUpdating' = TRUE /\ excused' \in BOOLEAN
        /\ \A r \in DOMAIN requests' : r.bev \in Bev /\ (r.kind = "topology" => r.since \in 1 .. version)
        /\ excused' = FALSE => \E r \in DOMAIN requests' : r.kind = "topology" /\ r.since = version
    BY <2>1, Types, Updated, Zenon
  <2>3. RoutingTypes'
    BY <1>1, <2>2, Zenon DEF RoutingTypes, BagToSet, conns, tables, server, ghosts
  <2>4. HashinatorOrUpdate'
    BY <2>2, Zenon DEF HashinatorOrUpdate
  <2>5. LeadersOnTheWay'
    BY <1>1, <2>2, UpdateStarted, Zenon DEF server
  <2> QED BY <1>2, <1>3, <2>3, <2>4, <2>5, Zenon
<1>5. CASE ~(enable /\ ~m_useClientAffinity /\ Live # {})
  <2>1. UNCHANGED <<requests, m_isUpdating, excused>>
    BY <1>5, Zenon DEF SetClientAffinity
  <2>2. enable /\ Live # {} => m_useClientAffinity
    BY <1>5, Zenon
  <2>3. RoutingTypes'
    BY <1>1, <2>1, Zenon DEF RoutingTypes, conns, tables, server, ghosts
  <2>4. HashinatorOrUpdate'
    BY <1>1, <2>1, <2>2, Zenon DEF HashinatorOrUpdate, tables, server
  <2>5. LeadersOnTheWay'
    BY <1>1, <2>1, <2>2, Zenon DEF LeadersOnTheWay, tables, server
  <2> QED BY <1>2, <1>3, <2>3, <2>4, <2>5, Zenon
<1> QED BY <1>4, <1>5, Zenon

\* finalizeAuthentication
LEMMA ConnectInv ==
  ASSUME RoutingInv, search = "idle", NEW b \in Bev, NEW h \in HostId, Connect(b, h)
  PROVE  RoutingInv'
<1> USE DEF RoutingInv
<1>1. /\ UNCHANGED <<m_useClientAffinity, m_isElastic, tables, m_procedureInfo, server, route,
                     losses, told, torn>>
      /\ host[b] = NoHost /\ host' = [host EXCEPT ![b] = h]
      /\ m_hostIdToEvent' = [m_hostIdToEvent EXCEPT ![h] = b]
      /\ ambiguous' = (ambiguous \/ \E c \in Live : host[c] = h)
  BY Zenon DEF Connect, Register
<1>2. SearchesHashinator' /\ HashinatorPresent' /\ RoutedToLeader'
  BY <1>1, RouteKept, Zenon DEF server
<1>3. RingMatchesLeaders'
  BY <1>1, Zenon DEF RingMatchesLeaders, tables
<1>4. host' \in [Bev -> HostId \cup {NoHost}] /\ m_hostIdToEvent' \in [HostId -> Bev \cup {NoBev}]
      /\ ambiguous' \in BOOLEAN
  BY <1>1, Zenon DEF RoutingTypes
<1>5. HostsKnown'
  <2> SUFFICES ASSUME ~ambiguous', NEW c \in Bev, host'[c] # NoHost
               PROVE  m_hostIdToEvent'[host'[c]] = c
    BY Zenon DEF HostsKnown, Live
  <2>1. ~ambiguous /\ \A d \in Live : host[d] # h
    BY <1>1, Zenon
  <2>2. CASE c = b
    BY <1>1, <2>2, Zenon DEF RoutingTypes
  <2>3. CASE c # b
    <3>1. c \in Live /\ host'[c] = host[c]
      BY <1>1, <2>3, Zenon DEF RoutingTypes, Live
    <3>2. m_hostIdToEvent[host[c]] = c /\ host[c] # h
      BY <2>1, <3>1, Zenon DEF HostsKnown
    <3> QED BY <1>1, <3>1, <3>2, Zenon DEF RoutingTypes, Live
  <2> QED BY <2>2, <2>3, Zenon
<1>6. CASE m_useClientAffinity
  <2>1. UpdateHashinator(requests, Live \cup {b}, TRUE)
    BY <1>6, Zenon DEF Connect
  <2>2. /\ IsABag(requests') /\ m_isUpdating' = TRUE /\ excused' \in BOOLEAN
        /\ \A r \in DOMAIN requests' : r.bev \in Bev /\ (r.kind = "topology" => r.since \in 1 .. version)
        /\ excused' = FALSE => \E r \in DOMAIN requests' : r.kind = "topology" /\ r.since = version
    BY <2>1, Types, Updated, Zenon
  <2>3. RoutingTypes'
    BY <1>1, <1>4, <2>2, Zenon DEF RoutingTypes, BagToSet, tables, server
  <2>4. HashinatorOrUpdate'
    BY <2>2, Zenon DEF HashinatorOrUpdate
  <2>5. LeadersOnTheWay'
    BY <1>1, <2>2, UpdateStarted, Zenon DEF server
  <2> QED BY <1>2, <1>3, <1>5, <2>3, <2>4, <2>5, Zenon
<1>7. CASE ~m_useClientAffinity
  <2>1. UNCHANGED <<requests, m_isUpdating, excused>>
    BY <1>7, Zenon DEF Connect
  <2>2. RoutingTypes'
    BY <1>1, <1>4, <2>1, Zenon DEF RoutingTypes, tables, server
  <2>3. HashinatorOrUpdate' /\ LeadersOnTheWay'
    BY <1>1, <1>7, Zenon DEF HashinatorOrUpdate, LeadersOnTheWay
  <2> QED BY <1>2, <1>3, <1>5, <2>2, <2>3, Zenon
<1> QED BY <1>6, <1>7, Zenon

\* regularEventCallback
LEMMA LoseInv ==
  ASSUME RoutingInv, search = "idle", NEW b \in Bev, Lose(b)
  PROVE  RoutingInv'
<1> USE DEF RoutingInv
<1>1. /\ UNCHANGED <<m_hostIdToEvent, m_useClientAffinity, m_isElastic, tables, m_procedureInfo,
                     legacy, version, route, ambiguous, told, torn>>
      /\ host' = [host EXCEPT ![b] = NoHost] /\ Live' = Live \ {b}
      /\ subscribed' = subscribed \ {b} /\ notes' = [notes EXCEPT ![b] = <<>>]
  BY Zenon DEF Lose, Live, RoutingTypes
<1>2. SearchesHashinator' /\ HashinatorPresent' /\ RoutedToLeader'
  BY <1>1, RouteKept, Zenon
<1>3. RingMatchesLeaders'
  BY <1>1, Zenon DEF RingMatchesLeaders, tables
<1>4. host' \in [Bev -> HostId \cup {NoHost}] /\ notes' \in [Bev -> Seq(1 .. version)]
      /\ subscribed' \subseteq Bev
  BY <1>1 DEF RoutingTypes
<1>5. HostsKnown'
  <2> SUFFICES ASSUME ~ambiguous, NEW c \in Live \ {b}
               PROVE  m_hostIdToEvent[host'[c]] = c
    BY <1>1, Zenon DEF HostsKnown
  <2>1. host'[c] = host[c]
    BY <1>1, Zenon DEF RoutingTypes, Live
  <2> QED BY <2>1, Zenon DEF HostsKnown
<1>6. RequestsOK(Answered(requests, b))
      /\ DOMAIN Answered(requests, b) = {r \in DOMAIN requests : r.bev # b}
  BY Types, BagAnswered, Zenon DEF RequestsOK
<1>7. CASE m_useClientAffinity /\ Live # {b}
  <2>1. UpdateHashinator(Answered(requests, b), Live \ {b}, FALSE)
    BY <1>7, Zenon DEF Lose
  <2>2. /\ IsABag(requests') /\ m_isUpdating' = TRUE /\ excused' \in BOOLEAN
        /\ \A r \in DOMAIN requests' : r.bev \in Bev /\ (r.kind = "topology" => r.since \in 1 .. version)
        /\ excused' = FALSE => \E r \in DOMAIN requests' : r.kind = "topology" /\ r.since = version
    BY <1>6, <2>1, Types, Updated, Zenon
  <2>3. RoutingTypes'
    BY <1>1, <1>4, <2>2, Zenon DEF RoutingTypes, BagToSet, tables
  <2>4. HashinatorOrUpdate'
    BY <2>2, Zenon DEF HashinatorOrUpdate
  <2>5. LeadersOnTheWay'
    BY <1>1, <2>2, UpdateStarted, Zenon
  <2> QED BY <1>2, <1>3, <1>5, <2>3, <2>4, <2>5, Zenon
<1>8. CASE ~(m_useClientAffinity /\ Live # {b})
  <2>1. /\ requests' = Answered(requests, b) /\ m_isUpdating' = m_isUpdating
        /\ excused' = (excused \/ notes[b] # <<>> \/ \E r \in DOMAIN requests : r.bev = b)
    BY <1>8, Zenon DEF Lose
  <2>2. RoutingTypes'
    <3>1. IsABag(requests') /\ excused' \in BOOLEAN
          /\ \A r \in DOMAIN requests' : r.bev \in Bev /\ (r.kind = "topology" => r.since \in 1 .. version)
      BY <1>6, <2>1, Types, Zenon DEF RequestsOK
    <3> QED BY <1>1, <1>4, <2>1, <3>1, Zenon DEF RoutingTypes, BagToSet, tables
  <2>3. HashinatorOrUpdate' /\ LeadersOnTheWay'
    BY <1>1, <1>8, Zenon DEF HashinatorOrUpdate, LeadersOnTheWay
  <2> QED BY <1>2, <1>3, <1>5, <2>2, <2>3, Zenon
<1> QED BY <1>7, <1>8, Zenon

\* The cluster changes: who is subscribed will hear of it.
LEMMA ChangeInv ==
  ASSUME RoutingInv, search = "idle", Change
  PROVE  RoutingInv'
<1> USE DEF RoutingInv
<1>1. /\ UNCHANGED <<conns, m_useClientAffinity, m_isUpdating, m_isElastic, tables, m_procedureInfo,
                     requests, legacy, subscribed, route, ghosts, told, torn>>
      /\ version < Len(Topology) /\ version' = version + 1
      /\ notes' = [c \in Bev |-> IF c \in subscribed THEN Append(notes[c], version + 1) ELSE notes[c]]
      /\ excused' = (excused \/ subscribed = {})
  BY Zenon DEF Change
<1>2. SearchesHashinator' /\ HashinatorPresent' /\ RoutedToLeader'
  BY <1>1, RouteKept, Zenon
<1>3. HostsKnown' /\ RingMatchesLeaders' /\ HashinatorOrUpdate'
  BY <1>1, Zenon
     DEF HostsKnown, RingMatchesLeaders, HashinatorOrUpdate, Live, conns, ghosts, tables
<1>4. ASSUME NEW c \in Bev PROVE notes[c] \in Seq(Int) /\ notes'[c] \in Seq(1 .. version')
  <2>1. notes[c] \in Seq(1 .. version) /\ version \in Nat
    BY DEF RoutingTypes
  <2>2. 1 .. version \subseteq 1 .. version + 1 /\ version + 1 \in 1 .. version + 1
        /\ 1 .. version \subseteq Int
    BY <2>1
  <2>3. notes[c] \in Seq(1 .. version + 1) /\ notes[c] \in Seq(Int)
    BY <2>1, <2>2
  <2>4. notes'[c] = IF c \in subscribed THEN Append(notes[c], version + 1) ELSE notes[c]
    BY <1>1, Zenon
  <2>5. Append(notes[c], version + 1) \in Seq(1 .. version + 1)
    BY <2>2, <2>3
  <2> QED BY <1>1, <2>3, <2>4, <2>5, Zenon
<1>5. RoutingTypes'
  <2>1. notes' \in [Bev -> Seq(1 .. version')]
    BY <1>1, <1>4, Zenon
  <2>2. version' \in 1 .. Len(Topology) /\ told' \in 0 .. version'
        /\ m_hashinator' \in 0 .. version' /\ m_PartitionToHostId' \in 0 .. version'
        /\ m_savedTopoTable' \in 0 .. version'
    BY <1>1 DEF RoutingTypes, tables
  <2>3. \A r \in BagToSet(requests') : r.bev \in Bev /\ (r.kind = "topology" => r.since \in 1 .. version')
    BY <1>1 DEF RoutingTypes
  <2> QED BY <1>1, <2>1, <2>2, <2>3, Zenon DEF RoutingTypes, conns, ghosts
<1>6. LeadersOnTheWay'
  <2> SUFFICES ASSUME ~excused' PROVE \E c \in Bev : \E i \in DOMAIN notes'[c] : notes'[c][i] = version'
    BY Zenon DEF LeadersOnTheWay
  <2>1. PICK c \in Bev : c \in subscribed
    BY <1>1, Zenon DEF RoutingTypes
  <2>2. notes'[c] = Append(notes[c], version + 1) /\ Len(notes[c]) \in Nat
    BY <1>1, <1>4, <2>1
  <2>3. Len(notes[c]) + 1 \in DOMAIN notes'[c] /\ notes'[c][Len(notes[c]) + 1] = version'
    BY <1>1, <1>4, <2>2
  <2> QED BY <2>3, Zenon
<1> QED BY <1>2, <1>3, <1>5, <1>6, Zenon

\* What updateAffinityTopology keeps, whoever calls it.
LEMMA Applied ==
  ASSUME RoutingInv, NEW v \in 1 .. version, NEW complete \in BOOLEAN,
         UpdateAffinityTopology(v, complete), UNCHANGED <<version, legacy>>
  PROVE  /\ m_isUpdating' \in BOOLEAN /\ m_isElastic' \in BOOLEAN /\ excused' \in BOOLEAN
         /\ torn' \in BOOLEAN /\ told' \in 0 .. version /\ told' >= v /\ told' >= told
         /\ m_hashinator' \in 0 .. version /\ m_PartitionToHostId' \in 0 .. version
         /\ m_savedTopoTable' \in 0 .. version
         /\ RingMatchesLeaders'
         /\ \/ m_isUpdating' = m_isUpdating /\ m_hashinator' = m_hashinator
            \/ legacy \/ m_hashinator' # 0
         /\ ~excused' => ~excused /\ told <= v /\ m_savedTopoTable' = v /\ m_isUpdating' = FALSE
<1>1. told' \in 0 .. version /\ told' >= v /\ told' >= told
  BY DEF RoutingInv, RoutingTypes, UpdateAffinityTopology, Judged, Told
<1>2. excused' = (excused \/ ~complete \/ v < told) /\ torn' = ~complete /\ m_PartitionToHostId' = v
  BY Zenon DEF UpdateAffinityTopology, Judged
<1>3. excused' \in BOOLEAN /\ torn' \in BOOLEAN
  BY <1>2, Zenon
<1>4. v \in Nat /\ told \in Nat /\ v # 0 /\ v \in 0 .. version
  BY DEF RoutingInv, RoutingTypes
<1>5. ~excused' => ~excused /\ told <= v
  <2>1. ~excused' => ~excused /\ ~(v < told)
    BY <1>2, Zenon
  <2> QED BY <1>4, <2>1
<1>6. CASE complete
  <2>1. m_isElastic' = ~legacy /\ m_isUpdating' = FALSE /\ m_savedTopoTable' = v
        /\ m_hashinator' = IF legacy THEN m_hashinator ELSE v
    BY <1>6, Zenon DEF UpdateAffinityTopology
  <2>2. m_isElastic' \in BOOLEAN
    BY <2>1, Zenon
  <2>3. m_hashinator' \in 0 .. version /\ (m_isElastic' => m_hashinator' = v)
    BY <1>4, <2>1, Zenon DEF RoutingInv, RoutingTypes
  <2>4. RingMatchesLeaders'
    BY <1>2, <2>3, Zenon DEF RingMatchesLeaders
  <2>5. legacy \/ m_hashinator' # 0
    BY <1>4, <2>1, Zenon
  <2> QED BY <1>1, <1>2, <1>3, <1>4, <1>5, <2>1, <2>2, <2>3, <2>4, <2>5, ZenonT(30)
<1>7. CASE ~complete
  <2>1. UNCHANGED <<m_hashinator, m_isElastic, m_isUpdating, m_savedTopoTable>>
    BY <1>7, Zenon DEF UpdateAffinityTopology
  <2>2. torn' /\ excused'
    BY <1>2, <1>7, Zenon
  <2> QED BY <1>1, <1>2, <1>3, <1>4, <2>1, <2>2, Zenon
             DEF RingMatchesLeaders, RoutingInv, RoutingTypes
<1> QED BY <1>6, <1>7, Zenon

\* An update that was asked for or notified, the requests and the notifications
\* being the same or one less.
LEMMA AppliedInv ==
  ASSUME RoutingInv, search = "idle", NEW v \in 1 .. version, NEW complete \in BOOLEAN,
         UpdateAffinityTopology(v, complete),
         UNCHANGED <<conns, m_useClientAffinity, legacy, version, subscribed, route, ghosts>>,
         IsABag(requests'), DOMAIN requests' \subseteq DOMAIN requests,
         notes' \in [Bev -> Seq(1 .. version)],
         \/ v = version
         \/ \A c \in Bev : \A i \in DOMAIN notes[c] :
              notes[c][i] = version => \E j \in DOMAIN notes'[c] : notes'[c][j] = version,
         \A r \in DOMAIN requests :
           r.kind = "topology" /\ r.since = version => v = version \/ r \in DOMAIN requests'
  PROVE  RoutingInv'
<1> USE DEF RoutingInv
<1>0. /\ m_isUpdating' \in BOOLEAN /\ m_isElastic' \in BOOLEAN /\ excused' \in BOOLEAN
      /\ torn' \in BOOLEAN /\ told' \in 0 .. version /\ told' >= v /\ told' >= told
      /\ m_hashinator' \in 0 .. version /\ m_PartitionToHostId' \in 0 .. version
      /\ m_savedTopoTable' \in 0 .. version
      /\ RingMatchesLeaders'
      /\ \/ m_isUpdating' = m_isUpdating /\ m_hashinator' = m_hashinator
         \/ legacy \/ m_hashinator' # 0
      /\ ~excused' => ~excused /\ told <= v /\ m_savedTopoTable' = v /\ m_isUpdating' = FALSE
  BY Applied, Zenon
<1>1. version \in Nat /\ version >= 1 /\ told \in Nat /\ v \in Nat /\ v <= version /\ v # 0
  BY DEF RoutingTypes
<1>2. SearchesHashinator' /\ HashinatorPresent' /\ RoutedToLeader'
  BY RouteKept, Zenon
<1>3. Live' = Live /\ HostsKnown'
  BY Zenon DEF HostsKnown, Live, conns, ghosts
<1>4. RoutingTypes'
  BY <1>0, Zenon DEF RoutingTypes, BagToSet, conns, ghosts
<1>5. HashinatorOrUpdate'
  BY <1>0, <1>3 DEF HashinatorOrUpdate
<1>7. LeadersOnTheWay'
  <2> SUFFICES ASSUME m_useClientAffinity, Live # {}, ~excused'
               PROVE  \/ /\ told' = version /\ m_savedTopoTable' # 0
                         /\ Topology[m_savedTopoTable'].leader = Topology[version].leader
                      \/ \E c \in Bev : \E i \in DOMAIN notes'[c] : notes'[c][i] = version
                      \/ \E r \in DOMAIN requests' : r.kind = "topology" /\ r.since = version
    BY <1>3, Zenon DEF LeadersOnTheWay, BagToSet
  <2>1. ~excused /\ told <= v /\ m_savedTopoTable' = v
    BY <1>0, Zenon
  <2>2. CASE v = version
    BY <1>0, <1>1, <2>1, <2>2
  <2>3. CASE v # version
    <3>1. told # version
      BY <1>1, <2>1, <2>3
    <3>2. \/ \E c \in Bev : \E i \in DOMAIN notes[c] : notes[c][i] = version
          \/ \E r \in DOMAIN requests : r.kind = "topology" /\ r.since = version
      BY <2>1, <3>1, Zenon DEF LeadersOnTheWay, BagToSet
    <3>3. CASE \E c \in Bev : \E i \in DOMAIN notes[c] : notes[c][i] = version
      BY <2>3, <3>3, Zenon
    <3>4. CASE \E r \in DOMAIN requests : r.kind = "topology" /\ r.since = version
      BY <2>3, <3>4, Zenon
    <3> QED BY <3>2, <3>3, <3>4, Zenon
  <2> QED BY <2>2, <2>3, Zenon
<1> QED BY <1>0, <1>2, <1>3, <1>4, <1>5, <1>7, Zenon

\* TopoUpdateCallback, when the answer is there.
LEMMA TopoUpdateCallbackInv ==
  ASSUME RoutingInv, search = "idle", NEW r, TopoUpdateCallback(r)
  PROVE  RoutingInv'
<1>1. /\ r.kind = "topology" /\ r \in DOMAIN requests /\ requests' = requests (-) SetToBag({r})
      /\ UNCHANGED <<conns, m_useClientAffinity, m_procedureInfo, server, route, ghosts>>
  BY Zenon DEF TopoUpdateCallback, Answer, BagIn, BagToSet
<1>2. PICK v \in r.since .. version, complete \in BOOLEAN : UpdateAffinityTopology(v, complete)
  BY Zenon DEF TopoUpdateCallback
<1>3. r.since \in 1 .. version /\ version \in Nat
  BY <1>1 DEF RoutingInv, RoutingTypes, BagToSet
<1>4. v \in 1 .. version /\ (r.since = version => v = version)
  BY <1>2, <1>3
<1>5. /\ IsABag(requests') /\ DOMAIN requests' \subseteq DOMAIN requests
      /\ \A x \in DOMAIN requests : x # r => x \in DOMAIN requests'
  BY <1>1, BagRemove, Zenon DEF RoutingInv, RoutingTypes
<1>6. notes' = notes /\ notes' \in [Bev -> Seq(1 .. version)]
      /\ UNCHANGED <<legacy, version, subscribed>>
  BY <1>1, Zenon DEF RoutingInv, RoutingTypes, server
<1> QED BY <1>1, <1>2, <1>4, <1>5, <1>6, AppliedInv, Zenon

\* What is left of a sequence without its first element.
LEMMA TailIs ==
  ASSUME NEW S, NEW s \in Seq(S), s # <<>>
  PROVE  /\ Head(s) \in S /\ Tail(s) \in Seq(S) /\ Len(Tail(s)) = Len(s) - 1
         /\ \A i \in 1 .. Len(Tail(s)) : Tail(s)[i] = s[i + 1]
OBVIOUS

\* TopologyNotificationCallback: a notification of leaders that are known is only
\* remembered as received.
LEMMA TopologyNotificationInv ==
  ASSUME RoutingInv, search = "idle", NEW b \in Bev, TopologyNotification(b)
  PROVE  RoutingInv'
<1> DEFINE v == Head(notes[b])
<1>1. /\ notes[b] # <<>> /\ notes' = [notes EXCEPT ![b] = Tail(@)]
      /\ UNCHANGED <<conns, m_useClientAffinity, m_procedureInfo, requests, legacy, version,
                     subscribed, route, ghosts>>
  BY Zenon DEF TopologyNotification
<1>2. version \in Nat /\ version >= 1 /\ notes[b] \in Seq(1 .. version)
  BY DEF RoutingInv, RoutingTypes
<1>3. v \in 1 .. version /\ Tail(notes[b]) \in Seq(1 .. version) /\ Len(notes[b]) \in Nat
      /\ DOMAIN notes[b] = 1 .. Len(notes[b]) /\ v = notes[b][1]
  <2>1. notes[b] \in Seq(1 .. version) /\ notes[b] # <<>>
    BY <1>1, <1>2, Zenon
  <2>2. Len(notes[b]) \in Nat /\ Len(notes[b]) > 0 /\ DOMAIN notes[b] = 1 .. Len(notes[b])
    BY <2>1
  <2>3. v \in 1 .. version /\ Tail(notes[b]) \in Seq(1 .. version)
    BY <2>1, TailIs, Zenon
  <2>4. v = notes[b][1]
    BY <2>1
  <2> QED BY <2>2, <2>3, <2>4, Zenon
<1>4. notes' \in [Bev -> Seq(1 .. version)]
  BY <1>1, <1>3, Zenon DEF RoutingInv, RoutingTypes
<1>5. \/ v = version
      \/ \A c \in Bev : \A i \in DOMAIN notes[c] :
           notes[c][i] = version => \E j \in DOMAIN notes'[c] : notes'[c][j] = version
  <2> SUFFICES ASSUME v # version, NEW c \in Bev, NEW i \in DOMAIN notes[c], notes[c][i] = version
               PROVE  \E j \in DOMAIN notes'[c] : notes'[c][j] = version
    OBVIOUS
  <2>1. CASE c # b
    <3>1. notes'[c] = notes[c]
      BY <1>1, <2>1, Zenon DEF RoutingInv, RoutingTypes
    <3> QED BY <3>1, Zenon
  <2>2. CASE c = b
    <3>1. notes'[c] = Tail(notes[b])
      BY <1>1, <2>2, Zenon DEF RoutingInv, RoutingTypes
    <3>2. i \in 1 .. Len(notes[b]) /\ i # 1
      BY <1>2, <1>3, <2>2, Zenon
    <3>3. i - 1 \in 1 .. Len(Tail(notes[b])) /\ Tail(notes[b])[i - 1] = notes[b][i]
      <4>1. /\ Len(Tail(notes[b])) = Len(notes[b]) - 1
            /\ \A k \in 1 .. Len(Tail(notes[b])) : Tail(notes[b])[k] = notes[b][k + 1]
        BY <1>1, <1>2, TailIs, Zenon
      <4>2. i - 1 \in 1 .. Len(Tail(notes[b])) /\ (i - 1) + 1 = i
        BY <1>3, <3>2, <4>1
      <4> QED BY <4>1, <4>2, Zenon
    <3>4. i - 1 \in DOMAIN Tail(notes[b])
      BY <1>3, <3>3
    <3> QED BY <2>2, <3>1, <3>3, <3>4, Zenon
  <2> QED BY <2>1, <2>2, Zenon
<1> HIDE DEF v
<1>6. CASE ~SameTable(v)
  <2>1. PICK complete \in BOOLEAN : UpdateAffinityTopology(v, complete)
    BY <1>6, Zenon DEF TopologyNotification, v
  <2>2. IsABag(requests') /\ DOMAIN requests' = DOMAIN requests
    BY <1>1, Zenon DEF RoutingInv, RoutingTypes
  <2> QED BY <1>1, <1>3, <1>4, <1>5, <2>1, <2>2, AppliedInv, Zenon
<1>7. CASE SameTable(v)
  <2>1. Told(v) /\ UNCHANGED <<m_isUpdating, m_isElastic, tables, excused, torn>>
    BY <1>7, Zenon DEF TopologyNotification, v
  <2>2. told' \in 0 .. version /\ told' >= v /\ told' >= told
    BY <1>2, <1>3, <2>1 DEF Told, RoutingInv, RoutingTypes
  <2>3. SearchesHashinator' /\ HashinatorPresent' /\ RoutedToLeader'
    BY <1>1, RouteKept, Zenon
  <2>4. Live' = Live /\ HostsKnown' /\ HashinatorOrUpdate' /\ RingMatchesLeaders'
    BY <1>1, <2>1, Zenon
       DEF RoutingInv, HostsKnown, Live, conns, ghosts, tables, HashinatorOrUpdate,
           RingMatchesLeaders
  <2>5. RoutingTypes'
    BY <1>1, <1>4, <2>1, <2>2, Zenon DEF RoutingInv, RoutingTypes, conns, ghosts, tables
  <2>6. LeadersOnTheWay'
    <3> SUFFICES ASSUME m_useClientAffinity, Live # {}, ~excused
                 PROVE  \/ /\ told' = version /\ m_savedTopoTable # 0
                           /\ Topology[m_savedTopoTable].leader = Topology[version].leader
                        \/ \E c \in Bev : \E i \in DOMAIN notes'[c] : notes'[c][i] = version
                        \/ \E r \in DOMAIN requests : r.kind = "topology" /\ r.since = version
      BY <1>1, <2>1, <2>4, Zenon DEF LeadersOnTheWay, BagToSet, tables
    <3>1. CASE v = version
      BY <1>2, <1>7, <2>2, <3>1 DEF SameTable
    <3>2. CASE v # version
      <4>1. told = version => told' = version
        BY <1>2, <2>2
      <4> QED BY <1>5, <3>2, <4>1, Zenon DEF RoutingInv, LeadersOnTheWay, BagToSet
    <3> QED BY <3>1, <3>2, Zenon
  <2> QED BY <2>3, <2>4, <2>5, <2>6, Zenon DEF RoutingInv
<1> QED BY <1>6, <1>7, Zenon

\* An answer that does not change the tables takes its request away; what is known
\* stays known, unless it was the answer of a topology request and counts as failed.
LEMMA AnswerInv ==
  ASSUME RoutingInv, search = "idle", NEW r, Answer(r),
         UNCHANGED <<conns, m_useClientAffinity, m_isUpdating, m_isElastic, tables, legacy, version,
                     notes, route, ghosts, told, torn>>,
         subscribed' \subseteq Bev, excused' \in BOOLEAN,
         excused' = TRUE \/ (excused' = excused /\ r.kind # "topology")
  PROVE  RoutingInv'
<1> USE DEF RoutingInv
<1>1. /\ IsABag(requests') /\ DOMAIN requests' \subseteq DOMAIN requests
      /\ \A x \in DOMAIN requests : x # r => x \in DOMAIN requests'
  BY BagRemove, Zenon DEF Answer, RoutingTypes
<1>2. SearchesHashinator' /\ HashinatorPresent' /\ RoutedToLeader'
  BY RouteKept, Zenon
<1>3. Live' = Live /\ HostsKnown' /\ HashinatorOrUpdate' /\ RingMatchesLeaders'
  BY Zenon DEF HostsKnown, Live, conns, ghosts, tables, HashinatorOrUpdate, RingMatchesLeaders
<1>4. RoutingTypes'
  BY <1>1, Zenon DEF RoutingTypes, BagToSet, conns, ghosts, tables
<1>5. CASE excused' = TRUE
  BY <1>2, <1>3, <1>4, <1>5, Zenon DEF LeadersOnTheWay
<1>6. CASE excused' = excused /\ r.kind # "topology"
  <2>1. \A x \in DOMAIN requests : x.kind = "topology" => x \in DOMAIN requests'
    BY <1>1, <1>6, Zenon
  <2>2. LeadersOnTheWay'
    BY <1>3, <1>6, <2>1, Zenon DEF LeadersOnTheWay, BagToSet, tables
  <2> QED BY <1>2, <1>3, <1>4, <2>2, Zenon
<1> QED BY <1>5, <1>6, Zenon

\* The callbacks of the client's own requests and the notifications.
LEMMA CallbacksInv ==
  ASSUME RoutingInv, search = "idle", Callbacks
  PROVE  RoutingInv'
<1>1. ASSUME NEW r, TopoUpdateFails(r) PROVE RoutingInv'
  <2>1. excused' = TRUE /\ excused' \in BOOLEAN /\ subscribed' \subseteq Bev
    BY <1>1, Zenon DEF TopoUpdateFails, RoutingInv, RoutingTypes, server
  <2> QED BY <1>1, <2>1, AnswerInv, Zenon DEF TopoUpdateFails, server
<1>2. ASSUME NEW r, ProcUpdateCallback(r) PROVE RoutingInv'
  <2>1. r.kind # "topology" /\ excused' = excused /\ excused' \in BOOLEAN /\ subscribed' \subseteq Bev
    BY <1>2, Zenon DEF ProcUpdateCallback, RoutingInv, RoutingTypes, server
  <2> QED BY <1>2, <2>1, AnswerInv, Zenon DEF ProcUpdateCallback, server
<1>3. ASSUME NEW r, SubscribeCallback(r) PROVE RoutingInv'
  <2>1. r \in DOMAIN requests /\ r.kind # "topology" /\ excused' = excused /\ excused' \in BOOLEAN
    BY <1>3, Zenon DEF SubscribeCallback, Answer, BagIn, BagToSet, RoutingInv, RoutingTypes
  <2>2. subscribed' \subseteq Bev
    BY <1>3, <2>1 DEF SubscribeCallback, RoutingInv, RoutingTypes, BagToSet
  <2> QED BY <1>3, <2>1, <2>2, AnswerInv, Zenon DEF SubscribeCallback
<1> QED BY <1>1, <1>2, <1>3, TopoUpdateCallbackInv, TopologyNotificationInv, Zenon DEF Callbacks

-----------------------------------------------------------------------------
(* An invocation.                                                           *)

\* Choosing a connection changes nothing of what the client knows.
LEMMA KnowledgeKept ==
  ASSUME RoutingInv, UNCHANGED unrouted
  PROVE  /\ RoutingTypes' /\ HostsKnown' /\ HashinatorOrUpdate' /\ LeadersOnTheWay'
         /\ RingMatchesLeaders'
<1> USE DEF RoutingInv, unrouted, conns, tables, server, ghosts
<1>1. RoutingTypes'
  BY Zenon DEF RoutingTypes
<1>2. Live' = Live /\ HostsKnown' /\ HashinatorOrUpdate' /\ RingMatchesLeaders'
  BY Zenon DEF HostsKnown, Live, HashinatorOrUpdate, RingMatchesLeaders
<1>3. LeadersOnTheWay'
  BY <1>2, Zenon DEF LeadersOnTheWay
<1> QED BY <1>1, <1>2, <1>3, Zenon

\* The end of invoke: m_hostIdToEvent leads to the connection of the leader.
LEMMA SendToLeader ==
  ASSUME RoutingInv, NEW b, NEW leader, Send(b, leader)
  PROVE  RoutedToLeader'
<1> DEFINE routed == IF leader = NoHost THEN NoBev ELSE m_hostIdToEvent[leader]
           bev == IF routed \in Live THEN routed ELSE b
<1>1. misrouted' = (misrouted \/ (/\ leader # NoHost /\ host[bev] # leader /\ ~ambiguous
                                  /\ \E c \in Live : host[c] = leader))
  BY Zenon DEF Send
<1>2. ~misrouted
  BY Zenon DEF RoutingInv, RoutedToLeader
<1>3. ASSUME leader # NoHost, ~ambiguous, NEW c \in Live, host[c] = leader
      PROVE  host[bev] = leader
  <2>1. m_hostIdToEvent[leader] = c
    BY <1>3, Zenon DEF RoutingInv, HostsKnown
  <2> QED BY <1>3, <2>1, Zenon
<1> HIDE DEF bev
<1> QED BY <1>1, <1>2, <1>3, Zenon DEF RoutedToLeader

\* The steps of an invocation, up to the search.
LEMMA InvocationInv ==
  ASSUME RoutingInv, search = "idle",
         \/ Invoke
         \/ \E b \in Bev, p \in Proc, key \in Key :
              SendAnywhere(b, p, key) \/ SendUnhashed(b, p, key) \/ HashParameter(b, p, key)
  PROVE  RoutingInv'
<1>1. CASE Invoke
  <2>1. UNCHANGED <<unrouted, misrouted, nulled, searchVars>>
    BY <1>1, Zenon DEF Invoke
  <2>2. SearchesHashinator' /\ HashinatorPresent' /\ RoutedToLeader'
    BY <2>1, Zenon
       DEF RoutingInv, SearchesHashinator, HashinatorPresent, RoutedToLeader, searchVars,
           unrouted, server
  <2> QED BY <2>1, <2>2, KnowledgeKept, Zenon DEF RoutingInv
<1>2. ASSUME NEW b, NEW leader, Send(b, leader), UNCHANGED <<unrouted, nulled, searchVars>>
      PROVE  RoutingInv'
  <2>1. SearchesHashinator' /\ HashinatorPresent'
    BY <1>2, Zenon
       DEF RoutingInv, SearchesHashinator, HashinatorPresent, searchVars, unrouted, server
  <2> QED BY <1>2, <2>1, KnowledgeKept, SendToLeader, Zenon DEF RoutingInv
<1>3. ASSUME NEW b \in Bev, NEW p \in Proc, NEW key \in Key, SendAnywhere(b, p, key)
      PROVE  RoutingInv'
  BY <1>2, <1>3, Zenon DEF SendAnywhere
<1>4. ASSUME NEW b \in Bev, NEW p \in Proc, NEW key \in Key, SendUnhashed(b, p, key)
      PROVE  RoutingInv'
  BY <1>2, <1>4, Zenon DEF SendUnhashed
<1>5. ASSUME NEW b \in Bev, NEW p \in Proc, NEW key \in Key, HashParameter(b, p, key)
      PROVE  RoutingInv'
  <2>1. UNCHANGED unrouted /\ misrouted' = misrouted /\ legacy' = legacy
        /\ m_useClientAffinity /\ ~m_isUpdating /\ Live # {}
    BY <1>5, Zenon DEF HashParameter, Routes, unrouted, server
  <2>2. RoutedToLeader'
    BY <2>1, Zenon DEF RoutingInv, RoutedToLeader
  <2>3. CASE m_hashinator = 0
    <3>1. legacy
      BY <2>1, <2>3, Zenon DEF RoutingInv, HashinatorOrUpdate
    <3>2. search' = "idle"
      BY <1>5, <2>3, Zenon DEF HashParameter, searchVars
    <3> QED BY <2>1, <2>2, <3>1, <3>2, KnowledgeKept, Zenon
               DEF RoutingInv, SearchesHashinator, HashinatorPresent
  <2>4. CASE m_hashinator # 0
    <3>1. nulled' = nulled /\ m_tokens' = Topology[m_hashinator].ring /\ m_hashinator' = m_hashinator
      BY <1>5, <2>1, <2>4, Zenon DEF HashParameter, Hashinate, unrouted, tables
    <3> QED BY <2>1, <2>2, <2>4, <3>1, KnowledgeKept, Zenon
               DEF RoutingInv, SearchesHashinator, HashinatorPresent
  <2> QED BY <2>3, <2>4, Zenon
<1> QED BY <1>1, <1>3, <1>4, <1>5, Zenon

\* An iteration of the search, and the end of the invocation after it.
LEMMA SearchingInv ==
  ASSUME RoutingInv, SearchRing \/ SendHashed
  PROVE  RoutingInv'
<1>1. UNCHANGED unrouted /\ UNCHANGED <<legacy, m_hashinator, nulled>>
  BY Zenon DEF SearchRing, SendHashed, unrouted, server, tables
<1>2. HashinatorPresent'
  BY <1>1, Zenon DEF RoutingInv, HashinatorPresent
<1>3. CASE SearchRing
  <2>1. search = "running" /\ m_tokens' = m_tokens /\ misrouted' = misrouted
    BY <1>3, Zenon DEF SearchRing, PartitionForToken
  <2>2. SearchesHashinator' /\ RoutedToLeader'
    BY <1>1, <2>1, Zenon DEF RoutingInv, SearchesHashinator, RoutedToLeader
  <2> QED BY <1>1, <1>2, <2>2, KnowledgeKept, Zenon DEF RoutingInv
<1>4. CASE SendHashed
  <2>1. RoutedToLeader'
    BY <1>4, SendToLeader, Zenon DEF SendHashed
  <2>2. SearchesHashinator'
    BY <1>4, Zenon DEF SendHashed, SearchesHashinator
  <2> QED BY <1>1, <1>2, <2>1, <2>2, KnowledgeKept, Zenon DEF RoutingInv
<1> QED BY <1>3, <1>4, Zenon

\* A client that starts knows nothing.
LEMMA InitInv == Init => RoutingInv
<1> SUFFICES ASSUME Init PROVE RoutingInv
  OBVIOUS
<1>1. IsABag(requests) /\ DOMAIN requests = {}
  BY Zenon DEF Init, EmptyBag, SetToBag, IsABag
<1>2. 1 \in 1 .. Len(Topology)
  BY RoutingAssumption
<1>3. RoutingTypes
  <2>1. host \in [Bev -> HostId \cup {NoHost}] /\ m_hostIdToEvent \in [HostId -> Bev \cup {NoBev}]
        /\ notes \in [Bev -> Seq(1 .. version)]
    BY DEF Init
  <2>2. version \in 1 .. Len(Topology) /\ told \in 0 .. version /\ m_hashinator \in 0 .. version
        /\ m_PartitionToHostId \in 0 .. version /\ m_savedTopoTable \in 0 .. version
    BY <1>2 DEF Init
  <2> QED BY <1>1, <2>1, <2>2, Zenon DEF Init, RoutingTypes, BagToSet
<1>4. Live = {}
  BY Zenon DEF Init, Live
<1> QED BY <1>3, <1>4, Zenon
           DEF Init, SearchInit, RoutingInv, HostsKnown, HashinatorOrUpdate, LeadersOnTheWay,
               SearchesHashinator, RingMatchesLeaders, HashinatorPresent, RoutedToLeader

\* Every step keeps RoutingInv.
LEMMA NextInv == RoutingInv /\ [Next]_vars => RoutingInv'
<1>1. ASSUME RoutingInv, UNCHANGED vars PROVE RoutingInv'
  <2>1. UNCHANGED unrouted /\ UNCHANGED route /\ UNCHANGED <<legacy, m_hashinator>>
    BY <1>1, Zenon DEF vars, unrouted, server, tables
  <2>2. SearchesHashinator' /\ HashinatorPresent' /\ RoutedToLeader'
    BY <1>1, <2>1, Zenon
       DEF RoutingInv, route, searchVars, SearchesHashinator, HashinatorPresent, RoutedToLeader
  <2> QED BY <1>1, <2>1, <2>2, KnowledgeKept, Zenon DEF RoutingInv
<1> QED BY <1>1, SetClientAffinityInv, ConnectInv, LoseInv, ChangeInv, CallbacksInv,
           InvocationInv, SearchingInv, Zenon
           DEF Next

\* RoutingInv is an invariant of client affinity.
THEOREM RoutingInvariant == Spec => []RoutingInv
BY InitInv, NextInv, PTL DEF Spec

\* updateAffinityTopology replaces the ring and the leaders together.
THEOREM RingAndLeaders == Spec => []RingMatchesLeaders
<1>1. RoutingInv => RingMatchesLeaders
  BY Zenon DEF RoutingInv
<1> QED BY <1>1, RoutingInvariant, PTL

\* A parameter is not hashed without a hashinator, except of a legacy cluster.
THEOREM HashinatorThere == Spec => []HashinatorPresent
<1>1. RoutingInv => HashinatorPresent
  BY Zenon DEF RoutingInv
<1> QED BY <1>1, RoutingInvariant, PTL

\* routeProcedure sends to the leader of the partition if it is connected.
THEOREM LeaderReached == Spec => []RoutedToLeader
<1>1. RoutingInv => RoutedToLeader
  BY Zenon DEF RoutingInv
<1> QED BY <1>1, RoutingInvariant, PTL

\* The steps that change the mark or the requests keep one under way, or say why
\* there is none.
LEMMA UpdateStep == RoutingInv /\ UpdateUnderWay /\ [Next]_vars => UpdateUnderWay'
<1> SUFFICES ASSUME RoutingInv, UpdateUnderWay, [Next]_vars PROVE UpdateUnderWay'
  OBVIOUS
<1>1. ASSUME UNCHANGED <<m_isUpdating, requests, stranded>> PROVE UpdateUnderWay'
  BY <1>1, Zenon DEF UpdateUnderWay, NoTopologyRequest
<1>2. ASSUME NEW B, RequestsOK(B), NEW bevs \in SUBSET Bev, NEW subscribe \in BOOLEAN,
             UpdateHashinator(B, bevs, subscribe)
      PROVE  UpdateUnderWay'
  <2>1. /\ stranded' = excused' /\ excused' \in BOOLEAN
        /\ excused' = FALSE => \E r \in DOMAIN requests' : r.kind = "topology" /\ r.since = version
    BY <1>2, Types, Updated, Zenon
  <2> QED BY <2>1, Zenon DEF UpdateUnderWay, NoTopologyRequest, BagToSet
<1>3. ASSUME NEW enable \in BOOLEAN, SetClientAffinity(enable) PROVE UpdateUnderWay'
  BY <1>1, <1>2, <1>3, Types, Zenon DEF SetClientAffinity
<1>4. ASSUME NEW b \in Bev, NEW h \in HostId, Connect(b, h) PROVE UpdateUnderWay'
  BY <1>1, <1>2, <1>4, Types, Zenon DEF Connect
<1>5. ASSUME NEW b \in Bev, Lose(b) PROVE UpdateUnderWay'
  <2>1. RequestsOK(Answered(requests, b))
        /\ DOMAIN Answered(requests, b) = {r \in DOMAIN requests : r.bev # b}
    BY Types, BagAnswered, Zenon DEF RequestsOK
  <2>2. CASE UpdateHashinator(Answered(requests, b), Live \ {b}, FALSE)
    BY <1>2, <2>1, <2>2, Types, Zenon
  <2>3. CASE /\ requests' = Answered(requests, b) /\ m_isUpdating' = m_isUpdating
             /\ stranded' = \/ stranded
                            \/ \E r \in DOMAIN requests : r.bev = b /\ r.kind = "topology"
    BY <2>1, <2>3, Zenon DEF UpdateUnderWay, NoTopologyRequest, BagToSet
  <2> QED BY <1>5, <2>2, <2>3, Zenon DEF Lose
<1>6. ASSUME NEW r, TopoUpdateCallback(r) \/ TopoUpdateFails(r) PROVE UpdateUnderWay'
  BY <1>6, Zenon DEF TopoUpdateCallback, TopoUpdateFails, UpdateAffinityTopology, UpdateUnderWay
<1>7. ASSUME NEW r, ProcUpdateCallback(r) \/ SubscribeCallback(r) PROVE UpdateUnderWay'
  <2>1. \A x \in DOMAIN requests : x # r => x \in DOMAIN requests'
    BY <1>7, BagRemove, Zenon DEF ProcUpdateCallback, SubscribeCallback, Answer, RoutingInv,
                                 RoutingTypes
  <2>2. r.kind # "topology" /\ UNCHANGED <<m_isUpdating, stranded>>
    BY <1>7, Zenon DEF ProcUpdateCallback, SubscribeCallback
  <2> QED BY <2>1, <2>2, Zenon DEF UpdateUnderWay, NoTopologyRequest, BagToSet
<1>8. ASSUME NEW b \in Bev, TopologyNotification(b) PROVE UpdateUnderWay'
  BY <1>1, <1>8, Zenon DEF TopologyNotification, UpdateAffinityTopology, UpdateUnderWay
<1>9. CASE UNCHANGED vars \/ Change \/ UNCHANGED unrouted
  BY <1>1, <1>9, Zenon DEF vars, Change, unrouted
<1>10. CASE Invoke \/ SearchRing \/ SendHashed
            \/ \E b \in Bev, p \in Proc, key \in Key :
                  SendAnywhere(b, p, key) \/ SendUnhashed(b, p, key) \/ HashParameter(b, p, key)
  BY <1>9, <1>10, Zenon DEF Invoke, SearchRing, SendHashed, SendAnywhere, SendUnhashed,
                            HashParameter
<1> QED BY <1>3, <1>4, <1>5, <1>6, <1>7, <1>8, <1>9, <1>10, Zenon DEF Next, Callbacks

\* While an update is marked as running, a topology request is under way or the last
\* one was refused, failed, was lost or could not be used; and the answer of a
\* topology request ends the update unless it throws half way.
THEOREM UpdateAwaited == Spec => []UpdateUnderWay /\ AnswerEndsUpdate
<1>1. Init => UpdateUnderWay
  BY Zenon DEF Init, UpdateUnderWay
<1>2. Spec => []UpdateUnderWay
  BY <1>1, UpdateStep, RoutingInvariant, PTL DEF Spec
<1>3. [Next]_vars =>
        [\A r \in BagToSet(requests) : TopoUpdateCallback(r) => ~m_isUpdating' \/ torn']_vars
  BY Zenon DEF TopoUpdateCallback, UpdateAffinityTopology, Judged
<1>4. Spec => AnswerEndsUpdate
  BY <1>3, PTL DEF Spec, AnswerEndsUpdate
<1> QED BY <1>2, <1>4, PTL

\* When nothing is under way the client knows the present leaders.
THEOREM LeadersCurrent == Spec => []TopologyCurrent
<1>1. RoutingInv => TopologyCurrent
  <2> SUFFICES ASSUME RoutingInv, m_useClientAffinity, Live # {}, NoTopologyRequest, ~excused,
                      \A b \in Bev : notes[b] = <<>>
               PROVE  m_savedTopoTable # 0 /\ Topology[m_savedTopoTable].leader = Topology[version].leader
    BY Zenon DEF TopologyCurrent
  <2>1. \A b \in Bev : DOMAIN notes[b] = {}
    OBVIOUS
  <2> QED BY <2>1, Zenon DEF RoutingInv, LeadersOnTheWay, NoTopologyRequest
<1> QED BY <1>1, RoutingInvariant, PTL

\* The search of a request and the choice of its leader are by one topology.
OneTopology ==
  search # "idle" /\ m_isElastic /\ ~torn => m_tokens = Topology[m_PartitionToHostId].ring

\* A hash is looked up in the ring of the topology whose leaders are used for it.
THEOREM RoutedByOneTopology == Spec => []OneTopology
<1>1. RoutingInv => OneTopology
  BY Zenon DEF RoutingInv, OneTopology, SearchesHashinator, RingMatchesLeaders
<1> QED BY <1>1, RoutingInvariant, PTL

\* The steps of routing keep the loop invariant of the search: a search starts with
\* the ring of a topology, and its end makes room for the next.
LEMMA SearchKept ==
  ASSUME RoutingInv, SearchInv, Result, [Next]_vars
  PROVE  SearchInv' /\ Result'
<1>1. ASSUME UNCHANGED searchVars PROVE SearchInv' /\ Result'
  BY <1>1, Zenon DEF searchVars, SearchInv, Result, m_tokenCount, TokenAt, mid
<1>2. ASSUME NEW b, NEW p, NEW key \in Key, HashParameter(b, p, key) PROVE SearchInv' /\ Result'
  <2>1. CASE m_hashinator = 0
    BY <1>1, <1>2, <2>1, Zenon DEF HashParameter
  <2>2. CASE m_hashinator # 0
    <3>1. Hashinate(Topology[m_hashinator].ring, key.hash) /\ key.kind = "hashed"
      BY <1>2, <2>2, Zenon DEF HashParameter
    <3>2. m_hashinator \in 1 .. Len(Topology)
      <4>1. version \in 1 .. Len(Topology) /\ m_hashinator \in 0 .. version /\ Len(Topology) \in Nat
        BY RoutingAssumption, Zenon DEF RoutingInv, RoutingTypes
      <4> QED BY <2>2, <4>1
    <3>3. Topology[m_hashinator].ring \in Ring /\ key.hash \in Hash
      BY <3>1, <3>2, RoutingAssumption, Zenon
    <3> QED BY <3>1, <3>3, HashinateInv, Zenon
  <2> QED BY <2>1, <2>2, Zenon
<1>3. ASSUME SearchRing PROVE SearchInv' /\ Result'
  BY <1>3, IterationInv, Zenon DEF SearchRing
<1>4. ASSUME SendHashed PROVE SearchInv' /\ Result'
  <2>1. /\ m_tokens' = <<>> /\ hash' = 0 /\ min' = 0 /\ max' = -1 /\ search' = "idle"
        /\ partition' = 0
    BY <1>4, Zenon DEF SendHashed
  <2> QED BY <2>1 DEF SearchInv, Result, m_tokenCount, Sorted
<1>5. ASSUME Next, ~SearchRing, ~SendHashed,
             ~\E b \in Bev, p \in Proc, key \in Key : HashParameter(b, p, key)
      PROVE  UNCHANGED searchVars
  <2>1. ASSUME Callbacks PROVE UNCHANGED searchVars
    BY <2>1, Zenon
       DEF Callbacks, TopoUpdateCallback, TopoUpdateFails, ProcUpdateCallback, SubscribeCallback,
           TopologyNotification, route
  <2> QED BY <1>5, <2>1, Zenon DEF Next, SetClientAffinity, Connect, Lose, Change, Invoke, SendAnywhere,
                            SendUnhashed, route
<1>6. ASSUME UNCHANGED vars PROVE UNCHANGED searchVars
  BY <1>6, Zenon DEF vars, route
<1> QED BY <1>1, <1>2, <1>3, <1>4, <1>5, <1>6, Zenon

\* Every hash of a routed request is looked up correctly, whatever topologies the
\* client was sent before.
THEOREM OwnerFound == Spec => []FoundOwner
<1>1. Init => SearchInv /\ Result
  BY DEF Init, SearchInit, SearchInv, Result, m_tokenCount, Sorted
<1>2. RoutingInv /\ SearchInv /\ Result /\ [Next]_vars => SearchInv' /\ Result'
  BY SearchKept, Zenon
<1>3. SearchInv /\ Result => FoundOwner
  BY ResultIsOwner, Zenon
<1> QED BY <1>1, <1>2, <1>3, RoutingInvariant, PTL DEF Spec
=============================================================================
