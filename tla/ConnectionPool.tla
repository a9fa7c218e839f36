--------------------------- MODULE ConnectionPool ---------------------------
(***************************************************************************)
(* The pool of clients shared by the threads of a scripting environment:   *)
(* src/src/ConnectionPool.cpp.                                             *)
(*                                                                         *)
(* A thread borrows clients and remembers them in a thread-local list; at  *)
(* the end of its script what it still has goes back to the pool.  One     *)
(* lock protects everything.  A function that calls nothing that blocks is *)
(* one action; acquireClient runs the event loop of pooled clients and     *)
(* connects new ones while it holds the lock, so it takes several.         *)
(* The vectors of clients are sets here: which one is at the back of a     *)
(* vector is not told apart.                                               *)
(***************************************************************************)
EXTENDS Naturals, FiniteSets, Threads

CONSTANTS
  ClientStuff, NoClient,   \* records of a client and its delegating listener
  Identifier,              \* host, port, user and password
  NoIdentifier,            \* of a record not in use
  MaxHandles               \* bound: acquisitions of a client a thread has not returned

ASSUME ClientAssumption == NoClient \notin ClientStuff
ASSUME IdentifierAssumption == NoIdentifier \notin Identifier
ASSUME HandleAssumption == MaxHandles \in Nat

VARIABLES
  gPool,               \* the global pool exists
  m_lock,              \* the thread inside the lock
  m_clients,           \* pooled clients of an identifier
  m_borrowedClients,   \* the thread-local lists
  m_identifier,        \* of every client made so far; the others are not in use
  m_connectionLost,    \* clients whose listener saw a connection loss
  m_listener,          \* the thread whose listener a client forwards to
  pc, identifier, clientStuff,   \* acquireClient: place and local variables
  handles              \* history: acquisitions the thread's script has not returned

poolVars == <<m_clients, m_borrowedClients, m_identifier, m_listener>>
callVars == <<pc, identifier, clientStuff>>
vars == <<gPool, m_lock, poolVars, m_connectionLost, callVars, handles>>

Init ==
  /\ gPool = FALSE /\ m_lock = NoThread
  /\ m_clients = [i \in Identifier |-> {}]
  /\ m_borrowedClients = [t \in Thread |-> {}]
  /\ m_identifier = [c \in ClientStuff |-> NoIdentifier]
  /\ m_connectionLost = {} /\ m_listener = [c \in ClientStuff |-> NoThread]
  /\ pc = [t \in Thread |-> "idle"]
  /\ identifier = [t \in Thread |-> NoIdentifier]
  /\ clientStuff = [t \in Thread |-> NoClient]
  /\ handles = [t \in Thread |-> [c \in ClientStuff |-> 0]]

-----------------------------------------------------------------------------
OnLoad ==
  /\ ~gPool /\ gPool' = TRUE
  /\ UNCHANGED <<m_lock, poolVars, m_connectionLost, callVars, handles>>

\* The environment unloads the library while no thread is inside.  The lists of
\* the threads are not given back: their key is deleted.
OnUnload ==
  /\ gPool /\ \A t \in Thread : pc[t] = "idle"
  /\ gPool' = FALSE
  /\ m_clients' = [i \in Identifier |-> {}]
  /\ m_borrowedClients' = [t \in Thread |-> {}]
  /\ UNCHANGED <<m_lock, m_identifier, m_listener, m_connectionLost, callVars,
                 handles>>

Idle(t) == gPool /\ pc[t] = "idle"

\* The thread has clients of this identifier in its list.
Borrowed(t, i) == {c \in m_borrowedClients[t] : m_identifier[c] = i}

Gets(t, c) == handles' = [handles EXCEPT ![t][c] = @ + 1]

\* acquireClient for an identifier the thread has a client of already: the
\* same client again, whatever became of its connection.
AcquireReuses(t, i) ==
  /\ Idle(t) /\ m_lock = NoThread
  /\ \E c \in Borrowed(t, i) : handles[t][c] < MaxHandles /\ Gets(t, c)
  /\ UNCHANGED <<gPool, m_lock, poolVars, m_connectionLost, callVars>>

AcquireClient(t, i) ==
  /\ Idle(t) /\ m_lock = NoThread /\ Borrowed(t, i) = {}
  /\ m_lock' = t /\ pc' = [pc EXCEPT ![t] = "search"]
  /\ identifier' = [identifier EXCEPT ![t] = i]
  /\ UNCHANGED <<gPool, poolVars, m_connectionLost, clientStuff, handles>>

\* Fault: the client at the back of the vector is tried and not popped.
Search_Peeks(t) ==
  /\ pc[t] = "search"
  /\ \/ \E c \in m_clients[identifier[t]] :
          /\ clientStuff' = [clientStuff EXCEPT ![t] = c]
          /\ pc' = [pc EXCEPT ![t] = "verify"]
     \/ /\ m_clients[identifier[t]] = {}
        /\ pc' = [pc EXCEPT ![t] = "connect"]
        /\ UNCHANGED clientStuff
  /\ UNCHANGED <<gPool, m_lock, poolVars, m_connectionLost, identifier, handles>>

\* The next pooled client, or a new one.
Search(t) ==
  /\ pc[t] = "search"
  /\ \/ \E c \in m_clients[identifier[t]] :
          /\ m_clients' = [m_clients EXCEPT ![identifier[t]] = @ \ {c}]
          /\ clientStuff' = [clientStuff EXCEPT ![t] = c]
          /\ pc' = [pc EXCEPT ![t] = "verify"]
     \/ /\ m_clients[identifier[t]] = {}
        /\ pc' = [pc EXCEPT ![t] = "connect"]
        /\ UNCHANGED <<m_clients, clientStuff>>
  /\ UNCHANGED <<gPool, m_lock, m_borrowedClients, m_identifier, m_listener,
                 m_connectionLost, identifier, handles>>

\* The end of acquireClient: the lock is released.
Leave(t) ==
  /\ m_lock' = NoThread /\ pc' = [pc EXCEPT ![t] = "idle"]
  /\ clientStuff' = [clientStuff EXCEPT ![t] = NoClient]
  /\ UNCHANGED identifier

\* The caller may pass no listener.
Lend(t, c) ==
  /\ \E l \in {t, NoThread} : m_listener' = [m_listener EXCEPT ![c] = l]
  /\ m_borrowedClients' = [m_borrowedClients EXCEPT ![t] = @ \cup {c}]
  /\ Gets(t, c) /\ Leave(t)

\* runOnce() on the pooled client may find its connection lost.  Such a client
\* is dropped and the search goes on; any other is lent.
Verify(t) ==
  /\ pc[t] = "verify"
  /\ \E lost \in {{}, {clientStuff[t]}} : m_connectionLost' = m_connectionLost \cup lost
  /\ IF clientStuff[t] \in m_connectionLost'
     THEN /\ pc' = [pc EXCEPT ![t] = "search"]
          /\ clientStuff' = [clientStuff EXCEPT ![t] = NoClient]
          /\ UNCHANGED <<m_lock, m_borrowedClients, m_listener, identifier, handles>>
     ELSE Lend(t, clientStuff[t])
  /\ UNCHANGED <<gPool, m_clients, m_identifier>>

\* runOnce() throws: the client is dropped with the exception.
VerifyThrows(t) ==
  /\ pc[t] = "verify" /\ Leave(t)
  /\ UNCHANGED <<gPool, poolVars, m_connectionLost, handles>>

Connect(t) ==
  /\ pc[t] = "connect"
  /\ \E c \in ClientStuff :
       /\ m_identifier[c] = NoIdentifier
       /\ m_identifier' = [m_identifier EXCEPT ![c] = identifier[t]]
       /\ Lend(t, c)
  /\ UNCHANGED <<gPool, m_clients, m_connectionLost>>

ConnectThrows(t) ==
  /\ pc[t] = "connect" /\ Leave(t)
  /\ UNCHANGED <<gPool, poolVars, m_connectionLost, handles>>

\* Fault: a client that goes back keeps the listener of the thread.
Pooled_KeepsListener(S) ==
  /\ m_listener' = m_listener
  /\ m_clients' = [i \in Identifier |->
                     m_clients[i] \cup {c \in S : m_identifier[c] = i}]

\* Clients go back to the pool, without a listener.
Pooled(S) ==
  /\ m_listener' = [c \in ClientStuff |-> IF c \in S THEN NoThread ELSE m_listener[c]]
  /\ m_clients' = [i \in Identifier |->
                     m_clients[i] \cup {c \in S : m_identifier[c] = i}]

\* Fault: the client stays in the list of the thread.
Erased_Not(t, c) == m_borrowedClients[t]

Erased(t, c) == m_borrowedClients[t] \ {c}

\* One call gives the client back, however often the thread acquired it.
ReturnClient(t, c) ==
  /\ Idle(t) /\ m_lock = NoThread /\ c \in m_borrowedClients[t] /\ handles[t][c] > 0
  /\ Pooled({c})
  /\ m_borrowedClients' = [m_borrowedClients EXCEPT ![t] = Erased(t, c)]
  /\ handles' = [handles EXCEPT ![t][c] = @ - 1]
  /\ UNCHANGED <<gPool, m_lock, m_identifier, m_connectionLost, callVars>>

\* MisplacedClientException: the thread does not have the client any more.
ReturnThrows(t, c) ==
  /\ Idle(t) /\ m_lock = NoThread /\ c \notin m_borrowedClients[t] /\ handles[t][c] > 0
  /\ handles' = [handles EXCEPT ![t][c] = @ - 1]
  /\ UNCHANGED <<gPool, m_lock, poolVars, m_connectionLost, callVars>>

\* onScriptEnd(), or the destructor of the thread-local list.
CleanupOnScriptEnd(t) ==
  /\ Idle(t) /\ m_lock = NoThread /\ handles[t] # [c \in ClientStuff |-> 0]
  /\ Pooled(m_borrowedClients[t])
  /\ m_borrowedClients' = [m_borrowedClients EXCEPT ![t] = {}]
  /\ handles' = [handles EXCEPT ![t] = [c \in ClientStuff |-> 0]]
  /\ UNCHANGED <<gPool, m_lock, m_identifier, m_connectionLost, callVars>>

\* A script uses a client it acquired, and the connection is lost.
ConnectionLost(t, c) ==
  /\ pc[t] = "idle" /\ handles[t][c] > 0 /\ c \notin m_connectionLost
  /\ m_connectionLost' = m_connectionLost \cup {c}
  /\ UNCHANGED <<gPool, m_lock, poolVars, callVars, handles>>

Inside(t) == Search(t) \/ Verify(t) \/ VerifyThrows(t) \/ Connect(t) \/ ConnectThrows(t)

Next ==
  \/ OnLoad \/ OnUnload
  \/ \E t \in Thread :
       \/ \E i \in Identifier : AcquireReuses(t, i) \/ AcquireClient(t, i)
       \/ Inside(t)
       \/ \E c \in ClientStuff : \/ ReturnClient(t, c) \/ ReturnThrows(t, c)
                                 \/ ConnectionLost(t, c)
       \/ CleanupOnScriptEnd(t)

Spec == Init /\ [][Next]_vars

\* runOnce() does not block, and a connection attempt ends.
FairSpec == Spec /\ \A t \in Thread : WF_vars(Inside(t))

-----------------------------------------------------------------------------
\* The pool's variables hold threads, clients and identifiers.
TypeOK ==
  /\ gPool \in BOOLEAN /\ m_lock \in Thread \cup {NoThread}
  /\ m_clients \in [Identifier -> SUBSET ClientStuff]
  /\ m_borrowedClients \in [Thread -> SUBSET ClientStuff]
  /\ m_identifier \in [ClientStuff -> Identifier \cup {NoIdentifier}]
  /\ m_connectionLost \subseteq ClientStuff
  /\ m_listener \in [ClientStuff -> Thread \cup {NoThread}]
  /\ pc \in [Thread -> {"idle", "search", "verify", "connect"}]
  /\ identifier \in [Thread -> Identifier \cup {NoIdentifier}]
  /\ clientStuff \in [Thread -> ClientStuff \cup {NoClient}]
  /\ handles \in [Thread -> [ClientStuff -> Nat]]

\* A client is in the list of one thread, or pooled, or in the hands of one
\* acquireClient: no order of calls of several threads lends it twice.
OneOwner ==
  \A c \in ClientStuff :
    /\ \A t, u \in Thread : c \in m_borrowedClients[t] /\ c \in m_borrowedClients[u] => t = u
    /\ \A t \in Thread, i \in Identifier :
         ~(c \in m_borrowedClients[t] /\ c \in m_clients[i])
    /\ \A t, u \in Thread : clientStuff[t] = c => c \notin m_borrowedClients[u]
    /\ \A t \in Thread, i \in Identifier : clientStuff[t] = c => c \notin m_clients[i]

\* A pooled client reports to nobody, and a borrowed one at most to its
\* borrower: no thread hears of a connection it gave back.
ListenerIsBorrower ==
  \A c \in ClientStuff :
    /\ \A i \in Identifier : c \in m_clients[i] => m_listener[c] = NoThread
    /\ \A t \in Thread : c \in m_borrowedClients[t] => m_listener[c] \in {t, NoThread}

\* A client the pool holds for an identifier was connected for it.
PooledForItsIdentifier ==
  \A i \in Identifier : \A c \in m_clients[i] : m_identifier[c] = i

\* Clients are not thread safe: two scripts never use the same one.
OneUser ==
  \A c \in ClientStuff : \A t, u \in Thread :
    handles[t][c] > 0 /\ handles[u][c] > 0 => t = u

\* The lock is released: the search for a live client ends.
LockReleased == \A t \in Thread : m_lock = t ~> m_lock # t

-----------------------------------------------------------------------------
\* The lock's holder is the one thread inside acquireClient.
LockInv ==
  /\ \A t \in Thread : pc[t] # "idle" <=> m_lock = t
  /\ \A t \in Thread : pc[t] = "verify" <=> clientStuff[t] # NoClient
  /\ \A t \in Thread : pc[t] # "idle" => identifier[t] \in Identifier

\* A client not made yet is nowhere; a client about to be lent has no listener.
FreshInv ==
  /\ \A c \in ClientStuff : m_identifier[c] = NoIdentifier =>
       /\ \A i \in Identifier : c \notin m_clients[i]
       /\ \A t \in Thread : c \notin m_borrowedClients[t] /\ clientStuff[t] # c
  /\ \A t \in Thread : clientStuff[t] # NoClient =>
       m_identifier[clientStuff[t]] = identifier[t]

\* The inductive invariant of the ownership theorems.
PoolInv == TypeOK /\ LockInv /\ FreshInv /\ OneOwner /\ ListenerIsBorrower
           /\ PooledForItsIdentifier
=============================================================================
