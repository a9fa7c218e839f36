-------------------------- MODULE ConnectionProofs --------------------------
(***************************************************************************)
(* The smaller components around the client, one section each.             *)
(* ConnectionPool: ownership, for any number of threads, clients and       *)
(* identifiers.  Framing: the reader stays in step with the byte stream,   *)
(* and so implements MessageChannel, for every set of lengths and every    *)
(* way the bytes arrive.  Wakeup: no wakeup counts twice and none is       *)
(* forgotten, for any number of threads and any size of the pipe.          *)
(***************************************************************************)
EXTENDS ConnectionPool, Framing, Wakeup, TLAPS

-----------------------------------------------------------------------------
(* ConnectionPool.                                                          *)

USE DEF poolVars, callVars

\* The pool is made.
LEMMA OnLoadInv ==
  ASSUME PoolInv, OnLoad PROVE PoolInv'
<1> USE ThreadAssumption, ClientAssumption, IdentifierAssumption, HandleAssumption
    DEF PoolInv, TypeOK, OnLoad
<1>1. TypeOK'
  OBVIOUS
<1>2. LockInv'
  BY Zenon DEF LockInv
<1>3. FreshInv'
  BY Zenon DEF FreshInv, LockInv
<1>4. OneOwner'
  BY Zenon DEF OneOwner, FreshInv, LockInv
<1>5. ListenerIsBorrower'
  BY Zenon DEF ListenerIsBorrower, OneOwner, FreshInv, LockInv
<1>6. PooledForItsIdentifier'
  BY Zenon DEF PooledForItsIdentifier, FreshInv
<1> QED BY <1>1, <1>2, <1>3, <1>4, <1>5, <1>6, Zenon

\* The pool and the lists of the threads go.
LEMMA OnUnloadInv ==
  ASSUME PoolInv, OnUnload PROVE PoolInv'
<1> USE ThreadAssumption, ClientAssumption, IdentifierAssumption, HandleAssumption
    DEF PoolInv, TypeOK, OnUnload
<1>1. TypeOK'
  BY Zenon
<1>2. LockInv'
  BY Zenon DEF LockInv
<1>3. FreshInv'
  BY Zenon DEF FreshInv, LockInv
<1>4. OneOwner'
  BY Zenon DEF OneOwner, FreshInv, LockInv
<1>5. ListenerIsBorrower'
  BY Zenon DEF ListenerIsBorrower, OneOwner, FreshInv, LockInv
<1>6. PooledForItsIdentifier'
  BY Zenon DEF PooledForItsIdentifier, FreshInv
<1> QED BY <1>1, <1>2, <1>3, <1>4, <1>5, <1>6, Zenon

\* A thread gets a client of its list again.
LEMMA AcquireReusesInv ==
  ASSUME NEW t \in Thread, NEW i \in Identifier, PoolInv, AcquireReuses(t, i) PROVE PoolInv'
<1> USE ThreadAssumption, ClientAssumption, IdentifierAssumption, HandleAssumption
    DEF PoolInv, TypeOK, AcquireReuses, Idle, Borrowed, Gets
<1>1. TypeOK'
  OBVIOUS
<1>2. LockInv'
  BY Zenon DEF LockInv
<1>3. FreshInv'
  BY Zenon DEF FreshInv, LockInv
<1>4. OneOwner'
  BY Zenon DEF OneOwner, FreshInv, LockInv
<1>5. ListenerIsBorrower'
  BY Zenon DEF ListenerIsBorrower, OneOwner, FreshInv, LockInv
<1>6. PooledForItsIdentifier'
  BY Zenon DEF PooledForItsIdentifier, FreshInv
<1> QED BY <1>1, <1>2, <1>3, <1>4, <1>5, <1>6, Zenon

\* A thread enters the lock.
LEMMA AcquireClientInv ==
  ASSUME NEW t \in Thread, NEW i \in Identifier, PoolInv, AcquireClient(t, i) PROVE PoolInv'
<1> USE ThreadAssumption, ClientAssumption, IdentifierAssumption, HandleAssumption
    DEF PoolInv, TypeOK, AcquireClient, Idle, Borrowed
<1>1. TypeOK'
  OBVIOUS
<1>2. LockInv'
  BY Zenon DEF LockInv
<1>3. FreshInv'
  BY Zenon DEF FreshInv, LockInv
<1>4. OneOwner'
  BY Zenon DEF OneOwner, FreshInv, LockInv
<1>5. ListenerIsBorrower'
  BY Zenon DEF ListenerIsBorrower, OneOwner, FreshInv, LockInv
<1>6. PooledForItsIdentifier'
  BY Zenon DEF PooledForItsIdentifier, FreshInv
<1> QED BY <1>1, <1>2, <1>3, <1>4, <1>5, <1>6, Zenon

\* A pooled client leaves the pool into the hands of the caller.
LEMMA SearchInv ==
  ASSUME NEW t \in Thread, PoolInv, Search(t) PROVE PoolInv'
<1> USE ThreadAssumption, ClientAssumption, IdentifierAssumption
    DEF PoolInv, TypeOK
<1>1. identifier[t] \in Identifier
  BY Zenon DEF Search, LockInv
<1>2. ASSUME NEW c \in m_clients[identifier[t]],
             m_clients' = [m_clients EXCEPT ![identifier[t]] = @ \ {c}],
             clientStuff' = [clientStuff EXCEPT ![t] = c],
             pc' = [pc EXCEPT ![t] = "verify"]
      PROVE  PoolInv'
  <2> USE <1>1 DEF Search
  <2>0. c \in ClientStuff /\ m_identifier[c] = identifier[t]
    BY Zenon DEF PooledForItsIdentifier
  <2>1. TypeOK'
    BY <1>2, <2>0, Zenon
  <2>2. LockInv'
    BY <1>2, <2>0, Zenon DEF LockInv
  <2>3. FreshInv'
    BY <1>2, <2>0 DEF FreshInv, LockInv, PooledForItsIdentifier
  <2>4. OneOwner'
    BY <1>2, <2>0 DEF OneOwner, PooledForItsIdentifier, LockInv
  <2>5. ListenerIsBorrower'
    BY <1>2, <2>0 DEF ListenerIsBorrower, OneOwner, FreshInv, LockInv
  <2>6. PooledForItsIdentifier'
    BY <1>2, <2>0, Zenon DEF PooledForItsIdentifier, FreshInv
  <2> QED BY <2>1, <2>2, <2>3, <2>4, <2>5, <2>6, Zenon
<1>3. ASSUME m_clients[identifier[t]] = {}, pc' = [pc EXCEPT ![t] = "connect"],
             UNCHANGED <<m_clients, clientStuff>>
      PROVE  PoolInv'
  <2> USE DEF Search
  <2>1. TypeOK'
    BY <1>3, Zenon
  <2>2. LockInv'
    BY <1>3, Zenon DEF LockInv
  <2>3. FreshInv'
    BY <1>3, Zenon DEF FreshInv, LockInv, PooledForItsIdentifier
  <2>4. OneOwner'
    BY <1>3, Zenon DEF OneOwner, FreshInv, LockInv
  <2>5. ListenerIsBorrower'
    BY <1>3, Zenon DEF ListenerIsBorrower, OneOwner, FreshInv, LockInv
  <2>6. PooledForItsIdentifier'
    BY <1>3, Zenon DEF PooledForItsIdentifier, FreshInv
  <2> QED BY <2>1, <2>2, <2>3, <2>4, <2>5, <2>6, Zenon
<1> QED BY <1>2, <1>3, Zenon DEF Search

\* The client is lent to the caller, or dropped.
LEMMA VerifyInv ==
  ASSUME NEW t \in Thread, PoolInv, Verify(t) PROVE PoolInv'
<1> USE ThreadAssumption, ClientAssumption, IdentifierAssumption
    DEF PoolInv, TypeOK
<1> DEFINE c == clientStuff[t]
<1>1. c \in ClientStuff
  BY Zenon DEF Verify, LockInv
<1>2. CASE c \in m_connectionLost'
  <2> USE <1>1 DEF Verify
  <2>1. TypeOK'
    BY <1>2, Zenon
  <2>2. LockInv'
    BY <1>2 DEF LockInv
  <2>3. FreshInv'
    BY <1>2 DEF FreshInv, LockInv, PooledForItsIdentifier
  <2>4. OneOwner'
    BY <1>2 DEF OneOwner, FreshInv, LockInv
  <2>5. ListenerIsBorrower'
    BY <1>2, Zenon DEF ListenerIsBorrower, OneOwner, FreshInv, LockInv
  <2>6. PooledForItsIdentifier'
    BY <1>2, Zenon DEF PooledForItsIdentifier, FreshInv
  <2> QED BY <2>1, <2>2, <2>3, <2>4, <2>5, <2>6, Zenon
<1>3. CASE c \notin m_connectionLost'
  <2>0. Lend(t, c) /\ m_connectionLost' \subseteq ClientStuff
        /\ UNCHANGED <<gPool, m_clients, m_identifier>> /\ pc[t] = "verify"
    BY <1>1, <1>3, Zenon DEF Verify
  <2> HIDE DEF c
  <2> USE <1>1, <2>0 DEF Lend, Leave, Gets
  <2>c. clientStuff[t] = c
    BY Zenon DEF c
  <2>1. TypeOK'
    BY <2>c
  <2>2. LockInv'
    BY <2>c DEF LockInv
  <2>3. FreshInv'
    BY <2>c DEF FreshInv, LockInv, PooledForItsIdentifier
  <2>4. OneOwner'
    BY <2>c DEF OneOwner, FreshInv, LockInv
  <2>5. ListenerIsBorrower'
    BY <2>c DEF ListenerIsBorrower, OneOwner, FreshInv, LockInv
  <2>6. PooledForItsIdentifier'
    BY <2>c DEF PooledForItsIdentifier, FreshInv
  <2> QED BY <2>1, <2>2, <2>3, <2>4, <2>5, <2>6, Zenon
<1> QED BY <1>2, <1>3, Zenon

\* runOnce() throws.
LEMMA VerifyThrowsInv ==
  ASSUME NEW t \in Thread, PoolInv, VerifyThrows(t) PROVE PoolInv'
<1> USE ThreadAssumption, ClientAssumption, IdentifierAssumption, HandleAssumption
    DEF PoolInv, TypeOK, VerifyThrows, Leave
<1>1. TypeOK'
  OBVIOUS
<1>2. LockInv'
  BY Zenon DEF LockInv
<1>3. FreshInv'
  BY DEF FreshInv, LockInv
<1>4. OneOwner'
  BY DEF OneOwner, FreshInv, LockInv
<1>5. ListenerIsBorrower'
  BY Zenon DEF ListenerIsBorrower, OneOwner, FreshInv, LockInv
<1>6. PooledForItsIdentifier'
  BY Zenon DEF PooledForItsIdentifier, FreshInv
<1> QED BY <1>1, <1>2, <1>3, <1>4, <1>5, <1>6, Zenon

\* A new client is lent.
LEMMA ConnectInv ==
  ASSUME NEW t \in Thread, PoolInv, Connect(t) PROVE PoolInv'
<1> USE ThreadAssumption, ClientAssumption, IdentifierAssumption, HandleAssumption
    DEF PoolInv, TypeOK, Connect, Lend, Leave, Gets
<1>1. TypeOK'
  OBVIOUS
<1>2. LockInv'
  BY DEF LockInv
<1>3. FreshInv'
  BY DEF FreshInv, LockInv
<1>4. OneOwner'
  BY DEF OneOwner, FreshInv, LockInv
<1>5. ListenerIsBorrower'
  BY DEF ListenerIsBorrower, OneOwner, FreshInv, LockInv
<1>6. PooledForItsIdentifier'
  BY DEF PooledForItsIdentifier, FreshInv
<1> QED BY <1>1, <1>2, <1>3, <1>4, <1>5, <1>6, Zenon

\* createConnection() throws.
LEMMA ConnectThrowsInv ==
  ASSUME NEW t \in Thread, PoolInv, ConnectThrows(t) PROVE PoolInv'
<1> USE ThreadAssumption, ClientAssumption, IdentifierAssumption, HandleAssumption
    DEF PoolInv, TypeOK, ConnectThrows, Leave
<1>1. TypeOK'
  OBVIOUS
<1>2. LockInv'
  BY Zenon DEF LockInv
<1>3. FreshInv'
  BY DEF FreshInv, LockInv
<1>4. OneOwner'
  BY DEF OneOwner, FreshInv, LockInv
<1>5. ListenerIsBorrower'
  BY Zenon DEF ListenerIsBorrower, OneOwner, FreshInv, LockInv
<1>6. PooledForItsIdentifier'
  BY Zenon DEF PooledForItsIdentifier, FreshInv
<1> QED BY <1>1, <1>2, <1>3, <1>4, <1>5, <1>6, Zenon

\* One client goes back.
LEMMA ReturnClientInv ==
  ASSUME NEW t \in Thread, NEW c \in ClientStuff, PoolInv, ReturnClient(t, c) PROVE PoolInv'
<1> USE ThreadAssumption, ClientAssumption, IdentifierAssumption, HandleAssumption
    DEF PoolInv, TypeOK, ReturnClient, Idle, Pooled, Erased
<1>1. TypeOK'
  OBVIOUS
<1>2. LockInv'
  BY Zenon DEF LockInv
<1>3. FreshInv'
  BY Zenon DEF FreshInv, LockInv
<1>4. OneOwner'
  BY DEF OneOwner, FreshInv, LockInv
<1>5. ListenerIsBorrower'
  BY DEF ListenerIsBorrower, OneOwner, FreshInv, LockInv
<1>6. PooledForItsIdentifier'
  BY Zenon DEF PooledForItsIdentifier, FreshInv
<1> QED BY <1>1, <1>2, <1>3, <1>4, <1>5, <1>6, Zenon

\* The thread does not have the client.
LEMMA ReturnThrowsInv ==
  ASSUME NEW t \in Thread, NEW c \in ClientStuff, PoolInv, ReturnThrows(t, c) PROVE PoolInv'
<1> USE ThreadAssumption, ClientAssumption, IdentifierAssumption, HandleAssumption
    DEF PoolInv, TypeOK, ReturnThrows, Idle
<1>1. TypeOK'
  OBVIOUS
<1>2. LockInv'
  BY Zenon DEF LockInv
<1>3. FreshInv'
  BY Zenon DEF FreshInv, LockInv
<1>4. OneOwner'
  BY Zenon DEF OneOwner, FreshInv, LockInv
<1>5. ListenerIsBorrower'
  BY Zenon DEF ListenerIsBorrower, OneOwner, FreshInv, LockInv
<1>6. PooledForItsIdentifier'
  BY Zenon DEF PooledForItsIdentifier, FreshInv
<1> QED BY <1>1, <1>2, <1>3, <1>4, <1>5, <1>6, Zenon

\* Everything a thread borrowed goes back.
LEMMA CleanupOnScriptEndInv ==
  ASSUME NEW t \in Thread, PoolInv, CleanupOnScriptEnd(t) PROVE PoolInv'
<1> USE ThreadAssumption, ClientAssumption, IdentifierAssumption, HandleAssumption
    DEF PoolInv, TypeOK, CleanupOnScriptEnd, Idle, Pooled
<1>1. TypeOK'
  OBVIOUS
<1>2. LockInv'
  BY Zenon DEF LockInv
<1>3. FreshInv'
  BY Zenon DEF FreshInv, LockInv
<1>4. OneOwner'
  BY DEF OneOwner, FreshInv, LockInv
<1>5. ListenerIsBorrower'
  BY DEF ListenerIsBorrower, OneOwner, FreshInv, LockInv
<1>6. PooledForItsIdentifier'
  BY Zenon DEF PooledForItsIdentifier, FreshInv
<1> QED BY <1>1, <1>2, <1>3, <1>4, <1>5, <1>6, Zenon

\* A borrowed client loses its connection.
LEMMA ConnectionLostInv ==
  ASSUME NEW t \in Thread, NEW c \in ClientStuff, PoolInv, ConnectionLost(t, c) PROVE PoolInv'
<1> USE ThreadAssumption, ClientAssumption, IdentifierAssumption, HandleAssumption
    DEF PoolInv, TypeOK, ConnectionLost
<1>1. TypeOK'
  OBVIOUS
<1>2. LockInv'
  BY Zenon DEF LockInv
<1>3. FreshInv'
  BY Zenon DEF FreshInv, LockInv
<1>4. OneOwner'
  BY Zenon DEF OneOwner, FreshInv, LockInv
<1>5. ListenerIsBorrower'
  BY Zenon DEF ListenerIsBorrower, OneOwner, FreshInv, LockInv
<1>6. PooledForItsIdentifier'
  BY Zenon DEF PooledForItsIdentifier, FreshInv
<1> QED BY <1>1, <1>2, <1>3, <1>4, <1>5, <1>6, Zenon

\* An empty pool with a free lock satisfies the inductive invariant.
LEMMA PoolInit == ASSUME Init PROVE PoolInv
<1> USE ThreadAssumption, ClientAssumption, IdentifierAssumption DEF Init
<1>1. TypeOK
  BY Zenon DEF TypeOK
<1>2. LockInv /\ FreshInv
  BY Zenon DEF LockInv, FreshInv
<1>3. OneOwner /\ ListenerIsBorrower /\ PooledForItsIdentifier
  BY Zenon DEF OneOwner, ListenerIsBorrower, PooledForItsIdentifier
<1> QED BY <1>1, <1>2, <1>3, Zenon DEF PoolInv

\* Every step of every thread preserves the inductive invariant.
LEMMA PoolNext == ASSUME PoolInv, [Next]_vars PROVE PoolInv'
<1>1. CASE OnLoad \/ OnUnload
  BY <1>1, OnLoadInv, OnUnloadInv, Zenon
<1>2. ASSUME NEW t \in Thread, Inside(t) PROVE PoolInv'
  BY <1>2, SearchInv, VerifyInv, VerifyThrowsInv, ConnectInv, ConnectThrowsInv, Zenon DEF Inside
<1>3. ASSUME NEW t \in Thread, NEW i \in Identifier,
             AcquireReuses(t, i) \/ AcquireClient(t, i)
      PROVE  PoolInv'
  BY <1>3, AcquireReusesInv, AcquireClientInv, Zenon
<1>4. ASSUME NEW t \in Thread, NEW c \in ClientStuff,
             ReturnClient(t, c) \/ ReturnThrows(t, c) \/ ConnectionLost(t, c)
      PROVE  PoolInv'
  BY <1>4, ReturnClientInv, ReturnThrowsInv, ConnectionLostInv, Zenon
<1>5. ASSUME NEW t \in Thread, CleanupOnScriptEnd(t) PROVE PoolInv'
  BY <1>5, CleanupOnScriptEndInv, Zenon
<1>6. CASE UNCHANGED vars
  BY <1>6, Zenon
     DEF vars, PoolInv, TypeOK, LockInv, FreshInv, OneOwner, ListenerIsBorrower,
         PooledForItsIdentifier
<1> QED BY <1>1, <1>2, <1>3, <1>4, <1>5, <1>6, Zenon DEF Next

\* The invariant of the pool holds in every execution.
THEOREM PoolInvariance == Spec => []PoolInv
<1>1. Init => PoolInv
  BY PoolInit, Zenon
<1>2. PoolInv /\ [Next]_vars => PoolInv'
  BY PoolNext, Zenon
<1> QED BY <1>1, <1>2, PTL DEF Spec

\* No order of acquireClient, returnClient and script ends of any number of
\* threads puts a client in two places.
THEOREM ClientHasOneOwner == Spec => []OneOwner
<1>1. PoolInv => OneOwner
  BY Zenon DEF PoolInv
<1> QED BY <1>1, PoolInvariance, PTL

\* The listener of a thread hears of no client the thread gave back.
THEOREM ListenerFollowsClient == Spec => []ListenerIsBorrower
<1>1. PoolInv => ListenerIsBorrower
  BY Zenon DEF PoolInv
<1> QED BY <1>1, PoolInvariance, PTL

-----------------------------------------------------------------------------
(* Framing.                                                                 *)

USE DEF Header

\* The last extent of a sequence of them.
LEMMA LastExtent ==
  ASSUME NEW s \in Seq(Extent), s # <<>>
  PROVE  Len(s) \in DOMAIN s /\ s[Len(s)] \in Extent /\ s[Len(s)].at + s[Len(s)].length \in Nat
<1>1. Len(s) \in DOMAIN s
  OBVIOUS
<1>2. s[Len(s)] \in Extent
  BY <1>1
<1>3. s[Len(s)].at \in Nat /\ s[Len(s)].length \in Nat
  BY <1>2, Zenon DEF Extent
<1> QED BY <1>1, <1>2, <1>3

\* The stream has a length, and the reader an offset in it.
LEMMA OffsetsNat ==
  ASSUME FramingTypeOK
  PROVE  Total \in Nat /\ NextStart \in Nat
<1>1. Total \in Nat
  BY LastExtent, Zenon DEF FramingTypeOK, Total
<1>2. NextStart \in Nat
  BY LastExtent, Zenon DEF FramingTypeOK, NextStart
<1> QED BY <1>1, <1>2, Zenon

\* The body after the delivered ones is right behind the next header.
LEMMA NextBody ==
  ASSUME FramingInv, Len(delivered) < Len(sent)
  PROVE  /\ Len(delivered) + 1 \in DOMAIN sent
         /\ sent[Len(delivered) + 1] \in Extent
         /\ sent[Len(delivered) + 1].at = NextStart + Header
         /\ sent[Len(delivered) + 1].length \in Lengths
<1>1. Len(delivered) \in Nat /\ Len(delivered) + 1 \in DOMAIN sent
  BY DEF FramingInv, FramingTypeOK
<1>2. sent[Len(delivered) + 1] \in Extent
  BY <1>1 DEF FramingInv, FramingTypeOK
<1>3. CASE delivered = <<>>
  BY <1>1, <1>2, <1>3 DEF FramingInv, Layout, NextStart, FramingTypeOK, Extent
<1>4. CASE delivered # <<>>
  <2>1. Len(delivered) \in DOMAIN delivered /\ Len(delivered) # 0
    BY <1>4 DEF FramingInv, FramingTypeOK
  <2>2. delivered[Len(delivered)] = sent[Len(delivered)]
    BY <2>1, Zenon DEF FramingInv, InStep
  <2>3. Len(delivered) + 1 # 1 /\ (Len(delivered) + 1) - 1 = Len(delivered)
    BY <1>1, <2>1
  <2>4. sent[Len(delivered) + 1].at = Header + (sent[Len(delivered)].at + sent[Len(delivered)].length)
    BY <1>1, <2>3, Zenon DEF FramingInv, Layout
  <2>5. sent[Len(delivered)] \in Extent
    BY <2>1, <2>2 DEF FramingInv, FramingTypeOK
  <2>6. sent[Len(delivered) + 1].length \in Lengths
    BY <1>1, Zenon DEF FramingInv, Layout
  <2> QED BY <1>1, <1>2, <1>4, <2>2, <2>4, <2>5, <2>6 DEF NextStart, Extent
<1> QED BY <1>3, <1>4, Zenon

\* When everything sent was delivered, the reader is at the end of the stream.
LEMMA NoNextBody ==
  ASSUME FramingInv, Len(delivered) = Len(sent)
  PROVE  NextStart = Total
<1>1. CASE sent = <<>>
  BY <1>1 DEF FramingInv, FramingTypeOK, NextStart, Total
<1>2. CASE sent # <<>>
  <2>1. delivered # <<>> /\ Len(delivered) \in DOMAIN delivered
    BY <1>2 DEF FramingInv, FramingTypeOK
  <2> QED BY <1>2, <2>1, Zenon DEF FramingInv, InStep, NextStart, Total
<1> QED BY <1>1, <1>2, Zenon

\* With a header in the buffer, the length read from it is that of the next body.
LEMMA LengthRead ==
  ASSUME FramingInv, phase # "closed", ~InBody, Buffered >= Header
  PROVE  /\ Len(delivered) < Len(sent)
         /\ LengthsAt(consumed) = {sent[Len(delivered) + 1].length}
<1>1. consumed = NextStart /\ consumed \in Nat /\ arrived \in Nat /\ arrived <= Total
      /\ Len(delivered) <= Len(sent) /\ Len(delivered) \in Nat /\ Len(sent) \in Nat
  BY DEF FramingInv, InStep, FramingTypeOK
<1>2. Total \in Nat
  BY OffsetsNat, Zenon DEF FramingInv
<1>3. Len(delivered) < Len(sent)
  BY <1>1, <1>2, NoNextBody DEF Buffered
<1> DEFINE n == Len(delivered) + 1
<1>4. n \in DOMAIN sent /\ sent[n].at = consumed + Header
  BY <1>1, <1>3, NextBody, Zenon
<1>5. \A j \in DOMAIN sent : sent[j].at = consumed + Header => j = n
  <2> SUFFICES ASSUME NEW j \in DOMAIN sent, sent[j].at = consumed + Header, j # n
               PROVE  FALSE
    OBVIOUS
  <2>1. j \in Nat /\ n \in Nat /\ sent[j].at \in Nat /\ sent[n].at \in Nat
    BY <1>4 DEF FramingInv, FramingTypeOK, Extent
  <2>2. j < n \/ n < j
    BY <2>1
  <2> QED BY <1>4, <2>1, <2>2 DEF FramingInv, Layout
<1>6. {j \in DOMAIN sent : sent[j].at = consumed + Header} = {n}
  BY <1>4, <1>5, Zenon
<1> HIDE DEF n
<1>7. LengthsAt(consumed) = {sent[n].length}
  BY <1>4, <1>6, Zenon DEF LengthsAt
<1> QED BY <1>3, <1>7, Zenon DEF n

-----------------------------------------------------------------------------
(* One lemma per step.                                                      *)

\* The server appends a message behind the last one: the layout is kept.
LEMMA SendInv ==
  ASSUME FramingInv, NEW n \in Lengths, Send(n)
  PROVE  FramingInv'
<1> DEFINE m == [at |-> Total + Header, length |-> n]
<1>1. m \in Extent /\ n \in Nat /\ Total \in Nat
  BY OffsetsNat, LengthAssumption DEF FramingInv, Extent
<1> HIDE DEF m
<1>2. /\ sent' = Append(sent, m) /\ sent \in Seq(Extent) /\ sent' \in Seq(Extent)
      /\ Len(sent') = Len(sent) + 1 /\ Len(sent) \in Nat
      /\ sent'[Len(sent')] = m
      /\ \A i \in DOMAIN sent : sent'[i] = sent[i] /\ sent[i] \in Extent
      /\ DOMAIN sent = 1 .. Len(sent) /\ DOMAIN sent' = 1 .. Len(sent')
  BY <1>1 DEF Send, FramingInv, FramingTypeOK, m
<1>3. FramingTypeOK'
  BY <1>2, Zenon DEF Send, FramingInv, FramingTypeOK, ctxVars
<1>4. Total' = Total + Header + n
  BY <1>1, <1>2 DEF Total, m
<1>5. Layout'
  <2>1. \A i \in DOMAIN sent : sent[i].at < m.at /\ sent[i].at \in Nat /\ m.at \in Nat
    <3> SUFFICES ASSUME NEW i \in DOMAIN sent
                 PROVE  sent[i].at < m.at /\ sent[i].at \in Nat /\ m.at \in Nat
      OBVIOUS
    <3>1. sent # <<>> /\ Len(sent) \in DOMAIN sent
      BY <1>2
    <3>2. Total = sent[Len(sent)].at + sent[Len(sent)].length
      BY <3>1, Zenon DEF Total
    <3>3. sent[i] \in Extent /\ sent[Len(sent)] \in Extent
      BY <1>2, <3>1, Zenon
    <3>4. i < Len(sent) => sent[i].at < sent[Len(sent)].at
      BY <3>1, Zenon DEF FramingInv, Layout
    <3> QED BY <1>1, <1>2, <3>2, <3>3, <3>4, SMTT(30) DEF Extent, m
  <2>2. ASSUME NEW i \in DOMAIN sent'
        PROVE  sent'[i].length \in Lengths
    BY <1>1, <1>2 DEF FramingInv, Layout, m
  <2>3. ASSUME NEW i \in DOMAIN sent'
        PROVE  sent'[i].at = Header + (IF i = 1 THEN 0 ELSE sent'[i-1].at + sent'[i-1].length)
    <3>1. CASE i \in DOMAIN sent
      <4>1. i # 1 => i - 1 \in DOMAIN sent
        BY <1>2, <3>1
      <4> QED BY <1>2, <3>1, <4>1, Zenon DEF FramingInv, Layout
    <3>2. CASE i = Len(sent')
      <4>1. CASE sent = <<>>
        BY <1>1, <1>2, <3>2, <4>1 DEF Total, m
      <4>2. CASE sent # <<>>
        <5>1. i # 1 /\ i - 1 = Len(sent) /\ Len(sent) \in DOMAIN sent
          BY <1>2, <3>2, <4>2
        <5>2. sent'[i-1] = sent[Len(sent)] /\ sent[Len(sent)] \in Extent
          BY <1>2, <5>1, Zenon
        <5> QED BY <1>1, <1>2, <3>2, <4>2, <5>1, <5>2 DEF Total, m, Extent
      <4> QED BY <4>1, <4>2, Zenon
    <3> QED BY <1>2, <3>1, <3>2
  <2>4. ASSUME NEW i \in DOMAIN sent', NEW j \in DOMAIN sent', i < j
        PROVE  sent'[i].at < sent'[j].at
    <3>1. i \in DOMAIN sent
      BY <1>2, <2>4
    <3>2. CASE j \in DOMAIN sent
      BY <1>2, <2>4, <3>1, <3>2, Zenon DEF FramingInv, Layout
    <3>3. CASE j = Len(sent')
      BY <1>2, <2>1, <3>1, <3>3, Zenon
    <3> QED BY <1>2, <3>2, <3>3
  <2> QED BY <2>2, <2>3, <2>4, Zenon DEF Layout
<1>6. InStep'
  <2>1. NextStart' = NextStart /\ InBody' = InBody /\ ExpectedLength' = ExpectedLength
        /\ Buffered' = Buffered
    BY Zenon DEF Send, NextStart, InBody, ExpectedLength, Buffered, ctxVars
  <2>2. /\ delivered \in Seq(Extent) /\ Len(delivered) \in Nat /\ Len(delivered) <= Len(sent)
        /\ DOMAIN delivered = 1 .. Len(delivered)
    BY DEF FramingInv, FramingTypeOK, InStep
  <2>3. consumed' <= arrived' /\ arrived' <= Total'
    BY <1>1, <1>4 DEF Send, FramingInv, FramingTypeOK, InStep
  <2>4. Len(delivered') <= Len(sent')
    BY <1>2, <2>2 DEF Send
  <2>5. \A i \in DOMAIN delivered' : delivered'[i] = sent'[i]
    BY <1>2, <2>2 DEF Send, FramingInv, InStep
  <2>6. Len(delivered) < Len(sent) =>
          /\ Len(delivered') < Len(sent')
          /\ sent'[Len(delivered') + 1] = sent[Len(delivered) + 1]
    BY <1>2, <2>2 DEF Send
  <2> QED BY <2>1, <2>3, <2>4, <2>5, <2>6, Zenon DEF Send, FramingInv, InStep, ctxVars
<1> QED BY <1>3, <1>5, <1>6, Zenon DEF FramingInv

\* Bytes that arrive, and the callback libevent calls for them, keep the reader in step.
LEMMA ArriveInv ==
  ASSUME FramingInv, NEW k \in 1 .. High, Arrive(k)
  PROVE  FramingInv'
<1>1. k \in Nat /\ Total \in Nat /\ arrived \in Nat /\ consumed \in Nat /\ consumed <= arrived
  BY OffsetsNat, LengthAssumption DEF FramingInv, FramingTypeOK, InStep
<1>2. Buffered + k \in Nat /\ Buffered' = Buffered + k
  BY <1>1 DEF Buffered, Arrive
<1>3. FramingTypeOK'
  <2>1. loc' \in {"idle", "login", "read", "gone"}
    BY Zenon DEF Arrive, StartReading
  <2>2. remaining' \in Nat /\ dying' \in BOOLEAN
    BY <1>2, Zenon DEF Arrive, FramingInv, FramingTypeOK
  <2>3. arrived' \in Nat
    BY <1>1 DEF Arrive
  <2> QED BY <2>1, <2>2, <2>3, Zenon DEF Arrive, FramingInv, FramingTypeOK, ctxVars
<1>4. Layout'
  BY Zenon DEF Arrive, FramingInv, Layout
<1>5. /\ Total' = Total /\ NextStart' = NextStart /\ InBody' = InBody
      /\ ExpectedLength' = ExpectedLength /\ sent' = sent /\ delivered' = delivered
      /\ consumed' = consumed /\ phase' = phase /\ m_nextLength' = m_nextLength
  BY Zenon DEF Arrive, Total, NextStart, InBody, ExpectedLength, ctxVars
<1>6. arrived' <= Total' /\ consumed' <= arrived'
  BY <1>1, <1>5 DEF Arrive
<1>7. loc = "idle" /\ low' = low /\ phase # "closed"
  BY Zenon DEF Arrive
<1>8. loc' = "read" => phase' = "regular" /\ remaining' = Buffered'
  BY <1>2, <1>5, <1>7, Zenon DEF Arrive, StartReading, FramingInv, FramingTypeOK
<1>9. loc' = "gone" => phase' = "regular"
  BY <1>5, <1>7, Zenon DEF Arrive, StartReading, FramingInv, FramingTypeOK
<1>10. loc' = "login" => phase' = "login" /\ Buffered' >= low
  BY <1>1, <1>2, <1>5, <1>7 DEF Arrive, StartReading, FramingInv, FramingTypeOK
<1>11. phase' = "login" => low' >= Header /\ (InBody' => low' >= ExpectedLength')
  BY <1>5, <1>7, Zenon DEF FramingInv, InStep
<1>12. ExpectedLength \in Int
  BY DEF ExpectedLength, FramingInv, FramingTypeOK
<1>13. loc' = "login" => phase' = "login"
                         /\ Buffered' >= IF InBody' THEN ExpectedLength' ELSE Header
  BY <1>1, <1>2, <1>3, <1>5, <1>7, <1>10, <1>11, <1>12 DEF FramingTypeOK
<1>14. InStep'
  BY <1>5, <1>6, <1>8, <1>9, <1>11, <1>13, Zenon DEF FramingInv, InStep
<1> QED BY <1>3, <1>4, <1>14, Zenon DEF FramingInv

\* An error or the end of the stream keeps the reader in step.
LEMMA EventCallbackInv ==
  ASSUME FramingInv, EventCallback
  PROVE  FramingInv'
<1>1. Buffered \in Nat
  BY DEF FramingInv, FramingTypeOK, InStep, Buffered
<1>2. FramingTypeOK'
  BY <1>1, Zenon DEF EventCallback, StartReading, FramingInv, FramingTypeOK, netVars, ctxVars
<1>3. Layout'
  BY Zenon DEF EventCallback, FramingInv, Layout, netVars
<1>4. InStep'
  <2>1. Total' = Total /\ NextStart' = NextStart /\ Buffered' = Buffered
    BY Zenon DEF EventCallback, Total, NextStart, Buffered, netVars
  <2>2. CASE phase = "login"
    BY <2>1, <2>2, Zenon DEF EventCallback, FramingInv, InStep, netVars, ctxVars
  <2>3. CASE phase = "regular"
    BY <2>1, <2>3, Zenon
       DEF EventCallback, StartReading, FramingInv, InStep, InBody, ExpectedLength, netVars,
           ctxVars
  <2> QED BY <2>2, <2>3, Zenon DEF EventCallback, FramingInv, FramingTypeOK
<1> QED BY <1>2, <1>3, <1>4, Zenon DEF FramingInv

\* The length of the login response is read where its header is.
LEMMA AuthenticationLengthInv ==
  ASSUME FramingInv, AuthenticationLength
  PROVE  FramingInv'
<1> DEFINE n == sent[Len(delivered) + 1].length
<1>1. phase = "login" /\ ~InBody /\ Buffered >= Header
  BY DEF AuthenticationLength, FramingInv, FramingTypeOK, InStep, InBody
<1>2. Len(delivered) < Len(sent) /\ LengthsAt(consumed) = {n}
  BY <1>1, LengthRead, Zenon
<1>3. n \in Nat /\ n >= Header
  BY <1>2, NextBody, LengthAssumption, Zenon
<1>4. /\ m_authenticationResponseLength' = n /\ consumed' = consumed + Header
      /\ IF Buffered - Header < n THEN low' = n /\ loc' = "idle"
                                  ELSE UNCHANGED <<low, loc>>
  BY <1>2, Zenon DEF AuthenticationLength
<1> HIDE DEF n
<1>5. /\ consumed \in Nat /\ arrived \in Nat /\ consumed = NextStart /\ NextStart \in Nat
      /\ loc = "login" /\ low \in Nat
  BY <1>1, OffsetsNat, Zenon DEF FramingInv, FramingTypeOK, InStep, AuthenticationLength
<1>6. FramingTypeOK'
  BY <1>3, <1>4, <1>5 DEF AuthenticationLength, FramingInv, FramingTypeOK, netVars
<1>7. Layout'
  BY Zenon DEF AuthenticationLength, FramingInv, Layout, netVars
<1>8. /\ Total' = Total /\ NextStart' = NextStart /\ sent' = sent /\ delivered' = delivered
      /\ arrived' = arrived /\ phase' = "login" /\ m_nextLength' = m_nextLength
  BY <1>1, Zenon DEF AuthenticationLength, Total, NextStart, netVars
<1>9. InBody' /\ ExpectedLength' = n
  BY <1>3, <1>4, <1>8 DEF InBody, ExpectedLength
<1>10. Buffered' = Buffered - Header /\ Buffered \in Int
  BY <1>4, <1>5, <1>8 DEF Buffered
<1>11. consumed' <= arrived'
  BY <1>1, <1>4, <1>5, <1>8 DEF Buffered
<1>12. loc' \in {"idle", "login"} /\ (loc' = "login" => Buffered' >= n)
       /\ (loc' = "idle" => low' = n) /\ low' >= Header
  BY <1>1, <1>3, <1>4, <1>5, <1>10 DEF FramingInv, InStep
<1>13. /\ arrived' <= Total' /\ Len(delivered') <= Len(sent')
       /\ \A i \in DOMAIN delivered' : delivered'[i] = sent'[i]
  BY <1>8, Zenon DEF FramingInv, InStep
<1> QED BY <1>2, <1>3, <1>4, <1>5, <1>6, <1>7, <1>8, <1>9, <1>11, <1>12, <1>13
        DEF FramingInv, InStep, n

\* What is handed over in a body is the next message sent.
LEMMA Delivery ==
  ASSUME FramingInv, phase # "closed", InBody, sent' = sent,
         delivered' = Append(delivered, [at |-> consumed, length |-> ExpectedLength])
  PROVE  /\ Len(delivered) < Len(sent)
         /\ delivered' = Append(delivered, sent[Len(delivered) + 1])
         /\ delivered' \in Seq(Extent) /\ delivered' # <<>>
         /\ Len(delivered') <= Len(sent')
         /\ \A i \in DOMAIN delivered' : delivered'[i] = sent'[i]
         /\ NextStart' = consumed + ExpectedLength
         /\ ExpectedLength \in Nat /\ ExpectedLength >= Header
<1> DEFINE m == sent[Len(delivered) + 1]
<1>1. /\ Len(delivered) < Len(sent) /\ consumed = NextStart + Header
      /\ ExpectedLength = m.length
  BY Zenon DEF FramingInv, InStep
<1>2. m \in Extent /\ m.at = consumed /\ m.length \in Lengths
  BY <1>1, NextBody, Zenon
<1>3. m = [at |-> consumed, length |-> ExpectedLength]
  BY <1>1, <1>2, Zenon DEF Extent
<1>4. delivered' = Append(delivered, m)
  BY <1>3, Zenon
<1>5. delivered \in Seq(Extent) /\ Len(delivered) \in Nat /\ Len(sent) \in Nat
  BY DEF FramingInv, FramingTypeOK
<1> HIDE DEF m
<1>6. /\ delivered' \in Seq(Extent) /\ Len(delivered') = Len(delivered) + 1
      /\ delivered'[Len(delivered')] = m /\ delivered' # <<>>
      /\ \A i \in DOMAIN delivered : delivered'[i] = delivered[i]
      /\ DOMAIN delivered' = 1 .. Len(delivered') /\ DOMAIN delivered = 1 .. Len(delivered)
  BY <1>2, <1>4, <1>5
<1>7. \A i \in DOMAIN delivered' : delivered'[i] = sent'[i]
  <2> SUFFICES ASSUME NEW i \in DOMAIN delivered' PROVE delivered'[i] = sent'[i]
    OBVIOUS
  <2>1. CASE i = Len(delivered')
    BY <1>6, <2>1, Zenon DEF m
  <2>2. CASE i \in DOMAIN delivered
    BY <1>6, <2>2, Zenon DEF FramingInv, InStep
  <2> QED BY <1>5, <1>6, <2>1, <2>2
<1>8. NextStart' = consumed + ExpectedLength
  BY <1>1, <1>2, <1>6, Zenon DEF NextStart
<1>9. ExpectedLength \in Nat /\ ExpectedLength >= Header
  BY <1>1, <1>2, LengthAssumption, Zenon
<1> QED BY <1>1, <1>4, <1>5, <1>6, <1>7, <1>8, <1>9 DEF m

\* The login response is taken whole, whether it is refused or accepted.
LEMMA AuthenticationMessageInv ==
  ASSUME FramingInv, AuthenticationMessage
  PROVE  FramingInv'
<1>1. phase = "login" /\ InBody /\ ExpectedLength <= Buffered
      /\ ExpectedLength = m_authenticationResponseLength
  BY Zenon DEF AuthenticationMessage, FramingInv, InStep, InBody, ExpectedLength
<1>2. sent' = sent /\ arrived' = arrived /\ loc' = "idle" /\ consumed' = consumed + ExpectedLength
      /\ delivered' = Append(delivered, [at |-> consumed, length |-> ExpectedLength])
  BY <1>1, Zenon DEF AuthenticationMessage, netVars
<1>3. /\ delivered' \in Seq(Extent) /\ delivered' # <<>> /\ Len(delivered') <= Len(sent')
      /\ \A i \in DOMAIN delivered' : delivered'[i] = sent'[i]
      /\ NextStart' = consumed' /\ ExpectedLength \in Nat
  BY <1>1, <1>2, Delivery, Zenon
<1>4. consumed \in Nat /\ arrived \in Nat /\ low \in Nat
  BY Zenon DEF FramingInv, FramingTypeOK
<1>5. consumed' \in Nat /\ consumed' <= arrived' /\ Total' = Total
  BY <1>1, <1>2, <1>3, <1>4 DEF Buffered, Total
<1>6. FramingTypeOK'
  <2>1. phase' \in {"login", "regular"} /\ low' \in {low, Header}
        /\ m_nextLength' \in {m_nextLength, 4}
        /\ m_authenticationResponseLength' \in {m_authenticationResponseLength, -1}
        /\ remaining' = remaining /\ dying' = dying
    BY <1>1, Zenon DEF AuthenticationMessage
  <2>2. m_lengthOrMessage' \in BOOLEAN
    BY Zenon DEF AuthenticationMessage, FramingInv, FramingTypeOK
  <2> QED BY <1>2, <1>3, <1>4, <1>5, <2>1, <2>2 DEF FramingInv, FramingTypeOK
<1>7. Layout'
  BY <1>2, Zenon DEF FramingInv, Layout
<1>8. ~InBody'
  BY <1>1 DEF AuthenticationMessage, InBody
<1>9. InStep'
  BY <1>1, <1>2, <1>3, <1>4, <1>5, <1>8 DEF AuthenticationMessage, FramingInv, InStep
<1> QED BY <1>6, <1>7, <1>9, Zenon DEF FramingInv

\* The length that is read is that of the next message.
LEMMA ReadLengthInv ==
  ASSUME FramingInv, ReadLength
  PROVE  FramingInv'
<1> DEFINE n == sent[Len(delivered) + 1].length
<1>1. phase = "regular" /\ ~InBody /\ Buffered >= Header /\ remaining = Buffered
  BY Zenon DEF ReadLength, FramingInv, InStep, InBody
<1>2. Len(delivered) < Len(sent) /\ LengthsAt(consumed) = {n}
  BY <1>1, LengthRead, Zenon
<1>3. n \in Nat /\ n >= Header
  BY <1>2, NextBody, LengthAssumption, Zenon
<1>4. m_nextLength' = n /\ consumed' = consumed + Header /\ remaining' = remaining - Header
  BY <1>2, Zenon DEF ReadLength
<1> HIDE DEF n
<1>5. consumed \in Nat /\ arrived \in Nat /\ consumed = NextStart /\ NextStart \in Nat
      /\ remaining \in Nat
  BY <1>1, OffsetsNat, Zenon DEF FramingInv, FramingTypeOK, InStep
<1>6. /\ Total' = Total /\ NextStart' = NextStart /\ sent' = sent /\ delivered' = delivered
      /\ arrived' = arrived /\ phase' = "regular" /\ loc' = "read"
  BY <1>1, Zenon DEF ReadLength, Total, NextStart, netVars
<1>7. InBody' /\ ExpectedLength' = n
  BY <1>4, <1>6, Zenon DEF ReadLength, InBody, ExpectedLength
<1>8. consumed' <= arrived' /\ remaining' = Buffered' /\ remaining' \in Nat
  BY <1>1, <1>4, <1>5, <1>6 DEF Buffered
<1>9. FramingTypeOK'
  <2>1. consumed' \in Nat /\ m_nextLength' \in Nat
    BY <1>3, <1>4, <1>5
  <2>2. m_lengthOrMessage' = FALSE /\ low' = low /\ dying' = dying
        /\ m_authenticationResponseLength' = m_authenticationResponseLength
    BY Zenon DEF ReadLength
  <2> QED BY <1>6, <1>8, <2>1, <2>2, Zenon DEF FramingInv, FramingTypeOK
<1>10. Layout'
  BY <1>6, Zenon DEF FramingInv, Layout
<1>11. InStep'
  <2>1. sent'[Len(delivered') + 1].length = n /\ Len(delivered') < Len(sent')
    BY <1>2, <1>6, Zenon DEF n
  <2>2. delivered # <<>> /\ arrived <= Total /\ Len(delivered) <= Len(sent)
        /\ \A i \in DOMAIN delivered : delivered[i] = sent[i]
    BY <1>1, Zenon DEF FramingInv, InStep
  <2> QED BY <1>3, <1>4, <1>5, <1>6, <1>7, <1>8, <2>1, <2>2, Zenon DEF InStep
<1> QED BY <1>9, <1>10, <1>11, Zenon DEF FramingInv

\* A message is read in a body: a length is never larger than the header, so the
\* test against a stale length fails.
LEMMA ReadMessageInBody ==
  ASSUME FramingInv, ReadMessage
  PROVE  InBody /\ phase = "regular" /\ ExpectedLength = m_nextLength /\ remaining = Buffered
BY DEF FramingInv, FramingTypeOK, InStep, ReadMessage, HasMessage, InBody, ExpectedLength

\* The message that is handed over is the next one sent.
LEMMA ReadMessageInv ==
  ASSUME FramingInv, ReadMessage
  PROVE  FramingInv'
<1>1. InBody /\ phase = "regular" /\ ExpectedLength = m_nextLength /\ remaining = Buffered
  BY ReadMessageInBody, Zenon
<1>2. /\ sent' = sent /\ arrived' = arrived /\ consumed' = consumed + ExpectedLength
      /\ remaining' = remaining - ExpectedLength /\ remaining >= ExpectedLength
      /\ delivered' = Append(delivered, [at |-> consumed, length |-> ExpectedLength])
      /\ phase' = phase /\ loc' = "read" /\ m_nextLength' = m_nextLength
  BY <1>1, Zenon DEF ReadMessage, HasMessage, netVars
<1>3. /\ delivered' \in Seq(Extent) /\ delivered' # <<>> /\ Len(delivered') <= Len(sent')
      /\ \A i \in DOMAIN delivered' : delivered'[i] = sent'[i]
      /\ NextStart' = consumed' /\ ExpectedLength \in Nat
  BY <1>1, <1>2, Delivery, Zenon
<1>4. consumed \in Nat /\ arrived \in Nat /\ remaining \in Nat
  BY Zenon DEF FramingInv, FramingTypeOK
<1>5. /\ consumed' \in Nat /\ consumed' <= arrived' /\ Total' = Total
      /\ remaining' = Buffered' /\ remaining' \in Nat
  BY <1>1, <1>2, <1>3, <1>4 DEF Buffered, Total
<1>6. FramingTypeOK'
  BY <1>2, <1>3, <1>4, <1>5, Zenon DEF ReadMessage, FramingInv, FramingTypeOK, netVars
<1>7. Layout'
  BY <1>2, Zenon DEF FramingInv, Layout
<1>8. ~InBody'
  BY <1>1, <1>2, Zenon DEF ReadMessage, InBody
<1>9. InStep'
  BY <1>1, <1>2, <1>3, <1>5, <1>8, Zenon DEF FramingInv, InStep
<1> QED BY <1>6, <1>7, <1>9, Zenon DEF FramingInv

\* The end of regularReadCallback and of the event handler keep the reader in step.
LEMMA ReadEndsInv ==
  ASSUME FramingInv, ReadDone \/ Gone
  PROVE  FramingInv'
<1>1. /\ sent' = sent /\ arrived' = arrived /\ consumed' = consumed /\ delivered' = delivered
      /\ UNCHANGED ctxVars /\ remaining' = remaining /\ dying' = dying
      /\ low' \in {low, Watermark} /\ loc' \in {"idle", "gone"} /\ phase = "regular"
      /\ phase' \in {"regular", "closed"} /\ (loc' = "gone" => phase' = "regular")
  BY Zenon DEF ReadDone, Gone, netVars, FramingInv, InStep
<1>2. FramingTypeOK'
  BY <1>1 DEF Watermark, FramingInv, FramingTypeOK, ctxVars
<1>3. Layout'
  BY <1>1, Zenon DEF FramingInv, Layout
<1>4. Total' = Total /\ NextStart' = NextStart /\ InBody' = InBody
      /\ ExpectedLength' = ExpectedLength
  BY <1>1, Zenon DEF Total, NextStart, InBody, ExpectedLength, ctxVars
<1>5. InStep'
  BY <1>1, <1>4, Zenon DEF FramingInv, InStep, ctxVars
<1> QED BY <1>2, <1>3, <1>5, Zenon DEF FramingInv

-----------------------------------------------------------------------------
(* The theorems.                                                            *)

\* Every step of the server, the network and the handlers keeps the reader in step.
LEMMA StepInv ==
  ASSUME FramingInv, [FramingNext]_framingVars
  PROVE  FramingInv'
<1>1. CASE UNCHANGED framingVars
  BY <1>1, Zenon
     DEF framingVars, netVars, ctxVars, FramingInv, FramingTypeOK, Layout, InStep, Extent, Total,
         Buffered, NextStart, InBody, ExpectedLength
<1>2. CASE Server
  BY <1>2, SendInv, Zenon DEF Server
<1>3. CASE Network
  BY <1>3, ArriveInv, Zenon DEF Network
<1>4. CASE EventCallback
  BY <1>4, EventCallbackInv, Zenon
<1>5. CASE Login
  BY <1>5, AuthenticationLengthInv, AuthenticationMessageInv, Zenon DEF Login
<1>6. CASE Read
  BY <1>6, ReadLengthInv, ReadMessageInv, ReadEndsInv, Zenon DEF Read
<1> QED BY <1>1, <1>2, <1>3, <1>4, <1>5, <1>6, Zenon DEF FramingNext

\* A fresh connection is in step.
LEMMA InitInv ==
  ASSUME FramingInit
  PROVE  FramingInv
<1>1. FramingTypeOK
  <2>1. <<>> \in Seq(Extent)
    OBVIOUS
  <2>2. m_authenticationResponseLength \in Nat \cup {-1}
    BY Zenon DEF FramingInit
  <2> QED BY <2>1, <2>2, Zenon DEF FramingInit, FramingTypeOK
<1>2. Layout
  BY DEF FramingInit, Layout
<1>3. /\ consumed = 0 /\ arrived = 0 /\ Total = 0 /\ NextStart = 0 /\ ~InBody
      /\ Len(delivered) = 0 /\ Len(sent) = 0 /\ DOMAIN delivered = {}
  BY DEF FramingInit, InBody, NextStart, Total
<1>4. InStep
  BY <1>3 DEF FramingInit, InStep
<1> QED BY <1>1, <1>2, <1>4, Zenon DEF FramingInv

\* The reader is never out of step with the byte stream, however the bytes arrive:
\* regularReadCallback decodes a length only where the server put one, and hands
\* over exactly the bodies that were sent.
THEOREM ReaderInStep == FramingSpec => []FramingInv
<1>1. FramingInit => FramingInv
  BY InitInv, Zenon
<1>2. FramingInv /\ [FramingNext]_framingVars => FramingInv'
  BY StepInv, Zenon
<1> QED BY <1>1, <1>2, PTL DEF FramingSpec

\* The watermark regularReadCallback leaves behind is exactly what completes the
\* expected header or body, and never more than libevent will buffer.
THEOREM ReaderWatermark == FramingSpec => []WatermarkReachable
<1> DEFINE Exact == loc = "idle" /\ phase = "regular" =>
                      low = IF InBody THEN m_nextLength ELSE Header
<1>1. FramingInit => Exact
  BY Zenon DEF FramingInit
<1>2. FramingInv /\ Exact /\ [FramingNext]_framingVars => Exact'
  <2> SUFFICES ASSUME FramingInv, Exact, [FramingNext]_framingVars, loc' = "idle", phase' = "regular"
               PROVE  low' = IF InBody' THEN m_nextLength' ELSE Header
    OBVIOUS
  <2>1. CASE UNCHANGED framingVars
    BY <2>1, Zenon DEF framingVars, ctxVars, InBody
  <2>2. CASE Server
    BY <2>2 DEF Server, Send, ctxVars, InBody
  <2>3. CASE Network
    BY <2>3 DEF Network, Arrive, ctxVars, InBody
  <2>4. CASE EventCallback
    BY <2>4, Zenon DEF EventCallback, StartReading
  <2>5. CASE Login
    BY <2>5, Zenon
       DEF Login, AuthenticationLength, AuthenticationMessage, FramingInv, InStep, InBody
  <2>6. CASE Read
    BY <2>6 DEF Read, ReadLength, ReadMessage, ReadDone, Gone, Watermark, ctxVars,
                FramingInv, InStep, InBody
  <2> QED BY <2>1, <2>2, <2>3, <2>4, <2>5, <2>6, Zenon DEF FramingNext
<1>3. FramingInv /\ Exact => WatermarkReachable
  <2> SUFFICES ASSUME FramingInv, Exact, loc = "idle", phase = "regular"
               PROVE  low <= High
    BY Zenon DEF WatermarkReachable
  <2>1. CASE InBody
    <3>1. Len(delivered) < Len(sent) /\ ExpectedLength = sent[Len(delivered) + 1].length
      BY <2>1, Zenon DEF FramingInv, InStep
    <3> QED BY <2>1, <3>1, NextBody, LengthAssumption, Zenon DEF ExpectedLength
  <2>2. CASE ~InBody
    <3>1. 1 \in DOMAIN delivered /\ delivered[1] = sent[1] /\ 1 \in DOMAIN sent
      BY DEF FramingInv, FramingTypeOK, InStep
    <3>2. sent[1].length \in Lengths
      BY <3>1, Zenon DEF FramingInv, Layout
    <3>3. low = Header
      BY <2>2, Zenon
    <3>4. PICK n \in Lengths : n = sent[1].length
      BY <3>2, Zenon
    <3>5. n \in Nat /\ Header <= n /\ n <= High /\ High \in Nat
      BY LengthAssumption, Zenon
    <3> QED BY <3>3, <3>5
  <2> QED BY <2>1, <2>2, Zenon
<1> QED BY <1>1, <1>2, <1>3, ReaderInStep, PTL DEF FramingSpec

\* Before regularEventCallback drops a connection, regularReadCallback has handed
\* over every message that had arrived completely.
THEOREM ReaderDrains == FramingSpec => []ClosedAfterReading
<1>1. FramingInit => ClosedAfterReading
  BY Zenon DEF FramingInit, ClosedAfterReading
<1>2. FramingInv /\ ClosedAfterReading /\ [FramingNext]_framingVars => ClosedAfterReading'
  <2> SUFFICES ASSUME FramingInv, ClosedAfterReading, [FramingNext]_framingVars, loc' = "gone",
                      Len(delivered') < Len(sent')
               PROVE  (sent[Len(delivered) + 1].at + sent[Len(delivered) + 1].length > arrived)'
    BY Zenon DEF ClosedAfterReading
  <2>1. CASE UNCHANGED framingVars
    BY <2>1, Zenon DEF framingVars, netVars, ClosedAfterReading
  <2>2. CASE Server
    <3> PICK n \in Lengths : Send(n)
      BY <2>2, Zenon DEF Server
    <3>1. loc = "gone" /\ delivered' = delivered /\ arrived' = arrived
          /\ sent' = Append(sent, [at |-> Total + Header, length |-> n])
      BY Zenon DEF Send
    <3>2. /\ sent \in Seq(Extent) /\ Len(sent) \in Nat /\ Len(delivered) \in Nat /\ n \in Nat
          /\ arrived \in Nat /\ arrived <= Total /\ Len(delivered) <= Len(sent)
      BY LengthAssumption DEF FramingInv, FramingTypeOK, InStep
    <3>3. Total \in Nat
      BY OffsetsNat, Zenon DEF FramingInv
    <3>4. CASE Len(delivered) < Len(sent)
      BY <3>1, <3>2, <3>4 DEF ClosedAfterReading
    <3>5. CASE Len(delivered) = Len(sent)
      <4>1. sent'[Len(delivered') + 1] = [at |-> Total + Header, length |-> n]
        BY <3>1, <3>2, <3>5
      <4> QED BY <3>1, <3>2, <3>3, <4>1
    <3> QED BY <3>2, <3>4, <3>5
  <2>3. CASE Network
    BY <2>3, Zenon DEF Network, Arrive, StartReading
  <2>4. CASE EventCallback
    <3>1. /\ sent' = sent /\ delivered' = delivered /\ arrived' = arrived
          /\ m_lengthOrMessage /\ phase = "regular" /\ Buffered < Header
      BY <2>4, Zenon DEF EventCallback, StartReading, netVars, FramingInv, FramingTypeOK
    <3>2. ~InBody /\ consumed = NextStart /\ consumed \in Nat /\ arrived \in Nat
      BY <3>1, Zenon DEF InBody, FramingInv, FramingTypeOK, InStep
    <3>3. /\ sent[Len(delivered) + 1].at = NextStart + Header
          /\ sent[Len(delivered) + 1].length \in Nat
      BY <3>1, NextBody, LengthAssumption, Zenon
    <3> QED BY <3>1, <3>2, <3>3 DEF Buffered
  <2>5. CASE Login
    BY <2>5, Zenon DEF Login, AuthenticationLength, AuthenticationMessage
  <2>6. CASE Read
    <3>1. /\ sent' = sent /\ delivered' = delivered /\ arrived' = arrived
          /\ phase = "regular" /\ remaining = Buffered
          /\ ~(m_lengthOrMessage /\ remaining >= Header) /\ ~HasMessage
      BY <2>6, Zenon
         DEF Read, ReadLength, ReadMessage, ReadDone, Gone, netVars, FramingInv, InStep
    <3>2. /\ consumed \in Nat /\ arrived \in Nat /\ remaining \in Nat /\ m_nextLength \in Nat
          /\ m_lengthOrMessage \in BOOLEAN
      BY Zenon DEF FramingInv, FramingTypeOK
    <3>3. CASE m_lengthOrMessage
      <4>1. ~InBody /\ consumed = NextStart /\ Buffered < Header
        BY <3>1, <3>2, <3>3 DEF InBody, FramingInv, InStep
      <4>2. /\ sent[Len(delivered) + 1].at = NextStart + Header
            /\ sent[Len(delivered) + 1].length \in Nat
        BY <3>1, NextBody, LengthAssumption, Zenon
      <4> QED BY <3>1, <3>2, <4>1, <4>2 DEF Buffered
    <3>4. CASE ~m_lengthOrMessage
      <4>1. /\ InBody /\ consumed = NextStart + Header /\ Buffered < m_nextLength
            /\ m_nextLength = sent[Len(delivered) + 1].length
        BY <3>1, <3>2, <3>4 DEF InBody, HasMessage, FramingInv, InStep, ExpectedLength
      <4> QED BY <3>1, <3>2, <4>1, NextBody DEF Buffered
    <3> QED BY <3>2, <3>3, <3>4, Zenon
  <2> QED BY <2>1, <2>2, <2>3, <2>4, <2>5, <2>6, Zenon DEF FramingNext
<1> QED BY <1>1, <1>2, ReaderInStep, PTL DEF FramingSpec

\* The reader implements the channel of whole messages: the server's sends, the
\* deliveries of authenticationReadCallback and regularReadCallback and the loss of
\* the connection are its steps; arriving bytes and decoded lengths are stutters.
THEOREM ReaderImplementsChannel == FramingSpec => ImplementsChannel
<1> USE DEF Channel!Next, Channel!SendMessage, Channel!ReceiveMessage, Channel!Close
<1>1. FramingInit => Channel!Init
  BY Zenon DEF FramingInit, Channel!Init
<1>2. FramingInv /\ FramingInv' /\ [FramingNext]_framingVars =>
        [Channel!Next]_<<sent, delivered, phase # "closed">>
  <2> SUFFICES ASSUME FramingInv, FramingInv', [FramingNext]_framingVars
               PROVE  [Channel!Next]_<<sent, delivered, phase # "closed">>
    BY Zenon
  <2>1. CASE UNCHANGED framingVars
    BY <2>1, Zenon DEF framingVars, netVars
  <2>2. CASE Server
    <3> PICK n \in Lengths : Send(n)
      BY <2>2, Zenon DEF Server
    <3> DEFINE m == [at |-> Total + Header, length |-> n]
    <3>1. sent' = Append(sent, m) /\ phase # "closed" /\ phase' = phase /\ delivered' = delivered
      BY Zenon DEF Send
    <3>2. sent \in Seq(Extent) /\ sent' \in Seq(Extent) /\ m \in Extent
      BY LengthAssumption, OffsetsNat DEF FramingInv, FramingTypeOK, Extent
    <3> HIDE DEF m
    <3>3. Len(sent') = Len(sent) + 1 /\ sent'[Len(sent')] = m
      BY <3>1, <3>2
    <3>4. sent' = Append(sent, sent'[Len(sent')])
      BY <3>1, <3>3, Zenon
    <3> QED BY <3>1, <3>2, <3>3, <3>4, Zenon
  <2>3. CASE Network
    BY <2>3, Zenon DEF Network, Arrive
  <2>4. CASE EventCallback
    BY <2>4, Zenon DEF EventCallback, netVars
  <2>5. CASE AuthenticationLength \/ ReadLength \/ ReadDone
    BY <2>5, Zenon DEF AuthenticationLength, ReadLength, ReadDone, netVars
  <2>6. CASE AuthenticationMessage
    <3>1. phase = "login" /\ phase' # "closed" /\ InBody /\ sent' = sent
          /\ delivered' = Append(delivered, [at |-> consumed, length |-> ExpectedLength])
      BY <2>6, Zenon
         DEF AuthenticationMessage, netVars, FramingInv, InStep, InBody, ExpectedLength
    <3>2. Len(delivered) < Len(sent) /\ delivered' = Append(delivered, sent[Len(delivered) + 1])
      BY <3>1, Delivery, Zenon
    <3> QED BY <3>1, <3>2, Zenon
  <2>7. CASE ReadMessage
    <3>1. phase = "regular" /\ phase' = phase /\ InBody /\ sent' = sent
          /\ delivered' = Append(delivered, [at |-> consumed, length |-> ExpectedLength])
      BY <2>7, ReadMessageInBody, Zenon DEF ReadMessage, netVars
    <3>2. Len(delivered) < Len(sent) /\ delivered' = Append(delivered, sent[Len(delivered) + 1])
      BY <3>1, Delivery, Zenon
    <3> QED BY <3>1, <3>2, Zenon
  <2>8. CASE Gone
    BY <2>8, Zenon DEF Gone, netVars
  <2> QED BY <2>1, <2>2, <2>3, <2>4, <2>5, <2>6, <2>7, <2>8, Zenon DEF FramingNext, Login, Read
<1> QED BY <1>1, <1>2, ReaderInStep, PTL DEF FramingSpec, ImplementsChannel, Channel!Spec

-----------------------------------------------------------------------------
(* Wakeup.                                                                  *)

\* Types, the lock and the two promises: the inductive invariant of wakeup.
WakeupInv == WakeupTypes /\ StopsPaidFor /\ WakeUnderWay

LEMMA WakeupStarts == WakeupInit => WakeupInv
<1> SUFFICES ASSUME WakeupInit PROVE WakeupInv
  OBVIOUS
<1> USE DEF WakeupInit
<1>1. pipe \in 0 .. Capacity /\ once \in Nat /\ written \in Nat /\ stops \in Nat
  BY WakeupAssumption
<1>2. \A t \in Thread : call[t] = "idle" /\ m_wakeupPipeLock # t
  BY ThreadAssumption, Zenon
<1>3. WakeupTypes
  BY <1>1, <1>2, Zenon DEF WakeupTypes
<1>4. StopsPaidFor /\ WakeUnderWay
  BY DEF StopsPaidFor, WakeUnderWay
<1> QED BY <1>3, <1>4, Zenon DEF WakeupInv

\* wakeup: whoever does not get the lock relies on the byte of its holder.
LEMMA TryLockInv ==
  ASSUME NEW t \in Thread, WakeupInv, TryLock(t)
  PROVE  WakeupInv'
<1> USE ThreadAssumption DEF WakeupInv, TryLock, Calls, Asked
<1>1. WakeupTypes'
  BY Zenon DEF WakeupTypes
<1>2. StopsPaidFor'
  BY Zenon DEF StopsPaidFor
<1>3. WakeUnderWay'
  <2> SUFFICES ASSUME asked' = "yes"
               PROVE  loop # "out" /\ (event_break \/ pipe > 0 \/ \E u \in Thread : call'[u] = "write")
    BY Zenon DEF WakeUnderWay
  <2>1. loop # "out"
    BY Zenon DEF WakeUnderWay
  <2>2. CASE m_wakeupPipeLock = NoThread
    BY <2>1, <2>2, Zenon DEF WakeupTypes
  <2>3. CASE m_wakeupPipeLock # NoThread
    <3>1. call' = call
      BY <2>3, Zenon
    <3>2. CASE asked = "yes"
      BY <2>1, <3>1, <3>2, Zenon DEF WakeUnderWay
    <3>3. CASE asked # "yes"
      <4>1. m_wakeupPipeLock \in Thread /\ call[m_wakeupPipeLock] # "idle"
        BY <2>3, Zenon DEF WakeupTypes
      <4>2. call[m_wakeupPipeLock] # "unlock"
        BY <2>1, <2>3, <3>3, Zenon
      <4>3. call[m_wakeupPipeLock] = "write"
        BY <4>1, <4>2, Zenon DEF WakeupTypes
      <4> QED BY <2>1, <3>1, <4>1, <4>3, Zenon
    <3> QED BY <3>2, <3>3, Zenon
  <2> QED BY <2>2, <2>3, Zenon
<1> QED BY <1>1, <1>2, <1>3, Zenon

LEMMA WriteInv ==
  ASSUME NEW t \in Thread, WakeupInv, Write(t)
  PROVE  WakeupInv'
BY WakeupAssumption, ThreadAssumption
   DEF WakeupInv, Write, WakeupTypes, StopsPaidFor, WakeUnderWay

LEMMA UnlockInv ==
  ASSUME NEW t \in Thread, WakeupInv, Unlock(t)
  PROVE  WakeupInv'
<1> USE ThreadAssumption DEF WakeupInv, Unlock, flow
<1>1. WakeupTypes'
  BY Zenon DEF WakeupTypes
<1>2. StopsPaidFor'
  BY Zenon DEF StopsPaidFor
<1>3. WakeUnderWay'
  BY Zenon DEF WakeUnderWay, WakeupTypes
<1> QED BY <1>1, <1>2, <1>3, Zenon

LEMMA LoopBreakInv ==
  ASSUME NEW t \in Thread, WakeupInv, LoopBreak(t)
  PROVE  WakeupInv'
BY Zenon DEF WakeupInv, LoopBreak, Calls, Asked, WakeupTypes, StopsPaidFor, WakeUnderWay

\* What the loop does, and interrupt.
LEMMA LoopInv ==
  ASSUME WakeupInv,
         \/ \E t \in Thread : Interrupt(t)
         \/ \E how \in {"run", "runOnce"} : Run(how)
         \/ WakeupPipeCallback \/ InterruptCallback \/ ResponseBreaks \/ RunReturns
  PROVE  WakeupInv'
<1> USE DEF WakeupInv, WakeupTypes, StopsPaidFor, WakeUnderWay, flow
<1>1. ASSUME NEW t \in Thread, Interrupt(t) PROVE WakeupInv'
  BY <1>1 DEF Interrupt, Calls
<1>2. ASSUME NEW how \in {"run", "runOnce"}, Run(how) PROVE WakeupInv'
  BY <1>2, Zenon DEF Run
<1>3. CASE WakeupPipeCallback
  BY <1>3, WakeupAssumption DEF WakeupPipeCallback, Looping
<1>4. CASE InterruptCallback
  BY <1>4 DEF InterruptCallback, Looping
<1>5. CASE ResponseBreaks
  BY <1>5, Zenon DEF ResponseBreaks, Looping
<1>6. CASE RunReturns
  BY <1>6, Zenon DEF RunReturns
<1> QED BY <1>1, <1>2, <1>3, <1>4, <1>5, <1>6, Zenon

LEMMA WakeupSteps == WakeupInv /\ [WakeupNext]_wakeupVars => WakeupInv'
<1> SUFFICES ASSUME WakeupInv, [WakeupNext]_wakeupVars PROVE WakeupInv'
  OBVIOUS
<1>1. CASE UNCHANGED wakeupVars
  BY <1>1, Zenon DEF wakeupVars, flow, WakeupInv, WakeupTypes, StopsPaidFor, WakeUnderWay
<1>2. CASE WakeupNext
  BY <1>2, TryLockInv, WriteInv, UnlockInv, LoopBreakInv, LoopInv, Zenon DEF WakeupNext
<1> QED BY <1>1, <1>2, Zenon

\* For any number of threads, any pipe and any buffer: a wakeup stops at most one
\* run of the loop.
THEOREM WakeupsPaidFor == WakeupSpec => []StopsPaidFor
<1>1. WakeupInv => StopsPaidFor
  BY Zenon DEF WakeupInv
<1> QED BY <1>1, WakeupStarts, WakeupSteps, PTL DEF WakeupSpec

\* A wakeup that a run of the loop has seen asked for is never forgotten: a thread
\* that leaves the byte to the holder of the lock can rely on it.
THEOREM WakeupNotForgotten == WakeupSpec => []WakeUnderWay
<1>1. WakeupInv => WakeUnderWay
  BY Zenon DEF WakeupInv
<1> QED BY <1>1, WakeupStarts, WakeupSteps, PTL DEF WakeupSpec
=============================================================================
