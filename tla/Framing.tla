------------------------------- MODULE Framing -------------------------------
(***************************************************************************)
(* How length-prefixed messages are cut out of the byte stream of one      *)
(* connection: authenticationReadCallback for the login response, then     *)
(* regularReadCallback (src/src/ClientImpl.cpp).                           *)
(*                                                                         *)
(* The stream is described by the extents of the message bodies in it; the *)
(* Header bytes before a body hold its length, and what is decoded at any  *)
(* other offset may be any length.  The input buffer is the part of the    *)
(* stream between the offsets consumed and arrived.  libevent calls the    *)
(* read callback when bytes arrive and the buffer then holds at least the  *)
(* low watermark, and stops reading at the high watermark.                 *)
(***************************************************************************)
EXTENDS Integers, Sequences

CONSTANTS
  Lengths,       \* lengths of message bodies
  High,          \* HIGH_WATERMARK
  MaxMessages    \* bound: messages the server sends

Header == 4

\* A response has at least 18 bytes (InvocationResponse reads that many); a
\* body longer than the high watermark could never be in the buffer at once.
ASSUME LengthAssumption ==
  /\ High \in Nat /\ MaxMessages \in Nat
  /\ Lengths \subseteq Nat /\ \A n \in Lengths : Header <= n /\ n <= High

VARIABLES
  sent,                            \* extents of the bodies in the stream
  arrived, consumed,               \* bytes that arrived, bytes removed
  phase,                           \* the callbacks set: login, regular; closed
  m_authenticationResponseLength,  \* PendingConnection: -1 before it is known
  m_nextLength, m_lengthOrMessage, \* CxnContext
  low,                             \* the low watermark for reading
  loc, remaining,                  \* the handler running and its local variable
  dying,                           \* regularReadCallback was called for EOF
  delivered                        \* extents handed to the code above

netVars == <<sent, arrived>>
ctxVars == <<m_authenticationResponseLength, m_nextLength, m_lengthOrMessage>>
framingVars == <<netVars, consumed, phase, ctxVars, low, loc, remaining, dying, delivered>>

Extent == [at : Nat, length : Nat]

Total == IF sent = <<>> THEN 0 ELSE sent[Len(sent)].at + sent[Len(sent)].length

Buffered == arrived - consumed

\* What getInt32 may read from the Header bytes at an offset.
LengthsAt(p) ==
  IF \E i \in DOMAIN sent : sent[i].at = p + Header
  THEN {sent[i].length : i \in {j \in DOMAIN sent : sent[j].at = p + Header}}
  ELSE 0 .. High

\* initiateAuthentication has set the watermark.  The PendingConnection is a fresh
\* one: one that is tried again keeps the length an earlier attempt has read.
FramingInit ==
  /\ sent = <<>> /\ arrived = 0 /\ consumed = 0 /\ phase = "login"
  /\ m_authenticationResponseLength = -1
  /\ m_nextLength = 4 /\ m_lengthOrMessage = TRUE
  /\ low = Header /\ loc = "idle" /\ remaining = 0 /\ dying = FALSE
  /\ delivered = <<>>

-----------------------------------------------------------------------------
(* The server and the network.                                              *)

\* The first message answers the login; others answer what the client sent
\* once it was logged in.
Send(n) ==
  /\ phase # "closed" /\ Len(sent) < MaxMessages
  /\ sent = <<>> \/ phase = "regular"
  /\ sent' = Append(sent, [at |-> Total + Header, length |-> n])
  /\ UNCHANGED <<arrived, consumed, phase, ctxVars, low, loc, remaining, dying,
                 delivered>>

\* The early return at the top of regularReadCallback.
StartReading ==
  loc' = IF m_lengthOrMessage /\ remaining' < Header
         THEN IF dying' THEN "gone" ELSE "idle"
         ELSE "read"

Arrive(k) ==
  /\ loc = "idle" /\ phase # "closed"
  /\ k <= Total - arrived /\ Buffered + k <= High
  /\ arrived' = arrived + k
  /\ IF Buffered + k < low
     THEN UNCHANGED <<loc, remaining, dying>>
     ELSE IF phase = "login"
     THEN loc' = "login" /\ UNCHANGED <<remaining, dying>>
     ELSE remaining' = Buffered + k /\ dying' = FALSE /\ StartReading
  /\ UNCHANGED <<sent, consumed, phase, ctxVars, low, delivered>>

\* EOF or an error: the regular event handler first reads what is there.
EventCallback ==
  /\ loc = "idle" /\ phase # "closed"
  /\ IF phase = "login"
     THEN phase' = "closed" /\ UNCHANGED <<loc, remaining, dying>>
     ELSE remaining' = Buffered /\ dying' = TRUE /\ StartReading /\ UNCHANGED phase
  /\ UNCHANGED <<netVars, consumed, ctxVars, low, delivered>>

-----------------------------------------------------------------------------
(* authenticationReadCallback.                                              *)

\* The length is read unless an earlier call has; the rest may not be there yet.
AuthenticationLength ==
  /\ loc = "login" /\ m_authenticationResponseLength < 0
  /\ \E n \in LengthsAt(consumed) :
       /\ m_authenticationResponseLength' = n /\ consumed' = consumed + Header
       /\ IF Buffered - Header < n THEN low' = n /\ loc' = "idle"
                                   ELSE UNCHANGED <<low, loc>>
  /\ UNCHANGED <<netVars, phase, m_nextLength, m_lengthOrMessage, remaining,
                 dying, delivered>>

\* A refused login leaves the bufferevent as it is; otherwise
\* finalizeAuthentication makes a CxnContext and sets the regular callbacks.
AuthenticationMessage ==
  /\ loc = "login" /\ m_authenticationResponseLength >= 0
  /\ delivered' = Append(delivered, [at |-> consumed,
                                     length |-> m_authenticationResponseLength])
  /\ consumed' = consumed + m_authenticationResponseLength
  /\ loc' = "idle"
  /\ \/ phase' = "regular" /\ low' = Header
        /\ m_nextLength' = 4 /\ m_lengthOrMessage' = TRUE
        /\ UNCHANGED m_authenticationResponseLength
     \/ m_authenticationResponseLength' = -1
        /\ UNCHANGED <<phase, low, m_nextLength, m_lengthOrMessage>>
  /\ UNCHANGED <<netVars, remaining, dying>>

-----------------------------------------------------------------------------
(* The loop of regularReadCallback.  User callbacks run between messages.   *)

ReadLength ==
  /\ loc = "read" /\ m_lengthOrMessage /\ remaining >= Header
  /\ m_nextLength' \in LengthsAt(consumed)
  /\ m_lengthOrMessage' = FALSE
  /\ consumed' = consumed + Header /\ remaining' = remaining - Header
  /\ UNCHANGED <<netVars, phase, m_authenticationResponseLength, low, loc, dying,
                 delivered>>

\* Fault: the message is taken only when something follows it.
HasMessage_Strict == ~(m_lengthOrMessage /\ remaining >= Header) /\ remaining > m_nextLength

\* Tested also when a length is expected and less than one has arrived.
HasMessage == ~(m_lengthOrMessage /\ remaining >= Header) /\ remaining >= m_nextLength

\* Fault: the next header is taken for a message.
ReadMessage_KeepsLength ==
  /\ loc = "read" /\ HasMessage
  /\ UNCHANGED m_lengthOrMessage
  /\ delivered' = Append(delivered, [at |-> consumed, length |-> m_nextLength])
  /\ consumed' = consumed + m_nextLength /\ remaining' = remaining - m_nextLength
  /\ UNCHANGED <<netVars, phase, m_authenticationResponseLength, m_nextLength,
                 low, loc, dying>>

ReadMessage ==
  /\ loc = "read" /\ HasMessage
  /\ m_lengthOrMessage' = TRUE
  /\ delivered' = Append(delivered, [at |-> consumed, length |-> m_nextLength])
  /\ consumed' = consumed + m_nextLength /\ remaining' = remaining - m_nextLength
  /\ UNCHANGED <<netVars, phase, m_authenticationResponseLength, m_nextLength,
                 low, loc, dying>>

\* Fault: the header, already consumed, is counted once more.
Watermark_WithHeader == IF m_lengthOrMessage THEN Header ELSE m_nextLength + Header

Watermark == IF m_lengthOrMessage THEN Header ELSE m_nextLength

ReadDone ==
  /\ loc = "read" /\ ~(m_lengthOrMessage /\ remaining >= Header) /\ ~HasMessage
  /\ low' = Watermark /\ loc' = IF dying THEN "gone" ELSE "idle"
  /\ UNCHANGED <<netVars, consumed, phase, ctxVars, remaining, dying, delivered>>

\* The rest of regularEventCallback: the bufferevent is freed.
Gone ==
  /\ loc = "gone" /\ loc' = "idle" /\ phase' = "closed"
  /\ UNCHANGED <<netVars, consumed, ctxVars, low, remaining, dying, delivered>>

Server  == \E n \in Lengths : Send(n)
Network == \E k \in 1 .. High : Arrive(k)
Login   == AuthenticationLength \/ AuthenticationMessage
Read    == ReadLength \/ ReadMessage \/ ReadDone \/ Gone

FramingNext == Server \/ Network \/ EventCallback \/ Login \/ Read

FramingSpec == FramingInit /\ [][FramingNext]_framingVars

\* The network delivers what was sent and libevent runs the handlers it calls.
FairFramingSpec == FramingSpec /\ WF_framingVars(Network) /\ WF_framingVars(Login \/ Read)

-----------------------------------------------------------------------------
FramingTypeOK ==
  /\ sent \in Seq(Extent) /\ delivered \in Seq(Extent)
  /\ arrived \in Nat /\ consumed \in Nat /\ low \in Nat
  /\ phase \in {"login", "regular", "closed"}
  /\ m_authenticationResponseLength \in Nat \cup {-1}
  /\ m_nextLength \in Nat /\ m_lengthOrMessage \in BOOLEAN
  /\ loc \in {"idle", "login", "read", "gone"} /\ remaining \in Nat
  /\ dying \in BOOLEAN

\* The bodies follow each other, a header before each.
Layout ==
  \A i \in DOMAIN sent :
    /\ sent[i].length \in Lengths
    /\ sent[i].at = Header + (IF i = 1 THEN 0 ELSE sent[i-1].at + sent[i-1].length)
    /\ \A j \in DOMAIN sent : i < j => sent[i].at < sent[j].at

\* Where the message after the delivered ones starts, header included.
NextStart ==
  IF delivered = <<>> THEN 0
  ELSE delivered[Len(delivered)].at + delivered[Len(delivered)].length

\* The reader waits for a body: its length was read and the body was not.
InBody == \/ phase = "login" /\ m_authenticationResponseLength >= 0
          \/ phase # "login" /\ ~m_lengthOrMessage

ExpectedLength == IF phase = "login" THEN m_authenticationResponseLength ELSE m_nextLength

\* The reader is never out of step with the stream: between messages it is at
\* a header, inside one it is right behind the header and knows the length of
\* this very message, and a stale length is never small enough to be mistaken
\* for the length of what is left in the buffer.
InStep ==
  /\ consumed <= arrived /\ arrived <= Total
  /\ Len(delivered) <= Len(sent)
  /\ \A i \in DOMAIN delivered : delivered[i] = sent[i]
  /\ phase # "closed" =>
       IF InBody THEN /\ Len(delivered) < Len(sent)
                      /\ consumed = NextStart + Header
                      /\ ExpectedLength = sent[Len(delivered) + 1].length
                 ELSE consumed = NextStart
  /\ phase = "regular" => m_nextLength >= Header /\ delivered # <<>>
  /\ loc = "read" => phase = "regular" /\ remaining = Buffered
  /\ loc = "gone" => phase = "regular"
  /\ loc = "login" => phase = "login" /\ Buffered >= IF InBody THEN ExpectedLength ELSE Header
  /\ phase = "login" => low >= Header /\ (loc = "idle" /\ InBody => low >= ExpectedLength)

\* The inductive invariant of the reader.
FramingInv == FramingTypeOK /\ Layout /\ InStep

\* The low watermark never asks for more than completes the message that is
\* expected, and that fits below the high watermark: a message cannot get stuck
\* in the input buffer.
WatermarkReachable ==
  loc = "idle" /\ phase = "regular" =>
    /\ low = IF InBody THEN m_nextLength ELSE Header
    /\ low <= High

\* When the regular event handler closes a connection, every message that had
\* arrived completely was delivered first: the next one had not.
ClosedAfterReading ==
  loc = "gone" /\ Len(delivered) < Len(sent) =>
    sent[Len(delivered) + 1].at + sent[Len(delivered) + 1].length > arrived

\* Every message the server sends is delivered, however its bytes arrive, unless
\* the connection fails or the login was refused.
EveryMessageDelivered ==
  \A i \in 1 .. MaxMessages :
    (Len(sent) >= i) ~> (Len(delivered) >= i \/ phase = "closed")

-----------------------------------------------------------------------------
\* The reader implements a channel of whole messages.
Channel == INSTANCE MessageChannel WITH
             Message <- Extent, received <- delivered, open <- phase # "closed"

\* The reader with its byte counts and watermarks hands over the messages the
\* server sent, each once, whole and in order.
ImplementsChannel == Channel!Spec
=============================================================================
