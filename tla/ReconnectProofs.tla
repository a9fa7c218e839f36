--------------------------- MODULE ReconnectProofs ---------------------------
(***************************************************************************)
(* Reconnecting forgets no host, frees no PendingConnection under an       *)
(* attempt that has it to itself, and implements Membership, for every     *)
(* number of hosts, objects and sockets.                                   *)
(***************************************************************************)
EXTENDS Reconnect, FiniteSetTheorems, TLAPS

Stage == {"free", "connecting", "login", "up"}
BevType == [stage : Stage, pc : Pc \cup {NoPc}, host : Host \cup {NoPc}]
PcType == [host : Host \cup {NoPc}, age : 0 .. Never]
FrameType == [pc : Pc \cup {NoPc}, dispatch : 0 .. 2, m_status : BOOLEAN]

\* An attempt's PendingConnection is in the list or createConnection waits for it.
Attached ==
  \A b \in Bev : bev[b].pc \in Pc /\ bev[b].pc \notin pending /\ bev[b].pc # frame.pc
                   => overlapped \/ abandoned

LifeInv == ReconnectInv /\ Attached

\* Constants have the types of what they stand for.
LEMMA ConstantTypes ==
  /\ Free \in BevType /\ NoContents \in PcType /\ NoFrame \in FrameType
  /\ Interval \in Nat /\ Interval # 0 /\ 0 \in 0 .. Never /\ Never \in 0 .. Never /\ NoPc \notin Pc
BY ReconnectAssumption DEF Free, NoContents, NoFrame, BevType, PcType, FrameType, Stage, Never

\* Steps that leave the list, the attempts and createConnection alone.
LEMMA QuietStep ==
  ASSUME LifeInv, UNCHANGED <<pc, pending, bev, frame, overlapped, abandoned, asked>>,
         creating' \subseteq creating, timers' \in [0 .. Interval -> Nat],
         exit' \in BOOLEAN, threw' \in BOOLEAN
  PROVE  LifeInv'
<1>1. TypeOK'
  BY Zenon DEF LifeInv, ReconnectInv, TypeOK
<1>2. Consistent'
  BY Zenon DEF LifeInv, ReconnectInv, Consistent
<1>3. Attached'
  BY Zenon DEF LifeInv, Attached
<1> QED BY <1>1, <1>2, <1>3, Zenon DEF LifeInv, ReconnectInv

\* The second half of createPendingConnection leaves lists and attempts alone.
LEMMA SetTimerInv == ASSUME LifeInv, SetTimer PROVE LifeInv'
<1>1. PICK c \in creating : creating' = creating \ {c} /\ StartTimer(c.due)
  BY Zenon DEF SetTimer
<1>2. c \in [pc : Pc, due : {0, Interval}]
  BY Zenon DEF LifeInv, ReconnectInv, TypeOK
<1>3. c.due \in 0 .. Interval
  BY <1>2, ConstantTypes
<1>4. timers' \in [0 .. Interval -> Nat]
  BY <1>1, <1>3 DEF StartTimer, LifeInv, ReconnectInv, TypeOK
<1> QED BY <1>1, <1>4, QuietStep, Zenon DEF SetTimer, lifeVars, LifeInv, ReconnectInv, TypeOK

\* A loop that is broken or returns leaves lists, attempts and timers alone.
LEMMA LoopEndsInv == ASSUME LifeInv, RunReturns \/ LoopBroken PROVE LifeInv'
BY QuietStep, Zenon DEF RunReturns, LoopBroken, lifeVars, LifeInv, ReconnectInv, TypeOK

\* A second of time.
LEMMA TickInv == ASSUME LifeInv, Tick PROVE LifeInv'
<1> USE DEF LifeInv, ReconnectInv
<1>1. timers' \in [0 .. Interval -> Nat]
  <2>1. \A d \in 0 .. Interval : d # Interval => d + 1 \in 0 .. Interval
    BY ConstantTypes
  <2>2. \A d \in 0 .. Interval : (IF d = Interval THEN 0
          ELSE timers[d + 1] + IF d = 0 THEN timers[0] ELSE 0) \in Nat
    BY <2>1, ConstantTypes DEF TypeOK
  <2> QED BY <2>2, Zenon DEF Tick
<1>2. \A p \in Pc : pc'[p] \in PcType /\ pc'[p].host = pc[p].host
                    /\ (p \notin pending => pc'[p] = pc[p])
  <2> SUFFICES ASSUME NEW p \in Pc
               PROVE  pc'[p] \in PcType /\ pc'[p].host = pc[p].host
                      /\ (p \notin pending => pc'[p] = pc[p])
    OBVIOUS
  <2>1. pc[p] \in PcType /\ pc'[p] = IF p \in pending /\ pc[p].age # Never
                                      THEN [pc[p] EXCEPT !.age = @ + 1] ELSE pc[p]
    BY Zenon DEF Tick, TypeOK, PcType
  <2>2. pc[p].age # Never => pc[p].age + 1 \in 0 .. Never
    BY <2>1, ConstantTypes DEF PcType, Never
  <2> QED BY <2>1, <2>2, Zenon DEF PcType
<1>3. pc' \in [Pc -> PcType]
  BY <1>2, Zenon DEF Tick
<1>4. UNCHANGED <<pending, creating, bev, frame, exit, threw, overlapped, abandoned, asked>>
  BY Zenon DEF Tick, lifeVars
<1>5. TypeOK'
  BY <1>1, <1>3, <1>4, Zenon DEF TypeOK, PcType
<1>6. Consistent'
  BY <1>2, <1>4, Zenon DEF Consistent, TypeOK
<1>7. Attached'
  BY <1>4, Zenon DEF Attached
<1> QED BY <1>5, <1>6, <1>7, Zenon

\* What starting attempts does.
LEMMA InitiateFacts ==
  ASSUME LifeInv, NEW ps, ps \subseteq Pc, NEW host, \A p \in ps : host[p] \in Host,
         Initiate(ps, host)
  PROVE  /\ bev' \in [Bev -> BevType] /\ overlapped' \in BOOLEAN
         /\ overlapped => overlapped'
         /\ \A b \in Bev :
              \/ bev'[b] = bev[b]
              \/ /\ bev[b].stage = "free" /\ bev'[b].stage = "connecting"
                 /\ bev'[b].pc \in ps /\ bev'[b].host = host[bev'[b].pc]
         /\ \A b, c \in Bev : bev'[b] # bev[b] /\ bev'[c] # bev[c] /\ bev'[b].pc = bev'[c].pc
                              => b = c
         /\ ~overlapped' => \A p \in ps : \A b \in Bev : bev[b].pc # p
<1> USE DEF LifeInv, ReconnectInv
<1>1. PICK ctx \in [Bev -> ps \cup {NoPc}] :
        /\ \A b \in Bev : ctx[b] \in ps => b \in FreeBevs
        /\ \A b, c \in Bev : ctx[b] = ctx[c] /\ ctx[b] \in ps => b = c
        /\ bev' = [b \in Bev |->
                     IF ctx[b] \in ps
                     THEN [stage |-> "connecting", pc |-> ctx[b], host |-> host[ctx[b]]]
                     ELSE bev[b]]
  BY Zenon DEF Initiate
<1>2. \A b \in Bev :
        \/ bev'[b] = bev[b] /\ ctx[b] \notin ps
        \/ /\ bev[b].stage = "free" /\ ctx[b] \in ps
           /\ bev'[b] = [stage |-> "connecting", pc |-> ctx[b], host |-> host[ctx[b]]]
  BY <1>1, Zenon DEF FreeBevs
<1>3. \A b \in Bev : bev'[b] \in BevType
  <2> SUFFICES ASSUME NEW b \in Bev PROVE bev'[b] \in BevType
    OBVIOUS
  <2>1. bev[b] \in BevType
    BY Zenon DEF TypeOK, BevType, Stage
  <2>2. ctx[b] \in ps => [stage |-> "connecting", pc |-> ctx[b], host |-> host[ctx[b]]] \in BevType
    BY Zenon DEF BevType, Stage
  <2> QED BY <1>2, <2>1, <2>2, Zenon
<1>4. bev' \in [Bev -> BevType]
  BY <1>1, <1>3, Zenon
<1>5. \A b \in Bev :
        \/ bev'[b] = bev[b]
        \/ /\ bev[b].stage = "free" /\ bev'[b].stage = "connecting"
           /\ bev'[b].pc \in ps /\ bev'[b].host = host[bev'[b].pc]
  <2> SUFFICES ASSUME NEW b \in Bev, bev'[b] # bev[b]
               PROVE  /\ bev[b].stage = "free" /\ bev'[b].stage = "connecting"
                      /\ bev'[b].pc \in ps /\ bev'[b].host = host[bev'[b].pc]
    OBVIOUS
  <2>1. /\ bev[b].stage = "free" /\ ctx[b] \in ps
        /\ bev'[b] = [stage |-> "connecting", pc |-> ctx[b], host |-> host[ctx[b]]]
    BY <1>2, Zenon
  <2> QED BY <2>1
<1>6. \A b, c \in Bev : bev'[b] # bev[b] /\ bev'[c] # bev[c] /\ bev'[b].pc = bev'[c].pc
                        => b = c
  <2>1. ASSUME NEW b \in Bev, bev'[b] # bev[b] PROVE ctx[b] \in ps /\ bev'[b].pc = ctx[b]
    <3>1. ctx[b] \in ps
          /\ bev'[b] = [stage |-> "connecting", pc |-> ctx[b], host |-> host[ctx[b]]]
      BY <1>2, <2>1, Zenon
    <3> QED BY <3>1
  <2> QED BY <1>1, <2>1, Zenon
<1>7. overlapped' \in BOOLEAN /\ (overlapped => overlapped')
      /\ (~overlapped' => \A p \in ps : \A b \in Bev : bev[b].pc # p)
  BY Zenon DEF Initiate, Attempts
<1> QED BY <1>4, <1>5, <1>6, <1>7, Zenon

\* Starting attempts for PendingConnections that are held keeps the invariant,
\* whatever else the step does to createConnection.
LEMMA InitiateStep ==
  ASSUME LifeInv, NEW ps, ps \subseteq Pc, NEW host, \A p \in ps : host[p] \in Host,
         Initiate(ps, host), UNCHANGED <<pc, pending, creating, asked, exit>>,
         \A p \in ps : \/ p \in pending /\ host[p] = pc[p].host
                       \/ p \notin pending /\ (p = frame'.pc \/ abandoned'),
         frame' \in FrameType, frame'.pc \notin pending, frame'.pc = NoPc <=> frame' = NoFrame,
         abandoned' \in BOOLEAN, abandoned => abandoned', threw' \in BOOLEAN,
         timers' \in [0 .. Interval -> Nat],
         \A b \in Bev : bev[b].pc \in Pc /\ bev[b].pc = frame.pc /\ frame.pc # frame'.pc => abandoned'
  PROVE  LifeInv'
<1> USE DEF LifeInv, ReconnectInv
<1>1. /\ bev' \in [Bev -> BevType] /\ overlapped' \in BOOLEAN
      /\ overlapped => overlapped'
      /\ ~overlapped' => \A p \in ps : \A b \in Bev : bev[b].pc # p
  BY InitiateFacts, Zenon
<1>2. \A b \in Bev : \/ bev'[b] = bev[b]
                     \/ /\ bev[b].stage = "free" /\ bev'[b].stage = "connecting"
                        /\ bev'[b].pc \in ps /\ bev'[b].host = host[bev'[b].pc]
  BY InitiateFacts
<1>3. \A b, c \in Bev : bev'[b] # bev[b] /\ bev'[c] # bev[c] /\ bev'[b].pc = bev'[c].pc => b = c
  BY InitiateFacts, Zenon
<1>4. TypeOK'
  BY <1>1, Zenon DEF TypeOK, BevType, Stage, FrameType
<1>5. Consistent'
  <2>1. \A p \in Pc : IF p \in pending' THEN pc'[p].host \in Host ELSE pc'[p] = NoContents
    BY Zenon DEF Consistent
  <2>2. \A b \in Bev : /\ bev'[b].pc \in Pc <=> bev'[b].stage \in {"connecting", "login"}
                       /\ bev'[b].stage # "free" => bev'[b].host \in Host
                       /\ bev'[b].pc \in pending' => bev'[b].host = pc'[bev'[b].pc].host
    BY <1>2 DEF Consistent
  <2>3. ASSUME ~overlapped', NEW b \in Bev, NEW c \in Bev, bev'[b].pc = bev'[c].pc, bev'[b].pc \in Pc
        PROVE  b = c
    <3>1. CASE bev'[b] = bev[b] /\ bev'[c] = bev[c]
      BY <1>1, <2>3, <3>1 DEF Consistent
    <3>2. CASE bev'[b] # bev[b] /\ bev'[c] # bev[c]
      BY <1>3, <2>3, <3>2, Zenon
    <3>3. CASE bev'[b] # bev[b] /\ bev'[c] = bev[c]
      BY <1>1, <1>2, <2>3, <3>3, Zenon
    <3>4. CASE bev'[b] = bev[b] /\ bev'[c] # bev[c]
      BY <1>1, <1>2, <2>3, <3>4, Zenon
    <3> QED BY <3>1, <3>2, <3>3, <3>4, Zenon
  <2> QED BY <2>1, <2>2, <2>3, Zenon DEF Consistent
<1>6. Attached'
  <2> SUFFICES ASSUME NEW b \in Bev, bev'[b].pc \in Pc, bev'[b].pc \notin pending,
                      bev'[b].pc # frame'.pc
               PROVE  overlapped' \/ abandoned'
    BY Zenon DEF Attached
  <2>1. bev'[b] = bev[b] \/ abandoned'
    BY <1>2, Zenon
  <2> QED BY <1>1, <2>1, Zenon DEF Attached
<1> QED BY <1>4, <1>5, <1>6, Zenon

\* createConnection starts an attempt with a PendingConnection of its own.
LEMMA CreateConnectionInv ==
  ASSUME LifeInv, NEW h \in Host, CreateConnection(h)
  PROVE  LifeInv'
<1>1. PICK p \in Unused : /\ frame' = [pc |-> p, dispatch |-> 1, m_status |-> TRUE]
                          /\ Initiate({p}, [q \in {p} |-> h])
  BY Zenon DEF CreateConnection
<1>2. p \in Pc /\ p \notin pending /\ p # NoPc
  BY ConstantTypes, Zenon DEF Unused, Held
<1>3. frame' \in FrameType /\ frame'.pc = p /\ frame' # NoFrame
  BY <1>1, <1>2 DEF FrameType, NoFrame
<1>4. frame = NoFrame /\ frame.pc = NoPc
  BY Zenon DEF CreateConnection, NoFrame
<1> DEFINE ps == {p}  host == [q \in {p} |-> h]
<1>5. ps \subseteq Pc /\ (\A q \in ps : host[q] \in Host) /\ (\A q \in ps : q = p)
  BY <1>2, Zenon
<1>6. Initiate(ps, host)
  BY <1>1, Zenon
<1>7. UNCHANGED <<pc, pending, creating, timers, exit, threw, abandoned, asked>>
  BY Zenon DEF CreateConnection
<1> HIDE DEF ps, host
<1>8. \A b \in Bev : bev[b].pc \in Pc /\ bev[b].pc = frame.pc /\ frame.pc # frame'.pc => abandoned'
  BY <1>4, ConstantTypes, Zenon
<1>9. abandoned' \in BOOLEAN /\ threw' \in BOOLEAN /\ timers' \in [0 .. Interval -> Nat]
  BY <1>7, Zenon DEF LifeInv, ReconnectInv, TypeOK
<1> QED BY <1>2, <1>3, <1>5, <1>6, <1>7, <1>8, <1>9, InitiateStep

\* A createConnection that cannot run the loop leaves its attempt behind.
LEMMA CreateConnectionRefusedInv ==
  ASSUME LifeInv, NEW h \in Host, CreateConnectionRefused(h)
  PROVE  LifeInv'
<1>1. PICK p \in Unused : Initiate({p}, [q \in {p} |-> h])
  BY Zenon DEF CreateConnectionRefused
<1>2. p \in Pc /\ p \notin pending
  BY Zenon DEF Unused, Held
<1> DEFINE ps == {p}  host == [q \in {p} |-> h]
<1>3. ps \subseteq Pc /\ (\A q \in ps : host[q] \in Host) /\ (\A q \in ps : q \notin pending)
  BY <1>2, Zenon
<1>4. Initiate(ps, host)
  BY <1>1, Zenon
<1>5. UNCHANGED <<pc, pending, creating, timers, frame, exit, threw, asked>> /\ abandoned' = TRUE
  BY Zenon DEF CreateConnectionRefused
<1> HIDE DEF ps, host
<1>6. /\ frame' \in FrameType /\ frame'.pc \notin pending /\ (frame'.pc = NoPc <=> frame' = NoFrame)
      /\ threw' \in BOOLEAN /\ timers' \in [0 .. Interval -> Nat]
  BY <1>5, Zenon DEF LifeInv, ReconnectInv, TypeOK, Consistent, FrameType
<1> QED BY <1>3, <1>4, <1>5, <1>6, InitiateStep, Zenon

\* The reconnect timer starts attempts for hosts in the list only.
LEMMA ReconnectEventCallbackInv ==
  ASSUME LifeInv, ReconnectEventCallback
  PROVE  LifeInv'
<1> USE DEF LifeInv, ReconnectInv
<1>0. timers \in [0 .. Interval -> Nat] /\ timers[0] # 0 /\ 0 \in 0 .. Interval /\ Interval \in 0 .. Interval
  BY ConstantTypes DEF ReconnectEventCallback, TypeOK
<1>1. CASE pending = {}
  <2>1. timers' = [timers EXCEPT ![0] = @ - 1]
        /\ UNCHANGED <<pc, bev, overlapped, pending, creating, frame, exit, threw, abandoned, asked>>
    BY <1>1, Zenon DEF ReconnectEventCallback
  <2>2. timers' \in [0 .. Interval -> Nat]
    BY <1>0, <2>1
  <2> QED BY <2>1, <2>2, QuietStep, Zenon DEF TypeOK
<1>2. CASE pending # {}
  <2>1. /\ timers' = [timers EXCEPT ![0] = @ - 1, ![Interval] = @ + 1]
        /\ UNCHANGED <<pc, pending, creating, frame, exit, threw, abandoned, asked>>
        /\ Initiate(Stale, Hosts)
    BY <1>2, Zenon DEF ReconnectEventCallback
  <2>2. timers' \in [0 .. Interval -> Nat]
    BY <1>0, <2>1, ConstantTypes
  <2>3. /\ Stale \subseteq pending /\ Stale \subseteq Pc
        /\ \A p \in Stale : Hosts[p] = pc[p].host /\ Hosts[p] \in Host
    BY Zenon DEF Stale, Hosts, TypeOK, Consistent
  <2> HIDE DEF LifeInv, ReconnectInv
  <2>4. /\ frame' \in FrameType /\ frame'.pc \notin pending /\ (frame'.pc = NoPc <=> frame' = NoFrame)
        /\ abandoned' \in BOOLEAN /\ threw' \in BOOLEAN
    BY <2>1, Zenon DEF LifeInv, ReconnectInv, TypeOK, Consistent, FrameType
  <2>5. /\ \A p \in Stale : (p \in pending /\ Hosts[p] = pc[p].host) \/ (p = frame'.pc /\ p \notin pending)
        /\ \A b \in Bev : bev[b].pc \in Pc /\ bev[b].pc = frame.pc /\ frame.pc # frame'.pc => abandoned'
        /\ \A p \in Stale : Hosts[p] \in Host
    BY <2>1, <2>3, Zenon
  <2>8. abandoned => abandoned'
    BY <2>1, Zenon
  <2> DEFINE ps == Stale  host == Hosts
  <2>6. /\ \A p \in ps : (p \in pending /\ host[p] = pc[p].host) \/ (p = frame'.pc /\ p \notin pending)
        /\ \A p \in ps : host[p] \in Host
        /\ ps \subseteq Pc
    BY <2>3, <2>5, Zenon
  <2>7. Initiate(ps, host)
    BY <2>1, Zenon
  <2> HIDE DEF ps, host
  <2> QED BY <2>1, <2>2, <2>4, <2>5, <2>6, <2>7, <2>8, InitiateStep, Zenon
<1> QED BY <1>1, <1>2, Zenon

\* An exception half way leaves attempts for hosts in the list only.
LEMMA ReconnectThrowsInv ==
  ASSUME LifeInv, ReconnectThrows
  PROVE  LifeInv'
<1>1. PICK ps \in SUBSET Stale : Initiate(ps, Hosts)
  BY Zenon DEF ReconnectThrows
<1>2. timers \in [0 .. Interval -> Nat] /\ timers[0] # 0 /\ 0 \in 0 .. Interval
  BY ConstantTypes DEF ReconnectThrows, LifeInv, ReconnectInv, TypeOK
<1>3. timers' \in [0 .. Interval -> Nat]
  BY <1>2 DEF ReconnectThrows
<1>4. /\ ps \subseteq pending /\ ps \subseteq Pc
      /\ \A p \in ps : Hosts[p] = pc[p].host /\ Hosts[p] \in Host
  BY Zenon DEF Stale, Hosts, LifeInv, ReconnectInv, TypeOK, Consistent
<1>5. /\ frame' = NoFrame /\ frame' \in FrameType /\ frame'.pc = NoPc
      /\ UNCHANGED <<pc, pending, creating, exit, asked>> /\ threw' = TRUE
  BY ConstantTypes, Zenon DEF ReconnectThrows, Leave, NoFrame
<1>6. abandoned' \in BOOLEAN /\ (abandoned => abandoned')
      /\ (frame # NoFrame /\ Attempts(frame.pc) # {} => abandoned')
  BY Zenon DEF ReconnectThrows, Leave
<1>7. \A b \in Bev : bev[b].pc \in Pc /\ bev[b].pc = frame.pc /\ frame.pc # frame'.pc => abandoned'
  BY <1>5, <1>6, Zenon DEF Attempts
<1>8. NoPc \notin pending
  BY ConstantTypes, Zenon DEF LifeInv, ReconnectInv, TypeOK
<1> DEFINE host == Hosts
<1>9. /\ \A p \in ps : (p \in pending /\ host[p] = pc[p].host) \/ (p = frame'.pc /\ p \notin pending)
      /\ \A p \in ps : host[p] \in Host
      /\ ps \subseteq Pc
  BY <1>4, Zenon
<1>11. Initiate(ps, host)
  BY <1>1, Zenon
<1> HIDE DEF host
<1>10. /\ frame'.pc \notin pending /\ (frame'.pc = NoPc <=> frame' = NoFrame) /\ threw' \in BOOLEAN
       /\ UNCHANGED <<pc, pending, creating, asked, exit>>
  BY <1>5, <1>8, Zenon
<1> QED BY <1>3, <1>5, <1>6, <1>7, <1>9, <1>10, <1>11, InitiateStep, Zenon

-----------------------------------------------------------------------------
\* A new PendingConnection goes into the list; sockets may only be closed.
LEMMA PushStep ==
  ASSUME LifeInv, NEW p \in Unused, NEW h \in Host, NEW age \in 0 .. Never,
         pc' = [pc EXCEPT ![p] = [host |-> h, age |-> age]], pending' = pending \cup {p},
         bev' \in [Bev -> BevType], \A b \in Bev : bev'[b] \in {bev[b], Free},
         UNCHANGED <<frame, overlapped, abandoned, threw>>,
         creating' \subseteq [pc : Pc, due : {0, Interval}],
         timers' \in [0 .. Interval -> Nat], exit' \in BOOLEAN, asked' \in [Host -> Nat]
  PROVE  LifeInv'
<1> USE DEF LifeInv, ReconnectInv
<1>1. p \in Pc /\ p \notin pending /\ p # frame.pc /\ \A b \in Bev : bev[b].pc # p
  BY Zenon DEF Unused, Held, Attempts
<1>2. pc \in [Pc -> PcType]
  BY Zenon DEF TypeOK, PcType
<1>3. [host |-> h, age |-> age] \in PcType
  BY Zenon DEF PcType
<1>4. pc' \in [Pc -> PcType] /\ pc'[p].host = h /\ \A q \in Pc : q # p => pc'[q] = pc[q]
  BY <1>1, <1>2, <1>3, Zenon
<1>5. TypeOK'
  BY <1>1, <1>4, Zenon DEF TypeOK, PcType, BevType, Stage
<1>6. \A b \in Bev : bev'[b] = bev[b] \/ (bev'[b].pc = NoPc /\ bev'[b].stage = "free")
  BY DEF Free
<1>7. Consistent'
  <2>1. \A q \in Pc : IF q \in pending' THEN pc'[q].host \in Host ELSE pc'[q] = NoContents
    BY <1>1, <1>4 DEF Consistent
  <2>2. \A b \in Bev : /\ bev'[b].pc \in Pc <=> bev'[b].stage \in {"connecting", "login"}
                       /\ bev'[b].stage # "free" => bev'[b].host \in Host
                       /\ bev'[b].pc \in pending' => bev'[b].host = pc'[bev'[b].pc].host
    <3> SUFFICES ASSUME NEW b \in Bev
                 PROVE  /\ bev'[b].pc \in Pc <=> bev'[b].stage \in {"connecting", "login"}
                        /\ bev'[b].stage # "free" => bev'[b].host \in Host
                        /\ bev'[b].pc \in pending' => bev'[b].host = pc'[bev'[b].pc].host
      OBVIOUS
    <3>1. CASE bev'[b] = bev[b]
      <4>1. bev[b].pc \in pending' => bev[b].pc \in pending /\ bev[b].pc \in Pc /\ bev[b].pc # p
        BY <1>1, Zenon DEF TypeOK
      <4> QED BY <1>4, <3>1, <4>1 DEF Consistent
    <3>2. CASE bev'[b].pc = NoPc /\ bev'[b].stage = "free"
      BY <1>5, <3>2, ConstantTypes, Zenon DEF TypeOK
    <3> QED BY <1>6, <3>1, <3>2, Zenon
  <2>3. ASSUME ~overlapped', NEW b \in Bev, NEW c \in Bev, bev'[b].pc = bev'[c].pc, bev'[b].pc \in Pc
        PROVE  b = c
    <3>1. bev'[b] = bev[b] /\ bev'[c] = bev[c]
      BY <1>6, <2>3, ConstantTypes, Zenon
    <3> QED BY <2>3, <3>1 DEF Consistent
  <2>4. frame'.pc \notin pending' /\ (frame'.pc = NoPc <=> frame' = NoFrame)
    BY <1>1, Zenon DEF Consistent
  <2> QED BY <2>1, <2>2, <2>3, <2>4, Zenon DEF Consistent
<1>8. Attached'
  BY <1>6, ConstantTypes, Zenon DEF Attached
<1> QED BY <1>5, <1>7, <1>8, Zenon

\* createPendingConnection adds what was asked for to the list.
LEMMA CreatePendingConnectionInv ==
  ASSUME LifeInv, NEW h \in Host, NEW age \in {0, Never}, CreatePendingConnection(h, age)
  PROVE  LifeInv'
<1>1. PICK p \in Unused :
        /\ pc' = [pc EXCEPT ![p] = [host |-> h, age |-> age]]
        /\ pending' = pending \cup {p}
        /\ creating' = creating \cup {[pc |-> p, due |-> IF age = Never THEN 0 ELSE Interval]}
  BY Zenon DEF CreatePendingConnection
<1>2. p \in Pc /\ age \in 0 .. Never
  BY ConstantTypes, Zenon DEF Unused
<1>3. creating' \subseteq [pc : Pc, due : {0, Interval}]
  BY <1>1, <1>2 DEF LifeInv, ReconnectInv, TypeOK
<1>4. asked' \in [Host -> Nat]
  BY DEF CreatePendingConnection, Asked, LifeInv, ReconnectInv, TypeOK
<1>5. /\ bev' = bev /\ bev \in [Bev -> BevType] /\ timers' \in [0 .. Interval -> Nat]
      /\ exit' \in BOOLEAN /\ UNCHANGED <<frame, overlapped, abandoned, threw>>
  BY Zenon DEF CreatePendingConnection, LifeInv, ReconnectInv, TypeOK, BevType, Stage
<1> QED BY <1>1, <1>2, <1>3, <1>4, <1>5, PushStep, Zenon

\* A lost connection moves its host to the list.
LEMMA ConnectionLostInv ==
  ASSUME LifeInv, NEW b \in Bev, ConnectionLost(b)
  PROVE  LifeInv'
<1>1. PICK p \in Unused :
        /\ pc' = [pc EXCEPT ![p] = [host |-> bev[b].host, age |-> 0]]
        /\ pending' = pending \cup {p}
  BY Zenon DEF ConnectionLost
<1>2. bev[b].host \in Host /\ 0 \in 0 .. Never
  BY ConstantTypes, Zenon DEF ConnectionLost, LifeInv, ReconnectInv, Consistent
<1>3. timers' \in [0 .. Interval -> Nat]
  BY ConstantTypes DEF ConnectionLost, StartTimer, LifeInv, ReconnectInv, TypeOK
<1>4. bev \in [Bev -> BevType] /\ bev' = [bev EXCEPT ![b] = Free]
  BY Zenon DEF ConnectionLost, LifeInv, ReconnectInv, TypeOK, BevType, Stage
<1>5. bev' \in [Bev -> BevType] /\ \A c \in Bev : bev'[c] \in {bev[c], Free}
  BY <1>4, ConstantTypes, Zenon
<1>6. exit' \in BOOLEAN
  BY Zenon DEF ConnectionLost, LifeInv, ReconnectInv, TypeOK
<1>7. /\ UNCHANGED <<frame, overlapped, abandoned, threw>>
      /\ creating' \subseteq [pc : Pc, due : {0, Interval}] /\ asked' \in [Host -> Nat]
  BY Zenon DEF ConnectionLost, lifeVars, LifeInv, ReconnectInv, TypeOK
<1> QED BY <1>1, <1>2, <1>3, <1>5, <1>6, <1>7, PushStep, Zenon

\* createConnection gives up its PendingConnection, or waits once more.
LEMMA DispatchReturnsInv ==
  ASSUME LifeInv, DispatchReturns
  PROVE  LifeInv'
<1> USE DEF LifeInv, ReconnectInv
<1>1. /\ UNCHANGED <<pc, pending, creating, bev, timers, threw, overlapped, asked>>
      /\ exit' = FALSE /\ frame \in FrameType /\ frame # NoFrame
  BY Zenon DEF DispatchReturns, TypeOK, FrameType
<1>2. CASE frame.dispatch = 1 /\ frame.m_status
  <2>1. frame' = [frame EXCEPT !.dispatch = 2] /\ abandoned' = abandoned
    BY <1>2, Zenon DEF DispatchReturns
  <2>2. frame' \in FrameType /\ frame'.pc = frame.pc /\ frame' # NoFrame
    BY <1>1, <2>1 DEF FrameType, NoFrame
  <2>3. TypeOK'
    BY <1>1, <2>1, <2>2, Zenon DEF TypeOK, FrameType
  <2>4. Consistent'
    BY <1>1, <2>1, <2>2 DEF Consistent
  <2>5. Attached'
    BY <1>1, <2>1, <2>2, Zenon DEF Attached
  <2> QED BY <2>3, <2>4, <2>5, Zenon
<1>3. CASE ~(frame.dispatch = 1 /\ frame.m_status)
  <2>1. Leave(Attempts(frame.pc))
    BY <1>3, Zenon DEF DispatchReturns
  <2>2. frame' = NoFrame /\ frame' \in FrameType /\ frame'.pc = NoPc /\ NoPc \notin pending
    BY <2>1, ConstantTypes, Zenon DEF Leave, NoFrame, TypeOK
  <2>3. abandoned' \in BOOLEAN /\ (abandoned => abandoned')
        /\ (Attempts(frame.pc) # {} => abandoned')
    BY <1>1, <2>1, Zenon DEF Leave
  <2>4. TypeOK'
    BY <1>1, <2>2, <2>3, Zenon DEF TypeOK, FrameType
  <2>5. Consistent'
    BY <1>1, <2>2, Zenon DEF Consistent
  <2>6. Attached'
    BY <1>1, <2>2, <2>3, Zenon DEF Attached, Attempts
  <2> QED BY <2>4, <2>5, <2>6, Zenon
<1> QED BY <1>2, <1>3, Zenon

-----------------------------------------------------------------------------
\* What the end of an authentication callback does to the list's contents.
LEMMA TailFacts ==
  ASSUME LifeInv, NEW p, Tail(p), pending' \subseteq pending
  PROVE  /\ pc' \in [Pc -> PcType] /\ exit' \in BOOLEAN
         /\ \A q \in Pc : IF q \in pending' THEN pc'[q].host = pc[q].host ELSE pc'[q] = NoContents
<1> USE DEF LifeInv, ReconnectInv
<1>1. pc \in [Pc -> PcType] /\ pending \subseteq Pc
  BY Zenon DEF TypeOK, PcType
<1>2. ASSUME NEW q \in Pc
      PROVE  /\ pc'[q] \in PcType
             /\ IF q \in pending' THEN pc'[q].host = pc[q].host ELSE pc'[q] = NoContents
  <2>1. pc'[q] = IF q \notin pending' THEN NoContents
                 ELSE IF q = p THEN [pc[p] EXCEPT !.age = 0] ELSE pc[q]
    BY Zenon DEF Tail
  <2>2. CASE q \notin pending'
    BY <2>1, <2>2, ConstantTypes, Zenon
  <2>3. CASE q \in pending' /\ q = p
    <3>1. pc'[q] = [pc[q] EXCEPT !.age = 0] /\ pc[q] \in PcType
      BY <1>1, <2>1, <2>3, Zenon
    <3> QED BY <2>3, <3>1, ConstantTypes, Zenon DEF PcType
  <2>4. CASE q \in pending' /\ q # p
    BY <1>1, <2>1, <2>4, Zenon
  <2> QED BY <2>2, <2>3, <2>4, Zenon
<1>3. pc' \in [Pc -> PcType]
  BY <1>2, Zenon DEF Tail
<1>4. exit' \in BOOLEAN
  BY Zenon DEF Tail, TypeOK
<1> QED BY <1>2, <1>3, <1>4, Zenon

\* Callbacks that change no bufferevent's context except to drop it.
LEMMA CallbackStep ==
  ASSUME LifeInv, NEW p, pending' = pending \/ pending' = pending \ {p},
         pc' \in [Pc -> PcType],
         \A q \in Pc : IF q \in pending' THEN pc'[q].host = pc[q].host ELSE pc'[q] = NoContents,
         bev' \in [Bev -> BevType],
         \A c \in Bev : bev'[c].pc = NoPc \/ (bev'[c].pc = bev[c].pc /\ bev'[c].host = bev[c].host),
         \A c \in Bev : (bev'[c].pc \in Pc <=> bev'[c].stage \in {"connecting", "login"})
                        /\ (bev'[c].stage # "free" => bev'[c].host \in Host),
         pending' # pending => \A c \in Bev : bev'[c].pc = p => overlapped,
         frame' \in FrameType, frame'.pc \in {frame.pc, NoPc}, frame'.pc = NoPc <=> frame' = NoFrame,
         \A c \in Bev : bev'[c].pc \in Pc /\ bev'[c].pc = frame.pc /\ frame'.pc # frame.pc => abandoned',
         abandoned' \in BOOLEAN, abandoned => abandoned',
         UNCHANGED <<creating, timers, overlapped>>, threw' \in BOOLEAN,
         exit' \in BOOLEAN, asked' \in [Host -> Nat]
  PROVE  LifeInv'
<1> USE DEF LifeInv, ReconnectInv
<1>1. pending' \subseteq pending /\ pending \subseteq Pc /\ NoPc \notin Pc
  BY ConstantTypes, Zenon DEF TypeOK
<1>2. TypeOK'
  BY <1>1, Zenon DEF TypeOK, PcType, BevType, Stage, FrameType
<1>3. \A q \in Pc : IF q \in pending' THEN pc'[q].host \in Host ELSE pc'[q] = NoContents
  BY <1>1, Zenon DEF Consistent
<1>4. \A c \in Bev : bev'[c].pc \in pending' => bev'[c].host = pc'[bev'[c].pc].host
  BY <1>1 DEF Consistent
<1>5. ~overlapped' => \A b, c \in Bev : bev'[b].pc = bev'[c].pc /\ bev'[b].pc \in Pc => b = c
  BY <1>1 DEF Consistent
<1>6. Consistent'
  BY <1>1, <1>3, <1>4, <1>5 DEF Consistent
<1>7. Attached'
  <2> SUFFICES ASSUME NEW c \in Bev, bev'[c].pc \in Pc, bev'[c].pc \notin pending',
                      bev'[c].pc # frame'.pc
               PROVE  overlapped' \/ abandoned'
    BY Zenon DEF Attached
  <2>1. bev'[c].pc = bev[c].pc
    BY <1>1, Zenon
  <2>2. CASE bev[c].pc \in pending
    BY <2>1, <2>2, Zenon
  <2>3. CASE bev[c].pc = frame.pc
    BY <2>1, <2>3, Zenon
  <2>4. CASE bev[c].pc \notin pending /\ bev[c].pc # frame.pc
    BY <2>1, <2>4, Zenon DEF Attached
  <2> QED BY <2>2, <2>3, <2>4, Zenon
<1> QED BY <1>2, <1>6, <1>7, Zenon

\* The callbacks of attempts that end without a connection, or go on.
LEMMA AttemptInv ==
  ASSUME LifeInv, NEW b \in Bev, Connected(b) \/ AttemptFails(b)
  PROVE  LifeInv'
<1>1. /\ Tail(bev[b].pc) /\ UNCHANGED <<pending, creating, timers, threw, overlapped, abandoned, asked>>
      /\ bev[b].stage \in {"connecting", "login"}
      /\ bev' \in {[bev EXCEPT ![b].stage = "login"], [bev EXCEPT ![b] = Free]}
      /\ frame' \in {frame, [frame EXCEPT !.m_status = FALSE]}
  BY Zenon DEF Connected, AttemptFails, lifeVars
<1>2. /\ pc' \in [Pc -> PcType] /\ exit' \in BOOLEAN
      /\ \A q \in Pc : IF q \in pending' THEN pc'[q].host = pc[q].host ELSE pc'[q] = NoContents
  BY <1>1, TailFacts, Zenon
<1>3. bev \in [Bev -> BevType] /\ frame \in FrameType
  BY Zenon DEF LifeInv, ReconnectInv, TypeOK, BevType, Stage, FrameType
<1>4. bev[b].pc \in Pc /\ bev[b].host \in Host
  BY <1>1, Zenon DEF LifeInv, ReconnectInv, Consistent
<1>5. bev' \in [Bev -> BevType]
  BY <1>1, <1>3, ConstantTypes DEF BevType, Stage
<1>6. /\ \A c \in Bev : bev'[c].pc = NoPc \/ (bev'[c].pc = bev[c].pc /\ bev'[c].host = bev[c].host)
      /\ \A c \in Bev : (bev'[c].pc \in Pc <=> bev'[c].stage \in {"connecting", "login"})
                        /\ (bev'[c].stage # "free" => bev'[c].host \in Host)
  <2> SUFFICES ASSUME NEW c \in Bev
               PROVE  /\ bev'[c].pc = NoPc \/ (bev'[c].pc = bev[c].pc /\ bev'[c].host = bev[c].host)
                      /\ (bev'[c].pc \in Pc <=> bev'[c].stage \in {"connecting", "login"})
                      /\ (bev'[c].stage # "free" => bev'[c].host \in Host)
    OBVIOUS
  <2>1. CASE c # b
    BY <1>1, <1>3, <2>1, Zenon DEF LifeInv, ReconnectInv, Consistent
  <2>2. CASE c = b /\ bev' = [bev EXCEPT ![b].stage = "login"]
    <3>1. bev'[b] = [bev[b] EXCEPT !.stage = "login"] /\ bev[b] \in BevType
      BY <1>3, <2>2, Zenon
    <3>2. bev'[b].pc = bev[b].pc /\ bev'[b].host = bev[b].host /\ bev'[b].stage = "login"
      BY <3>1, Zenon DEF BevType
    <3> QED BY <1>4, <2>2, <3>2, Zenon
  <2>3. CASE c = b /\ bev' = [bev EXCEPT ![b] = Free]
    BY <1>3, <2>3, ConstantTypes, Zenon DEF Free
  <2> QED BY <1>1, <2>1, <2>2, <2>3, Zenon
<1>7. /\ frame' \in FrameType /\ frame'.pc = frame.pc
      /\ frame.pc = NoPc <=> frame = NoFrame
      /\ frame'.pc = NoPc <=> frame' = NoFrame
  <2>1. frame.pc = NoPc <=> frame = NoFrame
    BY Zenon DEF LifeInv, ReconnectInv, Consistent
  <2>2. frame' \in FrameType /\ frame'.pc = frame.pc
    BY <1>1, <1>3, Zenon DEF FrameType
  <2>3. frame = NoFrame => frame' = NoFrame
    BY <1>1 DEF NoFrame
  <2>4. frame' = NoFrame => frame'.pc = NoPc
    BY DEF NoFrame
  <2> QED BY <2>1, <2>2, <2>3, <2>4, Zenon
<1>8. /\ abandoned' \in BOOLEAN /\ (abandoned => abandoned') /\ asked' \in [Host -> Nat]
      /\ threw' \in BOOLEAN
  BY <1>1, Zenon DEF LifeInv, ReconnectInv, TypeOK
<1> QED BY <1>1, <1>2, <1>5, <1>6, <1>7, <1>8, CallbackStep, Zenon

\* What a login does: a socket is up, its PendingConnection is off the list.
LEMMA LoggedInFacts ==
  ASSUME LifeInv, NEW b \in Bev, LoggedIn(b)
  PROVE  /\ bev[b].pc \in Pc /\ bev[b].host \in Host /\ bev' \in [Bev -> BevType]
         /\ bev'[b].stage = "up" /\ bev'[b].pc = NoPc /\ bev'[b].host = bev[b].host
         /\ \A c \in Bev : c # b => bev'[c] = bev[c]
         /\ pending' = pending \ {bev[b].pc}
         /\ pc' \in [Pc -> PcType] /\ exit' \in BOOLEAN
         /\ \A q \in Pc : IF q \in pending' THEN pc'[q].host = pc[q].host ELSE pc'[q] = NoContents
         /\ asked' \in [Host -> Nat]
<1>1. pending' = pending \ {bev[b].pc} /\ Tail(bev[b].pc)
  BY Zenon DEF LoggedIn, Erase
<1>2. /\ pc' \in [Pc -> PcType] /\ exit' \in BOOLEAN
      /\ \A q \in Pc : IF q \in pending' THEN pc'[q].host = pc[q].host ELSE pc'[q] = NoContents
  BY <1>1, TailFacts, Zenon
<1>3. bev[b].pc \in Pc /\ bev[b].host \in Host
  BY Zenon DEF LoggedIn, LifeInv, ReconnectInv, Consistent
<1>4. bev \in [Bev -> BevType]
  BY Zenon DEF LifeInv, ReconnectInv, TypeOK, BevType, Stage
<1>5. [stage |-> "up", pc |-> NoPc, host |-> bev[b].host] \in BevType
  BY <1>3, Zenon DEF BevType, Stage
<1>6. /\ bev' \in [Bev -> BevType] /\ \A c \in Bev : c # b => bev'[c] = bev[c]
      /\ bev'[b] = [stage |-> "up", pc |-> NoPc, host |-> bev[b].host]
  BY <1>4, <1>5, Zenon DEF LoggedIn
<1>7. asked' \in [Host -> Nat]
  <2>1. asked \in [Host -> Nat]
    BY Zenon DEF LifeInv, ReconnectInv, TypeOK
  <2>2. asked' = asked \/ asked' = [asked EXCEPT ![bev[b].host] = @ + 1]
    BY Zenon DEF LoggedIn, Asked
  <2> QED BY <1>3, <2>1, <2>2
<1> QED BY <1>1, <1>2, <1>3, <1>6, <1>7

\* A login turns one pending connection into one that is up.
LEMMA LoggedInInv ==
  ASSUME LifeInv, NEW b \in Bev, LoggedIn(b)
  PROVE  LifeInv'
<1> DEFINE p == bev[b].pc
<1>1. UNCHANGED <<creating, timers, frame, threw, overlapped, abandoned>>
  BY Zenon DEF LoggedIn
<1>2. \A c \in Bev : bev'[c].pc = NoPc \/ (bev'[c].pc = bev[c].pc /\ bev'[c].host = bev[c].host)
  BY LoggedInFacts, Zenon
<1>3. \A c \in Bev : (bev'[c].pc \in Pc <=> bev'[c].stage \in {"connecting", "login"})
                     /\ (bev'[c].stage # "free" => bev'[c].host \in Host)
  <2> SUFFICES ASSUME NEW c \in Bev
               PROVE  (bev'[c].pc \in Pc <=> bev'[c].stage \in {"connecting", "login"})
                      /\ (bev'[c].stage # "free" => bev'[c].host \in Host)
    OBVIOUS
  <2>1. CASE c = b
    BY <2>1, LoggedInFacts, ConstantTypes, Zenon
  <2>2. CASE c # b
    BY <2>2, LoggedInFacts, Zenon DEF LifeInv, ReconnectInv, Consistent
  <2> QED BY <2>1, <2>2, Zenon
<1>4. \A c \in Bev : bev'[c].pc = p => overlapped
  <2> SUFFICES ASSUME NEW c \in Bev, bev'[c].pc = p, ~overlapped PROVE FALSE
    BY Zenon DEF LifeInv, ReconnectInv, TypeOK
  <2>1. c # b /\ bev[c].pc = p /\ p \in Pc
    BY LoggedInFacts, ConstantTypes
  <2> QED BY <2>1, Zenon DEF LifeInv, ReconnectInv, Consistent
<1>5. /\ frame' \in FrameType /\ frame'.pc = frame.pc /\ (frame'.pc = NoPc <=> frame' = NoFrame)
  BY <1>1, Zenon DEF LifeInv, ReconnectInv, TypeOK, Consistent, FrameType
<1>6. abandoned' \in BOOLEAN /\ (abandoned => abandoned') /\ threw' \in BOOLEAN
  BY <1>1, Zenon DEF LifeInv, ReconnectInv, TypeOK
<1>7. /\ pending' = pending \ {p} /\ pc' \in [Pc -> PcType] /\ exit' \in BOOLEAN
      /\ \A q \in Pc : IF q \in pending' THEN pc'[q].host = pc[q].host ELSE pc'[q] = NoContents
      /\ asked' \in [Host -> Nat] /\ bev' \in [Bev -> BevType]
  BY LoggedInFacts, Zenon
<1> HIDE DEF p
<1> QED BY <1>1, <1>2, <1>3, <1>4, <1>5, <1>6, <1>7, CallbackStep, Zenon

\* An exception in an authentication callback frees its bufferevent and ends
\* createConnection.
LEMMA AuthenticationThrowsInv ==
  ASSUME LifeInv, NEW b \in Bev, AuthenticationThrows(b)
  PROVE  LifeInv'
<1>1. /\ UNCHANGED <<pc, pending, creating, timers, exit, overlapped, asked>> /\ threw' = TRUE
      /\ bev' = [bev EXCEPT ![b] = Free] /\ Leave(Attempts(frame.pc) \ {b})
  BY Zenon DEF AuthenticationThrows
<1>2. bev \in [Bev -> BevType] /\ pc \in [Pc -> PcType] /\ exit \in BOOLEAN /\ asked \in [Host -> Nat]
  BY Zenon DEF LifeInv, ReconnectInv, TypeOK, BevType, Stage, PcType
<1>3. /\ bev' \in [Bev -> BevType] /\ \A c \in Bev : c # b => bev'[c] = bev[c]
      /\ bev'[b].pc = NoPc /\ bev'[b].stage = "free"
  BY <1>1, <1>2, ConstantTypes, Zenon DEF Free
<1>4. /\ \A c \in Bev : bev'[c].pc = NoPc \/ (bev'[c].pc = bev[c].pc /\ bev'[c].host = bev[c].host)
      /\ \A c \in Bev : (bev'[c].pc \in Pc <=> bev'[c].stage \in {"connecting", "login"})
                        /\ (bev'[c].stage # "free" => bev'[c].host \in Host)
  <2>1. \A c \in Bev : bev'[c].pc = NoPc \/ (bev'[c].pc = bev[c].pc /\ bev'[c].host = bev[c].host)
    BY <1>3, Zenon
  <2>2. ASSUME NEW c \in Bev
        PROVE  (bev'[c].pc \in Pc <=> bev'[c].stage \in {"connecting", "login"})
               /\ (bev'[c].stage # "free" => bev'[c].host \in Host)
    <3>1. CASE c = b
      BY <1>3, <3>1, ConstantTypes, Zenon
    <3>2. CASE c # b
      BY <1>3, <3>2, Zenon DEF LifeInv, ReconnectInv, Consistent
    <3> QED BY <3>1, <3>2, Zenon
  <2> QED BY <2>1, <2>2, Zenon
<1>5. /\ frame' \in FrameType /\ frame'.pc = NoPc /\ frame' = NoFrame
  BY <1>1, ConstantTypes, Zenon DEF Leave, NoFrame
<1>6. /\ abandoned' \in BOOLEAN /\ (abandoned => abandoned')
      /\ (frame # NoFrame /\ Attempts(frame.pc) \ {b} # {} => abandoned')
  BY <1>1, Zenon DEF Leave
<1>7. \A c \in Bev : bev'[c].pc \in Pc /\ bev'[c].pc = frame.pc /\ frame'.pc # frame.pc => abandoned'
  BY <1>3, <1>5, <1>6, ConstantTypes, Zenon DEF Attempts
<1>8. \A q \in Pc : IF q \in pending' THEN pc'[q].host = pc[q].host ELSE pc'[q] = NoContents
  BY <1>1, Zenon DEF LifeInv, ReconnectInv, Consistent
<1> QED BY <1>1, <1>2, <1>3, <1>4, <1>5, <1>6, <1>7, <1>8, CallbackStep, Zenon

\* An exception in another handler leaves attempts and lists as they are.
LEMMA HandlerThrowsInv == ASSUME LifeInv, HandlerThrows PROVE LifeInv'
<1>1. /\ UNCHANGED <<pc, pending, creating, bev, timers, exit, overlapped, asked>> /\ threw' = TRUE
      /\ Leave(Attempts(frame.pc))
  BY Zenon DEF HandlerThrows
<1>2. bev \in [Bev -> BevType] /\ pc \in [Pc -> PcType] /\ exit \in BOOLEAN /\ asked \in [Host -> Nat]
  BY Zenon DEF LifeInv, ReconnectInv, TypeOK, BevType, Stage, PcType
<1>3. \A c \in Bev : (bev[c].pc \in Pc <=> bev[c].stage \in {"connecting", "login"})
                     /\ (bev[c].stage # "free" => bev[c].host \in Host)
  BY Zenon DEF LifeInv, ReconnectInv, Consistent
<1>4. frame' \in FrameType /\ frame'.pc = NoPc /\ frame' = NoFrame
  BY <1>1, ConstantTypes, Zenon DEF Leave, NoFrame
<1>5. /\ abandoned' \in BOOLEAN /\ (abandoned => abandoned')
      /\ (frame # NoFrame /\ Attempts(frame.pc) # {} => abandoned')
  BY <1>1, Zenon DEF Leave
<1>6. \A c \in Bev : bev[c].pc \in Pc /\ bev[c].pc = frame.pc /\ frame'.pc # frame.pc => abandoned'
  BY <1>4, <1>5, Zenon DEF Attempts
<1>7. \A q \in Pc : IF q \in pending THEN pc[q].host = pc[q].host ELSE pc[q] = NoContents
  BY Zenon DEF LifeInv, ReconnectInv, Consistent
<1> QED BY <1>1, <1>2, <1>3, <1>4, <1>5, <1>6, <1>7, CallbackStep, Zenon

-----------------------------------------------------------------------------
(* The theorems.                                                            *)

\* The invariant holds when the client is constructed.
LEMMA LifeInit == ASSUME Init PROVE LifeInv
<1>1. TypeOK
  BY ConstantTypes, Zenon DEF Init, TypeOK, BevType, Stage, PcType, FrameType
<1>2. Consistent
  BY ConstantTypes, Zenon DEF Init, Consistent, Free, NoFrame
<1>3. Attached
  BY ConstantTypes, Zenon DEF Init, Attached, Free
<1> QED BY <1>1, <1>2, <1>3, Zenon DEF LifeInv, ReconnectInv

\* Every step of the client, the timers and the network keeps the invariant.
LEMMA LifeStep == ASSUME LifeInv, [Next]_vars PROVE LifeInv'
<1>1. CASE UNCHANGED vars
  BY <1>1, QuietStep, Zenon DEF vars, lifeVars, LifeInv, ReconnectInv, TypeOK
<1>2. CASE Application
  BY <1>2, CreateConnectionInv, CreateConnectionRefusedInv, CreatePendingConnectionInv,
     DispatchReturnsInv, LoopEndsInv, Zenon
     DEF Application
<1>3. CASE SetTimer
  BY <1>3, SetTimerInv, Zenon
<1>4. CASE Tick
  BY <1>4, TickInv, Zenon
<1>5. CASE ReconnectEventCallback
  BY <1>5, ReconnectEventCallbackInv, Zenon
<1>6. CASE ReconnectThrows
  BY <1>6, ReconnectThrowsInv, Zenon
<1>7. CASE Callbacks
  BY <1>7, AttemptInv, LoggedInInv, AuthenticationThrowsInv, ConnectionLostInv, Zenon
     DEF Callbacks
<1>8. CASE HandlerThrows
  BY <1>8, HandlerThrowsInv, Zenon
<1> QED BY <1>1, <1>2, <1>3, <1>4, <1>5, <1>6, <1>7, <1>8, Zenon DEF Next

\* The list of pending connections, the attempts and createConnection agree about
\* hosts and ownership in every state of the client.
THEOREM ReconnectInvariant == Spec => []LifeInv
<1>1. Init => LifeInv
  BY LifeInit, Zenon
<1>2. LifeInv /\ [Next]_vars => LifeInv'
  BY LifeStep, Zenon
<1> QED BY <1>1, <1>2, PTL DEF Spec

\* No callback of an attempt runs on a freed PendingConnection, unless the timer
\* started a second attempt for it or createConnection was made to give up.
THEOREM AttemptsOwned == Spec => []NoDanglingAttempt
<1>1. LifeInv => NoDanglingAttempt
  BY Zenon DEF LifeInv, ReconnectInv, TypeOK, Attached, NoDanglingAttempt, Held
<1> QED BY <1>1, ReconnectInvariant, PTL

\* As long as a host waits to be reconnected, a timer is set that will look at it,
\* unless an exception has left the event loop, which then runs no timer.
THEOREM RetryAlwaysScheduled == Spec => []RetryScheduled
<1>1. Init => RetryScheduled
  BY Zenon DEF Init, RetryScheduled
<1>2. LifeInv /\ LifeInv' /\ RetryScheduled /\ [Next]_vars => RetryScheduled'
  <2> SUFFICES ASSUME LifeInv, LifeInv', RetryScheduled, [Next]_vars, pending' # {},
                      ~threw', creating' = {}
               PROVE  Timers' # {}
    BY Zenon DEF RetryScheduled
  <2>0. /\ timers \in [0 .. Interval -> Nat] /\ timers' \in [0 .. Interval -> Nat]
        /\ 0 \in 0 .. Interval /\ Interval \in 0 .. Interval /\ Interval # 0 /\ Interval \in Nat
    BY ConstantTypes DEF LifeInv, ReconnectInv, TypeOK
  <2>1. CASE timers' = timers /\ creating' = creating /\ pending' \subseteq pending /\ threw' = threw
    BY <2>1, Zenon DEF RetryScheduled, Timers
  <2>2. ASSUME NEW d \in 0 .. Interval, StartTimer(d) PROVE Timers' # {}
    <3>1. timers'[d] > 0
      BY <2>0, <2>2 DEF StartTimer
    <3> QED BY <3>1, Zenon DEF Timers
  <2>3. CASE Application
    <3>1. creating' = creating /\ timers' = timers /\ pending' = pending /\ threw' = threw
      BY <2>3, Zenon DEF Application, CreateConnection, CreateConnectionRefused,
                  CreatePendingConnection, DispatchReturns, RunReturns, LoopBroken
    <3> QED BY <2>1, <3>1, Zenon
  <2>4. CASE SetTimer
    <3>1. PICK c \in creating : StartTimer(c.due)
      BY <2>4, Zenon DEF SetTimer
    <3>2. c \in [pc : Pc, due : {0, Interval}]
      BY Zenon DEF LifeInv, ReconnectInv, TypeOK
    <3>3. c.due \in 0 .. Interval
      BY <2>0, <3>2, Zenon
    <3> QED BY <2>2, <3>1, <3>3, Zenon
  <2>5. CASE Tick
    <3>1. PICK d \in 0 .. Interval : timers[d] > 0
      BY <2>5, Zenon DEF Tick, RetryScheduled, Timers
    <3>2. CASE d = 0
      <4>1. timers'[0] = timers[1] + timers[0] /\ timers[1] \in Nat
        BY <2>0, <2>5 DEF Tick
      <4>2. timers'[0] > 0
        BY <2>0, <3>1, <3>2, <4>1
      <4> QED BY <2>0, <4>2, Zenon DEF Timers
    <3>3. CASE d # 0
      <4>1. d - 1 \in 0 .. Interval /\ d - 1 # Interval /\ (d - 1) + 1 = d
        BY <2>0, <3>3
      <4>2. timers'[d - 1] = timers[d] + IF d - 1 = 0 THEN timers[0] ELSE 0
        BY <2>5, <4>1, Zenon DEF Tick
      <4>3. timers'[d - 1] > 0
        BY <2>0, <3>1, <4>2
      <4> QED BY <4>1, <4>3, Zenon DEF Timers
    <3> QED BY <3>2, <3>3, Zenon
  <2>6. CASE ReconnectEventCallback
    <3>1. timers' = [timers EXCEPT ![0] = @ - 1, ![Interval] = @ + 1]
      BY <2>6, Zenon DEF ReconnectEventCallback
    <3>2. timers'[Interval] = timers[Interval] + 1
      BY <2>0, <3>1, Zenon
    <3>3. timers'[Interval] > 0
      BY <2>0, <3>2
    <3> QED BY <2>0, <3>3, Zenon DEF Timers
  <2>7. CASE ReconnectThrows \/ HandlerThrows \/ \E b \in Bev : AuthenticationThrows(b)
    BY <2>7, Zenon DEF ReconnectThrows, HandlerThrows, AuthenticationThrows
  <2>8. ASSUME NEW b \in Bev, Connected(b) \/ AttemptFails(b) \/ LoggedIn(b)
        PROVE  Timers' # {}
    <3>1. creating' = creating /\ timers' = timers /\ pending' \subseteq pending /\ threw' = threw
      BY <2>8, Zenon DEF Connected, AttemptFails, LoggedIn, Erase
    <3> QED BY <2>1, <3>1, Zenon
  <2>9. ASSUME NEW b \in Bev, ConnectionLost(b) PROVE Timers' # {}
    BY <2>0, <2>2, <2>9, Zenon DEF ConnectionLost
  <2>10. CASE UNCHANGED vars
    BY <2>1, <2>10, Zenon DEF vars
  <2> QED BY <2>3, <2>4, <2>5, <2>6, <2>7, <2>8, <2>9, <2>10, Zenon DEF Next, Callbacks
<1> QED BY <1>1, <1>2, ReconnectInvariant, PTL DEF Spec

\* The refinement mapping, and what a step does to it.
W == [h \in Host |-> Wanted(h)]
U == [h \in Host |-> Cardinality(UpTo(h))]
Suspect == overlapped \/ abandoned

\* The sets that the mapping counts are finite.
LEMMA CountTypes ==
  ASSUME LifeInv
  PROVE  \A h \in Host : /\ IsFiniteSet(PendingTo(h)) /\ IsFiniteSet(UpTo(h))
                         /\ Cardinality(PendingTo(h)) \in Nat
                         /\ Cardinality(UpTo(h)) \in Nat
<1> TAKE h \in Host
<1>1. PendingTo(h) \subseteq Pc /\ UpTo(h) \subseteq Bev
  BY Zenon DEF PendingTo, UpTo, Up, LifeInv, ReconnectInv, TypeOK
<1>2. IsFiniteSet(PendingTo(h)) /\ IsFiniteSet(UpTo(h))
  BY <1>1, ReconnectAssumption, FS_Subset, Zenon
<1> QED BY <1>2, FS_CardinalityType, Zenon

\* A step that leaves the list and the established connections alone changes
\* nothing that the mapping counts.
LEMMA QuietMap ==
  ASSUME pending' = pending, \A p \in pending : pc'[p].host = pc[p].host,
         \A b \in Bev : /\ bev'[b].stage = "up" <=> bev[b].stage = "up"
                        /\ bev[b].stage = "up" => bev'[b].host = bev[b].host
  PROVE  W' = W /\ U' = U
<1>1. \A h \in Host : PendingTo(h)' = PendingTo(h)
  BY Zenon DEF PendingTo
<1>2. \A h \in Host : UpTo(h)' = UpTo(h)
  BY Zenon DEF UpTo, Up
<1> QED BY <1>1, <1>2, Zenon DEF W, U, Wanted

\* createPendingConnection asks for a connection.
LEMMA PushMap ==
  ASSUME LifeInv, NEW h \in Host, NEW p \in Pc, NEW age, p \notin pending, bev' = bev,
         pending' = pending \cup {p}, pc' = [pc EXCEPT ![p] = [host |-> h, age |-> age]]
  PROVE  W' = [W EXCEPT ![h] = @ + 1] /\ U' = U
<1>1. pc \in [Pc -> [host : Host \cup {NoPc}, age : 0 .. Never]] /\ pending \subseteq Pc
  BY Zenon DEF LifeInv, ReconnectInv, TypeOK
<1>2. \A g \in Host : UpTo(g)' = UpTo(g)
  BY Zenon DEF UpTo, Up
<1>3. \A g \in Host : PendingTo(g)' = IF g = h THEN PendingTo(g) \cup {p} ELSE PendingTo(g)
  BY <1>1, Zenon DEF PendingTo
<1>4. p \notin PendingTo(h) /\ IsFiniteSet(PendingTo(h))
  BY CountTypes, Zenon DEF PendingTo
<1>5. Cardinality(PendingTo(h) \cup {p}) = Cardinality(PendingTo(h)) + 1
  BY <1>4, FS_AddElement, Zenon
<1>6. \A g \in Host : Wanted(g)' = IF g = h THEN Wanted(g) + 1 ELSE Wanted(g)
  BY <1>2, <1>3, <1>5, CountTypes DEF Wanted
<1> QED BY <1>2, <1>6, Zenon DEF W, U

\* A login brings a connection up; its host leaves the list if it was there.
LEMMA LoginMap ==
  ASSUME LifeInv, NEW b \in Bev, LoggedIn(b)
  PROVE  LET h == bev[b].host IN
         /\ h \in Host /\ U' = [U EXCEPT ![h] = @ + 1]
         /\ IF bev[b].pc \in pending THEN W' = W /\ U[h] < W[h]
                                     ELSE W' = [W EXCEPT ![h] = @ + 1]
<1>a. bev[b].host \in Host /\ bev[b].pc \in Pc
      /\ (bev[b].pc \in pending => pc[bev[b].pc].host = bev[b].host)
  BY Zenon DEF LoggedIn, LifeInv, ReconnectInv, Consistent
<1>b. PICK h \in Host, p \in Pc : h = bev[b].host /\ p = bev[b].pc
  BY <1>a
<1>1. h \in Host /\ p \in Pc /\ (p \in pending => pc[p].host = h)
  BY <1>a, <1>b
<1>2. pc \in [Pc -> [host : Host \cup {NoPc}, age : 0 .. Never]] /\ pending \subseteq Pc
      /\ bev \in [Bev -> [stage : {"free", "connecting", "login", "up"}, pc : Pc \cup {NoPc},
                          host : Host \cup {NoPc}]]
  BY Zenon DEF LifeInv, ReconnectInv, TypeOK
<1>3. bev' = [bev EXCEPT ![b] = [stage |-> "up", pc |-> NoPc, host |-> h]]
      /\ bev[b].stage = "login" /\ pending' = pending \ {p}
  BY <1>b DEF LoggedIn, Erase
<1>4. \A g \in Host : UpTo(g)' = IF g = h THEN UpTo(g) \cup {b} ELSE UpTo(g)
  BY <1>b, <1>2, <1>3 DEF UpTo, Up
<1>5. b \notin UpTo(h) /\ IsFiniteSet(UpTo(h))
  BY <1>1, <1>3, CountTypes, Zenon DEF UpTo, Up
<1>6. Cardinality(UpTo(h) \cup {b}) = Cardinality(UpTo(h)) + 1
  BY <1>5, FS_AddElement, Zenon
<1>7. \A q \in pending' : pc'[q].host = pc[q].host
  <2> SUFFICES ASSUME NEW q \in pending' PROVE pc'[q].host = pc[q].host
    OBVIOUS
  <2>1. q \in Pc /\ q # p
    BY <1>2, <1>3, Zenon
  <2> QED BY <1>b, <2>1 DEF LoggedIn, Tail
<1>8. \A g \in Host : PendingTo(g)' = PendingTo(g) \ {p}
  BY <1>3, <1>7, Zenon DEF PendingTo
<1>9. \A g \in Host \ {h} : p \notin PendingTo(g)
  BY <1>1, Zenon DEF PendingTo
<1>10. \A g \in Host : g # h => PendingTo(g)' = PendingTo(g)
  BY <1>8, <1>9, Zenon
<1>11. U' = [U EXCEPT ![h] = @ + 1]
  BY <1>1, <1>4, <1>6, Zenon DEF U
<1>12. CASE p \in pending
  <2>1. p \in PendingTo(h) /\ IsFiniteSet(PendingTo(h))
    BY <1>1, <1>12, CountTypes, Zenon DEF PendingTo
  <2>2. Cardinality(PendingTo(h) \ {p}) = Cardinality(PendingTo(h)) - 1
    BY <2>1, FS_RemoveElement, Zenon
  <2>3. Cardinality(PendingTo(h)) > 0
    <3>1. IsFiniteSet(PendingTo(h) \ {p})
      BY <2>1, FS_RemoveElement, Zenon
    <3>2. Cardinality(PendingTo(h) \ {p}) \in Nat
      BY <3>1, FS_CardinalityType, Zenon
    <3> QED BY <1>1, <2>2, <3>2, CountTypes
  <2>4. \A g \in Host : Wanted(g)' = Wanted(g)
    <3>1. PendingTo(h)' = PendingTo(h) \ {p} /\ UpTo(h)' = UpTo(h) \cup {b}
      BY <1>1, <1>4, <1>8, Zenon
    <3>2. Wanted(h)' = Wanted(h)
      BY <1>1, <1>6, <2>2, <2>3, <3>1, CountTypes DEF Wanted
    <3>3. ASSUME NEW g \in Host, g # h PROVE Wanted(g)' = Wanted(g)
      BY <1>4, <1>10, <3>3, Zenon DEF Wanted
    <3> QED BY <3>2, <3>3, Zenon
  <2>5. U[h] < W[h]
    BY <1>1, <2>3, CountTypes DEF U, W, Wanted
  <2>6. W' = W
    BY <2>4, Zenon DEF W
  <2> QED BY <1>1, <1>b, <1>11, <1>12, <2>5, <2>6
<1>13. CASE p \notin pending
  <2>1. \A g \in Host : PendingTo(g)' = PendingTo(g)
    BY <1>8, <1>13, Zenon DEF PendingTo
  <2>2. \A g \in Host : Wanted(g)' = IF g = h THEN Wanted(g) + 1 ELSE Wanted(g)
    <3>1. PendingTo(h)' = PendingTo(h) /\ UpTo(h)' = UpTo(h) \cup {b}
      BY <1>1, <1>4, <2>1, Zenon
    <3>2. Wanted(h)' = Wanted(h) + 1
      BY <1>1, <1>6, <3>1, CountTypes DEF Wanted
    <3>3. ASSUME NEW g \in Host, g # h PROVE Wanted(g)' = Wanted(g)
      BY <1>4, <2>1, <3>3, Zenon DEF Wanted
    <3> QED BY <3>2, <3>3, Zenon
  <2>3. W' = [W EXCEPT ![h] = @ + 1]
    BY <1>1, <2>2, Zenon DEF W
  <2> QED BY <1>1, <1>b, <1>11, <1>13, <2>3
<1> QED BY <1>b, <1>12, <1>13

\* A loss takes a connection down and puts its host into the list.
LEMMA LossMap ==
  ASSUME LifeInv, NEW b \in Bev, ConnectionLost(b)
  PROVE  LET h == bev[b].host IN
         h \in Host /\ W' = W /\ U[h] > 0 /\ U' = [U EXCEPT ![h] = @ - 1]
<1>a. bev[b].host \in Host
  BY Zenon DEF ConnectionLost, LifeInv, ReconnectInv, Consistent
<1>1. PICK h \in Host : h = bev[b].host
  BY <1>a
<1>2. pc \in [Pc -> [host : Host \cup {NoPc}, age : 0 .. Never]] /\ pending \subseteq Pc
      /\ bev \in [Bev -> [stage : {"free", "connecting", "login", "up"}, pc : Pc \cup {NoPc},
                          host : Host \cup {NoPc}]]
  BY Zenon DEF LifeInv, ReconnectInv, TypeOK
<1>3. PICK p \in Unused : /\ pc' = [pc EXCEPT ![p] = [host |-> h, age |-> 0]]
                          /\ pending' = pending \cup {p}
  BY <1>1, Zenon DEF ConnectionLost
<1>4. p \in Pc /\ p \notin pending
  BY Zenon DEF Unused, Held
<1>5. bev' = [bev EXCEPT ![b] = Free] /\ bev[b].stage = "up"
  BY Zenon DEF ConnectionLost
<1>6. \A g \in Host : UpTo(g)' = IF g = h THEN UpTo(g) \ {b} ELSE UpTo(g)
  BY <1>1, <1>2, <1>5, Zenon DEF UpTo, Up, Free
<1>7. \A g \in Host : PendingTo(g)' = IF g = h THEN PendingTo(g) \cup {p} ELSE PendingTo(g)
  BY <1>2, <1>3, <1>4, Zenon DEF PendingTo
<1>8. Cardinality(PendingTo(h) \cup {p}) = Cardinality(PendingTo(h)) + 1
  <2>1. p \notin PendingTo(h) /\ IsFiniteSet(PendingTo(h))
    BY <1>1, <1>4, CountTypes, Zenon DEF PendingTo
  <2> QED BY <2>1, FS_AddElement, Zenon
<1>9. b \in UpTo(h) /\ IsFiniteSet(UpTo(h))
  BY <1>1, <1>5, CountTypes, Zenon DEF UpTo, Up
<1>10. Cardinality(UpTo(h) \ {b}) = Cardinality(UpTo(h)) - 1 /\ IsFiniteSet(UpTo(h) \ {b})
  BY <1>9, FS_RemoveElement, Zenon
<1>11. Cardinality(UpTo(h)) > 0
  <2>1. Cardinality(UpTo(h) \ {b}) \in Nat
    BY <1>10, FS_CardinalityType, Zenon
  <2> QED BY <1>1, <1>10, <2>1, CountTypes
<1>12. \A g \in Host : Wanted(g)' = Wanted(g)
  <2>1. PendingTo(h)' = PendingTo(h) \cup {p} /\ UpTo(h)' = UpTo(h) \ {b}
    BY <1>1, <1>6, <1>7, Zenon
  <2>2. Wanted(h)' = Wanted(h)
    BY <1>1, <1>8, <1>10, <1>11, <2>1, CountTypes DEF Wanted
  <2>3. ASSUME NEW g \in Host, g # h PROVE Wanted(g)' = Wanted(g)
    BY <1>6, <1>7, <2>3, Zenon DEF Wanted
  <2> QED BY <2>2, <2>3, Zenon
<1>13. U' = [U EXCEPT ![h] = @ - 1]
  BY <1>1, <1>6, <1>10, Zenon DEF U
<1> QED BY <1>1, <1>11, <1>12, <1>13, Zenon DEF W, U

\* What a step may do to the connections that are wanted and up, together with
\* the number that was asked for.
Shape ==
  \/ W' = W /\ U' = U /\ asked' = asked
  \/ \E h \in Host : M!Ask(h) /\ Asked(h)
  \/ \E h \in Host : M!Establish(h) /\ asked' = asked
  \/ \E h \in Host : M!AskAndEstablish(h) /\ (Asked(h) \/ (asked' = asked /\ Suspect))
  \/ \E h \in Host : M!Lose(h) /\ asked' = asked

\* Every step of the client has one of these shapes.
LEMMA StepShape == ASSUME LifeInv, [Next]_vars PROVE Shape
<1>0. pending \subseteq Pc
      /\ bev \in [Bev -> [stage : {"free", "connecting", "login", "up"}, pc : Pc \cup {NoPc},
                          host : Host \cup {NoPc}]]
  BY Zenon DEF LifeInv, ReconnectInv, TypeOK
<1>1. CASE \/ UNCHANGED vars \/ DispatchReturns \/ RunReturns \/ LoopBroken \/ SetTimer
           \/ HandlerThrows
  <2>1. UNCHANGED <<pc, pending, bev, asked>>
    BY <1>1, Zenon
       DEF vars, lifeVars, DispatchReturns, RunReturns, LoopBroken, SetTimer, HandlerThrows
  <2> QED BY <2>1, QuietMap, Zenon DEF Shape
<1>2. CASE Tick
  <2>1. UNCHANGED <<pending, bev, asked>> /\ \A p \in pending : pc'[p].host = pc[p].host
    BY <1>0, <1>2 DEF Tick, lifeVars, LifeInv, ReconnectInv, TypeOK
  <2> QED BY <2>1, QuietMap, Zenon DEF Shape
<1>3. ASSUME NEW ps, NEW host, Initiate(ps, host), UNCHANGED <<pc, pending, asked>> PROVE Shape
  <2>1. \A b \in Bev : bev'[b] = bev[b] \/ (bev[b].stage = "free" /\ bev'[b].stage = "connecting")
    BY <1>3 DEF Initiate, FreeBevs
  <2> QED BY <1>3, <2>1, QuietMap, Zenon DEF Shape
<1>4. ASSUME NEW h \in Host, CreateConnection(h) \/ CreateConnectionRefused(h) PROVE Shape
  BY <1>3, <1>4, Zenon DEF CreateConnection, CreateConnectionRefused
<1>5. ASSUME NEW h \in Host, NEW age, CreatePendingConnection(h, age) PROVE Shape
  <2>1. PICK p \in Unused : /\ pc' = [pc EXCEPT ![p] = [host |-> h, age |-> age]]
                            /\ pending' = pending \cup {p}
    BY <1>5, Zenon DEF CreatePendingConnection
  <2>2. p \in Pc /\ p \notin pending
    BY Zenon DEF Unused, Held
  <2>3. bev' = bev /\ Asked(h)
    BY <1>5, Zenon DEF CreatePendingConnection
  <2>4. W' = [W EXCEPT ![h] = @ + 1] /\ U' = U
    BY <2>1, <2>2, <2>3, PushMap, Zenon
  <2> QED BY <2>3, <2>4, Zenon DEF Shape, M!Ask, W, U
<1>6. CASE ReconnectEventCallback
  <2>1. CASE pending = {}
    <3>1. UNCHANGED <<pc, pending, bev, asked>>
      BY <1>6, <2>1, Zenon DEF ReconnectEventCallback
    <3> QED BY <3>1, QuietMap, Zenon DEF Shape
  <2>2. CASE pending # {}
    BY <1>3, <1>6, <2>2, Zenon DEF ReconnectEventCallback
  <2> QED BY <2>1, <2>2, Zenon
<1>7. CASE ReconnectThrows
  BY <1>3, <1>7, Zenon DEF ReconnectThrows
<1>8. ASSUME NEW b \in Bev, Connected(b) \/ AttemptFails(b) PROVE Shape
  <2>1. UNCHANGED <<pending, asked>> /\ Tail(bev[b].pc)
    BY <1>8, Zenon DEF Connected, AttemptFails, lifeVars
  <2>2. \A p \in pending : pc'[p].host = pc[p].host
    BY <1>0, <2>1 DEF Tail, LifeInv, ReconnectInv, TypeOK
  <2>3. \A c \in Bev : /\ bev'[c].stage = "up" <=> bev[c].stage = "up"
                       /\ bev[c].stage = "up" => bev'[c].host = bev[c].host
    BY <1>0, <1>8 DEF Connected, AttemptFails, Free
  <2> QED BY <2>1, <2>2, <2>3, QuietMap, Zenon DEF Shape
<1>9. ASSUME NEW b \in Bev, AuthenticationThrows(b) PROVE Shape
  <2>1. UNCHANGED <<pc, pending, asked>>
    BY <1>9, Zenon DEF AuthenticationThrows
  <2>2. \A c \in Bev : /\ bev'[c].stage = "up" <=> bev[c].stage = "up"
                       /\ bev[c].stage = "up" => bev'[c].host = bev[c].host
    BY <1>0, <1>9, Zenon DEF AuthenticationThrows, Free
  <2> QED BY <2>1, <2>2, QuietMap, Zenon DEF Shape
<1>10. ASSUME NEW b \in Bev, LoggedIn(b) PROVE Shape
  <2> DEFINE h == bev[b].host
  <2>1. h \in Host /\ U' = [U EXCEPT ![h] = @ + 1]
        /\ IF bev[b].pc \in pending THEN W' = W /\ U[h] < W[h]
                                    ELSE W' = [W EXCEPT ![h] = @ + 1]
    BY <1>10, LoginMap, Zenon
  <2>2. bev[b].pc \in Pc /\ frame.pc \notin pending
    BY <1>10, Zenon DEF LoggedIn, LifeInv, ReconnectInv, Consistent
  <2>3. IF frame.pc = bev[b].pc THEN Asked(h) ELSE asked' = asked
    BY <1>10, Zenon DEF LoggedIn
  <2>4. CASE bev[b].pc \in pending
    <3>1. asked' = asked
      BY <2>2, <2>3, <2>4, Zenon
    <3> QED BY <2>1, <2>4, <3>1, Zenon DEF Shape, M!Establish, W, U
  <2>5. CASE bev[b].pc \notin pending
    <3>1. Asked(h) \/ (asked' = asked /\ Suspect)
      <4>1. CASE frame.pc = bev[b].pc
        BY <2>3, <4>1, Zenon
      <4>2. CASE frame.pc # bev[b].pc
        BY <2>2, <2>3, <2>5, <4>2, Zenon DEF LifeInv, Attached, Suspect
      <4> QED BY <4>1, <4>2, Zenon
    <3> QED BY <2>1, <2>5, <3>1, Zenon DEF Shape, M!AskAndEstablish, W, U
  <2> QED BY <2>4, <2>5, Zenon
<1>11. ASSUME NEW b \in Bev, ConnectionLost(b) PROVE Shape
  <2> DEFINE h == bev[b].host
  <2>1. h \in Host /\ W' = W /\ U[h] > 0 /\ U' = [U EXCEPT ![h] = @ - 1]
    BY <1>11, LossMap, Zenon
  <2>2. asked' = asked
    BY <1>11, Zenon DEF ConnectionLost, lifeVars
  <2> QED BY <2>1, <2>2, Zenon DEF Shape, M!Lose, W, U
<1> QED BY <1>1, <1>2, <1>4, <1>5, <1>6, <1>7, <1>8, <1>9, <1>10, <1>11, Zenon
           DEF Next, Application, Callbacks

\* Once attempts overlapped or were abandoned this is not forgotten.
LEMMA SuspectStays == ASSUME LifeInv, [Next]_vars, Suspect PROVE Suspect'
<1>1. CASE Application
  BY <1>1, Zenon DEF Suspect, Application, CreateConnection, CreateConnectionRefused,
              CreatePendingConnection, DispatchReturns, RunReturns, LoopBroken, Initiate, Leave, lifeVars
<1>2. CASE ReconnectEventCallback
  BY <1>2, Zenon DEF Suspect, ReconnectEventCallback, Initiate
<1>3. CASE ReconnectThrows
  BY <1>3, Zenon DEF Suspect, ReconnectThrows, Initiate, Leave
<1>4. CASE SetTimer \/ Tick \/ UNCHANGED vars
  BY <1>4 DEF Suspect, SetTimer, Tick, vars, lifeVars
<1>5. CASE Callbacks
  <2>1. PICK b \in Bev : \/ Connected(b) \/ AttemptFails(b) \/ LoggedIn(b)
                         \/ AuthenticationThrows(b) \/ ConnectionLost(b)
    BY <1>5, Zenon DEF Callbacks
  <2>2. CASE Connected(b) \/ AttemptFails(b) \/ ConnectionLost(b)
    BY <2>2, Zenon DEF Suspect, Connected, AttemptFails, ConnectionLost, lifeVars
  <2>3. CASE LoggedIn(b)
    BY <2>3, Zenon DEF Suspect, LoggedIn
  <2>4. CASE AuthenticationThrows(b)
    BY <2>4, Zenon DEF Suspect, AuthenticationThrows, Leave
  <2> QED BY <2>1, <2>2, <2>3, <2>4, Zenon
<1>6. CASE HandlerThrows
  BY <1>6, Zenon DEF Suspect, HandlerThrows, Leave
<1> QED BY <1>1, <1>2, <1>3, <1>4, <1>5, <1>6, Zenon DEF Next

\* The initial counts.
LEMMA CountInit == ASSUME Init PROVE \A h \in Host : Wanted(h) = 0 /\ Cardinality(UpTo(h)) = 0
<1>1. \A h \in Host : PendingTo(h) = {} /\ UpTo(h) = {}
  BY Zenon DEF Init, PendingTo, UpTo, Up, Free
<1> QED BY <1>1, FS_EmptySet DEF Wanted

\* Lists, timers and attempts implement the promise that a connection that was
\* asked for is wanted for ever.
THEOREM ReconnectImplementsMembership == Spec => ImplementsMembership
<1>1. Init => M!Init
  BY CountInit, Zenon DEF M!Init
<1>2. LifeInv /\ [Next]_vars => [M!Next]_M!vars
  <2>1. (W' = W /\ U' = U) => UNCHANGED M!vars
    BY Zenon DEF M!vars, W, U
  <2>2. Shape => (W' = W /\ U' = U) \/ M!Next
    BY Zenon DEF Shape, M!Next
  <2> QED BY <2>1, <2>2, StepShape, Zenon
<1> QED BY <1>1, <1>2, ReconnectInvariant, PTL DEF Spec, ImplementsMembership, M!Spec

\* Reconnecting neither loses nor multiplies connections, unless attempts for one
\* PendingConnection overlapped or were abandoned.
THEOREM ReconnectConserves == Spec => []Conserved
<1>1. Init => Conserved
  <2> SUFFICES ASSUME Init PROVE Conserved
    OBVIOUS
  <2>1. \A h \in Host : Wanted(h) = 0
    BY CountInit, Zenon
  <2>2. \A h \in Host : asked[h] = 0
    BY Zenon DEF Init
  <2> QED BY <2>1, <2>2 DEF Conserved
<1>2. ASSUME LifeInv, LifeInv', Conserved, [Next]_vars PROVE Conserved'
  <2>1. asked \in [Host -> Nat] /\ asked' \in [Host -> Nat]
    BY <1>2, Zenon DEF LifeInv, ReconnectInv, TypeOK
  <2>2. \A h \in Host : Wanted(h) \in Nat
    BY <1>2, CountTypes DEF Wanted
  <2>3. Conserved <=> \A h \in Host : W[h] >= asked[h] /\ (W[h] > asked[h] => Suspect)
    BY Zenon DEF Conserved, W, Suspect
  <2>4. Conserved' <=> \A h \in Host : W'[h] >= asked'[h] /\ (W'[h] > asked'[h] => Suspect')
    BY Zenon DEF Conserved, W, Suspect
  <2>5. W \in [Host -> Nat]
    BY <2>2, Zenon DEF W
  <2>6. Suspect => Suspect'
    BY <1>2, SuspectStays, Zenon
  <2>7. \/ W' = W /\ asked' = asked
        \/ \E h \in Host : W' = [W EXCEPT ![h] = @ + 1] /\ asked' = [asked EXCEPT ![h] = @ + 1]
        \/ \E h \in Host : W' = [W EXCEPT ![h] = @ + 1] /\ asked' = asked /\ Suspect
    BY <1>2, StepShape, Zenon DEF Shape, Asked, M!Ask, M!Establish, M!AskAndEstablish, M!Lose, W, U
  <2>8. CASE W' = W /\ asked' = asked
    BY <1>2, <2>3, <2>4, <2>6, <2>8, Zenon
  <2>9. ASSUME NEW h \in Host, W' = [W EXCEPT ![h] = @ + 1], asked' = [asked EXCEPT ![h] = @ + 1]
        PROVE  Conserved'
    BY <1>2, <2>1, <2>3, <2>4, <2>5, <2>6, <2>9
  <2>10. ASSUME NEW h \in Host, W' = [W EXCEPT ![h] = @ + 1], asked' = asked, Suspect
         PROVE  Conserved'
    <3>1. \A g \in Host : W'[g] >= asked'[g]
      BY <1>2, <2>1, <2>3, <2>5, <2>10
    <3> QED BY <2>4, <2>6, <2>10, <3>1, Zenon
  <2> QED BY <2>7, <2>8, <2>9, <2>10, Zenon
<1> QED BY <1>1, <1>2, ReconnectInvariant, PTL DEF Spec

\* The inductive invariant that the run checks.
THEOREM ReconnectConsistent == Spec => []ReconnectInv
<1>1. LifeInv => ReconnectInv
  BY Zenon DEF LifeInv
<1> QED BY <1>1, ReconnectInvariant, PTL
=============================================================================
