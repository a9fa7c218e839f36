------------------------------ MODULE Reconnect ------------------------------
(***************************************************************************)
(* How connections are made, lost and made again (src/src/ClientImpl.cpp): *)
(* createConnection, createPendingConnection, the reconnect timer and the  *)
(* authentication callbacks.                                               *)
(*                                                                         *)
(* A PendingConnection lives as long as the list of pending connections,   *)
(* the frame of createConnection or that of createPendingConnection holds  *)
(* a shared_ptr to it; the bufferevent of an attempt holds a raw pointer   *)
(* only.  An attempt whose PendingConnection is gone still runs its        *)
(* callbacks on the freed memory: they find the old contents, or not.      *)
(*                                                                         *)
(* An exception of a handler leaves through libevent, whose loop can then  *)
(* not be entered again: timers and sockets stay, but no handler runs.     *)
(*                                                                         *)
(* Time is the age of a time stamp and the remaining time of a timer.      *)
(***************************************************************************)
EXTENDS Integers, FiniteSets, FiniteSetsExt

CONSTANTS
  Host,
  Pc,         \* PendingConnection objects
  Bev,        \* bufferevents
  NoPc,
  Interval,   \* RECONNECT_INTERVAL
  MaxTimers,  \* bound: timers scheduled at once
  MaxWanted   \* bound: connections to a host when one more is asked for

ASSUME ReconnectAssumption ==
  /\ Interval \in Nat \ {0} /\ NoPc \notin Pc
  /\ IsFiniteSet(Host) /\ IsFiniteSet(Pc) /\ IsFiniteSet(Bev)

VARIABLES
  pc,          \* host and age of m_startPending of those in the list
  pending,     \* m_pendingConnectionList, with m_pendingConnectionSize
  creating,    \* pushed by createPendingConnection, its timer not yet set
  bev,         \* bufferevents: an attempt, an established connection or free
  timers,      \* how many reconnect timers are due in how many seconds
  frame,       \* createConnection: its PendingConnection and which dispatch
  exit,        \* the running dispatch was told to return
  threw,       \* an exception left the event loop
  overlapped,  \* two attempts for one PendingConnection were under way at once
  abandoned,   \* createConnection gave up while its attempt was under way
  asked        \* connections the application asked for, for each host

lifeVars == <<overlapped, abandoned, asked>>
vars == <<pc, pending, creating, bev, timers, frame, exit, threw, lifeVars>>

Never == Interval + 1      \* older than any interval that is compared
NoContents == [host |-> NoPc, age |-> 0]
Free == [stage |-> "free", pc |-> NoPc, host |-> NoPc]
NoFrame == [pc |-> NoPc, dispatch |-> 0, m_status |-> FALSE]

Held == pending \cup {frame.pc} \cup {c.pc : c \in creating}   \* by a shared_ptr
Attempts(p) == {b \in Bev : bev[b].pc = p}
Unused == {p \in Pc : p \notin Held /\ Attempts(p) = {}}
FreeBevs == {b \in Bev : bev[b].stage = "free"}
Up == {b \in Bev : bev[b].stage = "up"}
PendingTo(h) == {p \in pending : pc[p].host = h}
UpTo(h) == {b \in Up : bev[b].host = h}
Wanted(h) == Cardinality(PendingTo(h)) + Cardinality(UpTo(h))
Timers == {d \in 0 .. Interval : timers[d] > 0}

Init ==
  /\ pc = [p \in Pc |-> NoContents] /\ pending = {} /\ creating = {}
  /\ bev = [b \in Bev |-> Free] /\ timers = [d \in 0 .. Interval |-> 0]
  /\ frame = NoFrame /\ exit = FALSE /\ threw = FALSE
  /\ overlapped = FALSE /\ abandoned = FALSE /\ asked = [h \in Host |-> 0]

Asked(h) == asked' = [asked EXCEPT ![h] = @ + 1]

\* event_base_once
StartTimer(d) == timers' = [timers EXCEPT ![d] = @ + 1]

TimersBelowBound == MapThenSumSet(LAMBDA d : timers[d], 0 .. Interval) < MaxTimers

\* The end of createConnection; its attempt may still be under way.
Leave(attempts) == /\ frame' = NoFrame
                   /\ abandoned' = (abandoned \/ (frame # NoFrame /\ attempts # {}))

\* initiateConnection for every p in ps: a bufferevent with p as its context.
Initiate(ps, host) ==
  \E ctx \in [Bev -> ps \cup {NoPc}] :
    /\ \A b \in Bev : ctx[b] \in ps => b \in FreeBevs
    /\ \A p \in ps : \E b \in Bev : ctx[b] = p
    /\ \A b, c \in Bev : ctx[b] = ctx[c] /\ ctx[b] \in ps => b = c
    /\ bev' = [b \in Bev |->
                 IF ctx[b] \in ps
                 THEN [stage |-> "connecting", pc |-> ctx[b], host |-> host[ctx[b]]]
                 ELSE bev[b]]
    /\ overlapped' = (overlapped \/ \E p \in ps : Attempts(p) # {})

-----------------------------------------------------------------------------
(* The application.                                                         *)

CreateConnection(h) ==
  /\ frame = NoFrame /\ ~threw /\ Wanted(h) < MaxWanted
  /\ \E p \in Unused :
       /\ frame' = [pc |-> p, dispatch |-> 1, m_status |-> TRUE]
       /\ Initiate({p}, [q \in {p} |-> h])
  /\ UNCHANGED <<pc, pending, creating, timers, exit, threw, abandoned, asked>>

\* In a callback, or once an exception left the loop, the dispatch is refused:
\* createConnection throws, and the attempt it has started loses its
\* PendingConnection.
CreateConnectionRefused(h) ==
  /\ Wanted(h) < MaxWanted /\ abandoned' = TRUE
  /\ \E p \in Unused : Initiate({p}, [q \in {p} |-> h])
  /\ UNCHANGED <<pc, pending, creating, timers, frame, exit, threw, asked>>

\* Also from another thread: the list is locked, the timer set afterwards.  The
\* caller passes 0 or a time at which the connection went down.
CreatePendingConnection(h, age) ==
  /\ Wanted(h) < MaxWanted
  /\ \E p \in Unused :
       /\ pc' = [pc EXCEPT ![p] = [host |-> h, age |-> age]]
       /\ pending' = pending \cup {p}
       /\ creating' = creating \cup {[pc |-> p, due |-> IF age = Never THEN 0 ELSE Interval]}
  /\ Asked(h)
  /\ UNCHANGED <<bev, timers, frame, exit, threw, overlapped, abandoned>>

\* Fault: no timer when the list was not empty before.
SetTimer_OnlyFirst ==
  \E c \in creating :
    /\ TimersBelowBound /\ creating' = creating \ {c}
    /\ IF pending = {c.pc} THEN StartTimer(c.due) ELSE UNCHANGED timers
    /\ UNCHANGED <<pc, pending, bev, frame, exit, threw, lifeVars>>

SetTimer ==
  \E c \in creating :
    /\ TimersBelowBound /\ creating' = creating \ {c} /\ StartTimer(c.due)
    /\ UNCHANGED <<pc, pending, bev, frame, exit, threw, lifeVars>>

\* A dispatch of createConnection returns: the second one is run unless the
\* attempt has failed; then the result is known.
DispatchReturns ==
  /\ frame # NoFrame /\ ~threw /\ exit /\ exit' = FALSE
  /\ IF frame.dispatch = 1 /\ frame.m_status
     THEN frame' = [frame EXCEPT !.dispatch = 2] /\ UNCHANGED abandoned
     ELSE Leave(Attempts(frame.pc))
  /\ UNCHANGED <<pc, pending, creating, bev, timers, threw, overlapped, asked>>

\* run, runOnce or drain returns; the application calls it again.
RunReturns == /\ frame = NoFrame /\ ~threw /\ exit /\ exit' = FALSE
              /\ UNCHANGED <<pc, pending, creating, bev, timers, frame, threw, lifeVars>>

\* A response's callback, interrupt or wakeup ends the running loop.
LoopBroken == /\ ~threw /\ ~exit /\ exit' = TRUE
              /\ UNCHANGED <<pc, pending, creating, bev, timers, frame, threw, lifeVars>>

Tick ==
  /\ pc' = [p \in Pc |-> IF p \in pending /\ pc[p].age # Never
                          THEN [pc[p] EXCEPT !.age = @ + 1] ELSE pc[p]]
  /\ timers' = [d \in 0 .. Interval |->
                  IF d = Interval THEN 0
                  ELSE timers[d + 1] + IF d = 0 THEN timers[0] ELSE 0]
  /\ UNCHANGED <<pending, creating, bev, frame, exit, threw, lifeVars>>

-----------------------------------------------------------------------------
(* The reconnect timer.                                                     *)

Hosts == [p \in Pc |-> pc[p].host]
Stale == {p \in pending : pc[p].age > Interval}

\* Fault: a timer that finds nothing stale is not set again.
ReconnectEventCallback_StaleOnly ==
  /\ timers[0] > 0 /\ ~threw
  /\ IF Stale = {}
     THEN timers' = [timers EXCEPT ![0] = @ - 1] /\ UNCHANGED <<pc, bev, overlapped>>
     ELSE /\ timers' = [timers EXCEPT ![0] = @ - 1, ![Interval] = @ + 1]
          /\ pc' = pc /\ Initiate(Stale, Hosts)
  /\ UNCHANGED <<pending, creating, frame, exit, threw, abandoned, asked>>

\* With nothing pending the timer is not set again.
ReconnectEventCallback ==
  /\ timers[0] > 0 /\ ~threw
  /\ IF pending = {}
     THEN timers' = [timers EXCEPT ![0] = @ - 1] /\ UNCHANGED <<pc, bev, overlapped>>
     ELSE /\ timers' = [timers EXCEPT ![0] = @ - 1, ![Interval] = @ + 1]
          /\ pc' = pc /\ Initiate(Stale, Hosts)
  /\ UNCHANGED <<pending, creating, frame, exit, threw, abandoned, asked>>

\* initiateConnection throws for one of them: those before it were started, and
\* the rest of the handler is skipped.
ReconnectThrows ==
  /\ timers[0] > 0 /\ ~threw
  /\ timers' = [timers EXCEPT ![0] = @ - 1] /\ pc' = pc
  /\ \E ps \in SUBSET Stale : ps # Stale /\ Initiate(ps, Hosts)
  /\ threw' = TRUE
  /\ Leave(Attempts(frame.pc))
  /\ UNCHANGED <<pending, creating, exit, asked>>

-----------------------------------------------------------------------------
(* The authentication callbacks of an attempt.                              *)

\* Their last lines: end the dispatch of createConnection, or note the time.
\* A PendingConnection that was freed may hold anything.
Tail(p) ==
  /\ pc' = [q \in Pc |-> IF q \notin pending' THEN NoContents
                         ELSE IF q = p THEN [pc[p] EXCEPT !.age = 0] ELSE pc[q]]
  /\ exit' \in CASE p = frame.pc -> {TRUE}     \* createConnection
                 [] p \in Held' -> {exit}
                 [] OTHER -> {exit, TRUE}

\* Fault: every pending connection to the host is taken for connected.
Erase_ByHost(p) == pending' = {q \in pending : pc[q].host # pc[p].host}

Erase(p) == pending' = pending \ {p}

Connected(b) ==
  /\ ~threw /\ bev[b].stage = "connecting"
  /\ bev' = [bev EXCEPT ![b].stage = "login"]
  /\ UNCHANGED <<pending, creating, timers, frame, threw, lifeVars>>
  /\ Tail(bev[b].pc)

\* Fault: a connection whose attempt fails is given up.
AttemptFails_GivesUp(b) ==
  /\ ~threw /\ bev[b].stage \in {"connecting", "login"}
  /\ bev' = [bev EXCEPT ![b] = Free]
  /\ frame' = IF frame.pc = bev[b].pc THEN [frame EXCEPT !.m_status = FALSE] ELSE frame
  /\ Erase(bev[b].pc) /\ UNCHANGED <<creating, timers, threw, lifeVars>>
  /\ Tail(bev[b].pc)

AttemptFails(b) ==
  /\ ~threw /\ bev[b].stage \in {"connecting", "login"}
  /\ bev' = [bev EXCEPT ![b] = Free]
  /\ frame' = IF frame.pc = bev[b].pc THEN [frame EXCEPT !.m_status = FALSE] ELSE frame
  /\ UNCHANGED <<pending, creating, timers, threw, lifeVars>>
  /\ Tail(bev[b].pc)

\* authenticationReadCallback with a complete response, and
\* finalizeAuthentication: the PendingConnection leaves the list, its last
\* reference unless createConnection holds it.
LoggedIn(b) ==
  /\ ~threw /\ bev[b].stage = "login"
  /\ bev' = [bev EXCEPT ![b] = [stage |-> "up", pc |-> NoPc, host |-> bev[b].host]]
  /\ Erase(bev[b].pc)
  /\ IF frame.pc = bev[b].pc THEN Asked(bev[b].host) ELSE UNCHANGED asked
  /\ UNCHANGED <<creating, timers, frame, threw, overlapped, abandoned>>
  /\ Tail(bev[b].pc)

\* initiateAuthentication cannot send the request, or finalizeAuthentication
\* meets another cluster: the bufferevent is freed and the exception leaves the
\* loop.
AuthenticationThrows(b) ==
  /\ ~threw /\ bev[b].stage \in {"connecting", "login"}
  /\ bev' = [bev EXCEPT ![b] = Free] /\ threw' = TRUE
  /\ Leave(Attempts(frame.pc) \ {b})
  /\ UNCHANGED <<pc, pending, creating, timers, exit, overlapped, asked>>

-----------------------------------------------------------------------------
(* Established connections.                                                 *)

\* Fault: a host that is in the list is not added once more.
ConnectionLost_Once(b) ==
  /\ ~threw /\ bev[b].stage = "up" /\ TimersBelowBound
  /\ \E p \in Unused :
       IF PendingTo(bev[b].host) # {} THEN UNCHANGED <<pc, pending>> ELSE
       /\ pc' = [pc EXCEPT ![p] = [host |-> bev[b].host, age |-> 0]]
       /\ pending' = pending \cup {p}
  /\ StartTimer(Interval)
  /\ bev' = [bev EXCEPT ![b] = Free]
  /\ exit' \in IF Up = {b} THEN {TRUE} ELSE {exit, TRUE}
  /\ UNCHANGED <<creating, frame, threw, lifeVars>>

\* regularEventCallback: the host goes to the pending list; the loop is ended
\* when no connection is left, and at the wish of a callback.
ConnectionLost(b) ==
  /\ ~threw /\ bev[b].stage = "up" /\ TimersBelowBound
  /\ \E p \in Unused :
       /\ pc' = [pc EXCEPT ![p] = [host |-> bev[b].host, age |-> 0]]
       /\ pending' = pending \cup {p}
  /\ StartTimer(Interval)
  /\ bev' = [bev EXCEPT ![b] = Free]
  /\ exit' \in IF Up = {b} THEN {TRUE} ELSE {exit, TRUE}
  /\ UNCHANGED <<creating, frame, threw, lifeVars>>

\* An exception of the listener, or of an invocation at the end of a handler,
\* leaves the loop while the lists are as the handler had them (a bufferevent that
\* finalizeAuthentication frees for it is still in m_bevs).
HandlerThrows ==
  /\ ~threw /\ threw' = TRUE /\ Leave(Attempts(frame.pc))
  /\ UNCHANGED <<pc, pending, creating, bev, timers, exit, overlapped, asked>>

Application == \/ \E h \in Host : CreateConnection(h) \/ CreateConnectionRefused(h)
               \/ \E h \in Host, age \in {0, Never} : CreatePendingConnection(h, age)
               \/ DispatchReturns \/ RunReturns \/ LoopBroken
Callbacks == \E b \in Bev : \/ Connected(b) \/ AttemptFails(b) \/ LoggedIn(b)
                            \/ AuthenticationThrows(b) \/ ConnectionLost(b)

Next == Application \/ SetTimer \/ Tick \/ ReconnectEventCallback \/ ReconnectThrows
        \/ Callbacks \/ HandlerThrows

Spec == Init /\ [][Next]_vars

\* Timers are run by the event loop as long as it can be entered, time passes,
\* and a thread in createPendingConnection goes on to set its timer.
FairSpec == Spec /\ WF_vars(SetTimer) /\ WF_vars(Tick) /\ WF_vars(ReconnectEventCallback)
            /\ \A b \in Bev : WF_vars(Connected(b) \/ AttemptFails(b) \/ LoggedIn(b))

-----------------------------------------------------------------------------
TypeOK ==
  /\ pending \subseteq Pc /\ frame \in [pc : Pc \cup {NoPc}, dispatch : 0 .. 2, m_status : BOOLEAN]
  /\ pc \in [Pc -> [host : Host \cup {NoPc}, age : 0 .. Never]]
  /\ creating \subseteq [pc : Pc, due : {0, Interval}]
  /\ bev \in [Bev -> [stage : {"free", "connecting", "login", "up"}, pc : Pc \cup {NoPc},
                      host : Host \cup {NoPc}]]
  /\ timers \in [0 .. Interval -> Nat]
  /\ exit \in BOOLEAN /\ threw \in BOOLEAN /\ overlapped \in BOOLEAN /\ abandoned \in BOOLEAN
  /\ asked \in [Host -> Nat]

\* What the list, the attempts and the ghosts have to do with each other: an
\* attempt is for the host of its PendingConnection, and has it to itself unless
\* attempts overlapped.
Consistent ==
  /\ \A p \in Pc : IF p \in pending THEN pc[p].host \in Host ELSE pc[p] = NoContents
  /\ \A b \in Bev : /\ bev[b].pc \in Pc <=> bev[b].stage \in {"connecting", "login"}
                    /\ bev[b].stage # "free" => bev[b].host \in Host
                    /\ bev[b].pc \in pending => bev[b].host = pc[bev[b].pc].host
  /\ frame.pc \notin pending /\ (frame.pc = NoPc <=> frame = NoFrame)
  /\ ~overlapped => \A b, c \in Bev : bev[b].pc = bev[c].pc /\ bev[b].pc \in Pc => b = c

\* The inductive invariant.
ReconnectInv == TypeOK /\ Consistent

\* A host in the pending list is never forgotten: a timer is set or is about to
\* be, unless an exception has ended the loop that would run it.
RetryScheduled == pending # {} => Timers # {} \/ creating # {} \/ threw

\* An attempt outlives the PendingConnection its callbacks use only if a second
\* attempt was started for it before the first had ended, or createConnection
\* gave up because something else ended its loop.
NoDanglingAttempt ==
  \A b \in Bev : bev[b].pc # NoPc /\ bev[b].pc \notin Held => overlapped \/ abandoned

\* Connections are neither lost track of nor multiplied by reconnecting: a host
\* has as many, up or pending, as were asked for, and more only after attempts
\* for the same connection overlapped or were abandoned.
Conserved ==
  \A h \in Host : /\ Wanted(h) >= asked[h]
                  /\ Wanted(h) > asked[h] => overlapped \/ abandoned

\* The model has no bufferevent left for the attempts that are due.
BevsExhausted == Cardinality(FreeBevs) < Cardinality(Stale)

\* A pending connection is tried again and again until it is up, as long as no
\* exception ends the loop.
RetriedUntilUp ==
  \A p \in Pc :
    p \in pending ~> (p \notin pending \/ Attempts(p) # {} \/ threw \/ BevsExhausted)

M == INSTANCE Membership WITH
       wanted <- [h \in Host |-> Wanted(h)],
       up <- [h \in Host |-> Cardinality(UpTo(h))]

\* Lists, timers and attempts implement the promise that a connection once asked
\* for is wanted for ever.
ImplementsMembership == M!Spec
=============================================================================
