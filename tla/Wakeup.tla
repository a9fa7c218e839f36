------------------------------- MODULE Wakeup -------------------------------
(***************************************************************************)
(* How threads stop the event loop (src/src/ClientImpl.cpp): wakeup writes *)
(* a byte into a pipe that the loop reads, interrupt queues an event.  The *)
(* thread that runs the loop may call both as well, between two runs or    *)
(* from a callback; the loop waits for it then.                            *)
(***************************************************************************)
EXTENDS Integers, Threads

CONSTANTS
  Owner,      \* the thread that runs the loop
  Capacity,   \* bytes the pipe holds
  BufSize,    \* bytes wakeupPipeCallback reads at once
  MaxCalls    \* bound: calls of wakeup and interrupt

ASSUME WakeupAssumption ==
  /\ Owner \in Thread
  /\ Capacity \in Nat \ {0} /\ BufSize \in Nat \ {0} /\ MaxCalls \in Nat

VARIABLES
  piped,              \* pipe() succeeded in the constructor
  m_wakeupPipeLock,
  call,               \* what a thread in wakeup does next
  pipe,               \* bytes in m_wakeupPipe
  once,               \* events queued by interrupt
  loop,               \* the loop runs in run, in runOnce, or not at all
  event_break,        \* of the event base
  calls,
  asked,              \* a wakeup was called in this run of the loop
  written, stops      \* bytes ever written, runs that the pipe stopped

flow == <<calls, asked, written, stops>>
wakeupVars == <<piped, m_wakeupPipeLock, call, pipe, once, loop, event_break, flow>>

WakeupInit ==
  /\ piped \in BOOLEAN /\ m_wakeupPipeLock = NoThread
  /\ call = [t \in Thread |-> "idle"] /\ pipe = 0 /\ once = 0
  /\ loop = "out" /\ event_break = FALSE
  /\ calls = 0 /\ asked = "no" /\ written = 0 /\ stops = 0

-----------------------------------------------------------------------------
(* wakeup and interrupt.                                                    *)

Calls(t) == call[t] = "idle" /\ calls < MaxCalls /\ calls' = calls + 1

\* A late call finds the lock held by a thread that has already written.
Asked ==
  asked' = CASE loop = "out" \/ asked = "yes" -> asked
             [] m_wakeupPipeLock # NoThread /\ call[m_wakeupPipeLock] = "unlock" -> "late"
             [] OTHER -> "yes"

\* Fault: the lock is kept.
Unlock_Not(t) ==
  /\ call[t] = "unlock"
  /\ call' = [call EXCEPT ![t] = "idle"]
  /\ UNCHANGED <<piped, m_wakeupPipeLock, pipe, once, loop, event_break, flow>>

\* Whoever does not get the lock leaves the byte to the thread that has it.
TryLock(t) ==
  /\ Calls(t) /\ piped /\ Asked
  /\ IF m_wakeupPipeLock = NoThread
     THEN m_wakeupPipeLock' = t /\ call' = [call EXCEPT ![t] = "write"]
     ELSE UNCHANGED <<m_wakeupPipeLock, call>>
  /\ UNCHANGED <<piped, pipe, once, loop, event_break, written, stops>>

\* The pipe is blocking.
Write(t) ==
  /\ call[t] = "write" /\ pipe < Capacity
  /\ call' = [call EXCEPT ![t] = "unlock"] /\ pipe' = pipe + 1 /\ written' = written + 1
  /\ UNCHANGED <<piped, m_wakeupPipeLock, once, loop, event_break, calls, asked, stops>>

Unlock(t) ==
  /\ call[t] = "unlock"
  /\ call' = [call EXCEPT ![t] = "idle"] /\ m_wakeupPipeLock' = NoThread
  /\ UNCHANGED <<piped, pipe, once, loop, event_break, flow>>

\* Without a pipe; the event base is thread-safe.
LoopBreak(t) ==
  /\ Calls(t) /\ ~piped /\ Asked /\ event_break' = TRUE
  /\ UNCHANGED <<piped, m_wakeupPipeLock, call, pipe, once, loop, written, stops>>

Interrupt(t) ==
  /\ Calls(t) /\ once' = once + 1
  /\ UNCHANGED <<piped, m_wakeupPipeLock, call, pipe, loop, event_break, asked, written, stops>>

-----------------------------------------------------------------------------
(* The thread that runs the loop.                                           *)

\* run and runOnce.  libevent forgets a break that came before.
Run(how) ==
  /\ loop = "out" /\ call[Owner] = "idle"
  /\ loop' = how /\ event_break' = FALSE
  /\ UNCHANGED <<piped, m_wakeupPipeLock, call, pipe, once, flow>>

Looping == loop # "out" /\ call[Owner] = "idle" /\ ~event_break

\* Fault: the bytes stay in the pipe.
WakeupPipeCallback_NoRead ==
  /\ Looping /\ pipe > 0
  /\ event_break' = TRUE /\ stops' = stops + 1
  /\ UNCHANGED <<piped, m_wakeupPipeLock, call, pipe, once, loop, calls, asked, written>>

\* Fault: the event is not persistent.
WakeupPipeCallback_Once ==
  /\ Looping /\ pipe > 0 /\ stops = 0
  /\ pipe' = IF pipe > BufSize THEN pipe - BufSize ELSE 0
  /\ event_break' = TRUE /\ stops' = stops + 1
  /\ UNCHANGED <<piped, m_wakeupPipeLock, call, once, loop, calls, asked, written>>

WakeupPipeCallback ==
  /\ Looping /\ pipe > 0
  /\ pipe' = IF pipe > BufSize THEN pipe - BufSize ELSE 0
  /\ event_break' = TRUE /\ stops' = stops + 1
  /\ UNCHANGED <<piped, m_wakeupPipeLock, call, once, loop, calls, asked, written>>

\* Fault: the event only makes the loop go round.
InterruptCallback_NoBreak ==
  /\ Looping /\ once > 0
  /\ once' = once - 1 /\ event_break' = FALSE
  /\ UNCHANGED <<piped, m_wakeupPipeLock, call, pipe, loop, flow>>

\* The events that are left stop the next run.
InterruptCallback ==
  /\ Looping /\ once > 0
  /\ once' = once - 1 /\ event_break' = TRUE
  /\ UNCHANGED <<piped, m_wakeupPipeLock, call, pipe, loop, flow>>

\* The callback of a response wants the loop to end.
ResponseBreaks ==
  /\ Looping /\ event_break' = TRUE
  /\ UNCHANGED <<piped, m_wakeupPipeLock, call, pipe, once, loop, flow>>

\* runOnce also returns when nothing is ready.
RunReturns ==
  /\ loop # "out" /\ call[Owner] = "idle"
  /\ event_break \/ (loop = "runOnce" /\ pipe = 0 /\ once = 0)
  /\ loop' = "out" /\ asked' = "no"
  /\ UNCHANGED <<piped, m_wakeupPipeLock, call, pipe, once, event_break, calls, written, stops>>

WakeupNext ==
  \/ \E t \in Thread : TryLock(t) \/ Write(t) \/ Unlock(t) \/ LoopBreak(t) \/ Interrupt(t)
  \/ \E how \in {"run", "runOnce"} : Run(how)
  \/ WakeupPipeCallback \/ InterruptCallback \/ ResponseBreaks \/ RunReturns

WakeupSpec == WakeupInit /\ [][WakeupNext]_wakeupVars

\* Threads in wakeup are scheduled, and a running loop serves its events, each in
\* its turn: an event that a break left waiting heads the queue of the next run.
FairWakeupSpec ==
  /\ WakeupSpec /\ WF_wakeupVars(RunReturns)
  /\ SF_wakeupVars(WakeupPipeCallback) /\ SF_wakeupVars(InterruptCallback)
  /\ \A t \in Thread : WF_wakeupVars(Write(t)) /\ WF_wakeupVars(Unlock(t))

-----------------------------------------------------------------------------
\* A wakeup stops at most one run of the loop: the pipe never stops it more often
\* than bytes were written, and those still in it are for runs to come.
StopsPaidFor == stops + pipe <= written

\* The lock is held by the one thread that is in wakeup.
WakeupTypes ==
  /\ piped \in BOOLEAN /\ event_break \in BOOLEAN /\ loop \in {"out", "run", "runOnce"}
  /\ call \in [Thread -> {"idle", "write", "unlock"}]
  /\ m_wakeupPipeLock \in Thread \cup {NoThread}
  /\ \A t \in Thread : call[t] # "idle" <=> m_wakeupPipeLock = t
  /\ asked \in {"no", "late", "yes"}
  /\ pipe \in 0 .. Capacity /\ once \in Nat /\ written \in Nat /\ stops \in Nat

\* A wakeup of a run is not forgotten: until the run ends, the loop is told to
\* stop, or a byte waits for it, or a thread is about to write one.
WakeUnderWay ==
  asked = "yes" =>
    /\ loop # "out"
    /\ event_break \/ pipe > 0 \/ \E t \in Thread : call[t] = "write"

\* The thread that should empty the pipe waits for room in it.
OwnerBlocked == call[Owner] = "write" /\ pipe = Capacity

\* A wakeup during a run of the loop ends that run, also when it leaves the byte
\* to another thread.
WakeupStops == asked = "yes" ~> (asked # "yes" \/ OwnerBlocked)

\* An interrupt ends a run of the loop, the present one or the next.
InterruptStops == (once > 0 /\ loop # "out") ~> (loop = "out" \/ OwnerBlocked)

\* A call of wakeup returns as long as the loop is run from time to time.
WritersReturn ==
  \A t \in Thread :
    []<>(loop # "out") => (call[t] = "write" ~> (call[t] # "write" \/ OwnerBlocked))

\* Every wakeup during a run of the loop ends that run.
EveryWakeupStops == asked # "no" ~> (asked = "no" \/ OwnerBlocked)

\* A run that the pipe stops was woken while it ran: wakeup "has no effect if the
\* loop isn,t running".
IdleWakeupHasNoEffect == [][WakeupPipeCallback => asked # "no"]_wakeupVars
=============================================================================
