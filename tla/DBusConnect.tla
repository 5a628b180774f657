----------------------------- MODULE DBusConnect -----------------------------
(***************************************************************************)
(* DBusConnect and its observing thread (core/connect/dbus_connect.cpp),   *)
(* with the way the application ends it (Application::handleSignals and    *)
(* terminate).  The observing thread loops: prune the watchers of dead     *)
(* instances, dispatch one message of the bus under the guard (handlers    *)
(* nest guarded calls), sleep.  Request threads call methods and create    *)
(* watchers under the same guard.  A SIGINT handler runs on whichever      *)
(* thread the kernel picks, and that thread does nothing else until the    *)
(* handler returns.                                                        *)
(***************************************************************************)
EXTENDS DBusCallGuard, Integers

CONSTANTS BusThread,    \* the observing thread, DBusConnect::thread
          MainThread,   \* the thread that sits in Fastcgipp::Manager::join
          Errnos        \* what errno may hold after a failed dispatch

\* The error numbers of <errno.h>.
EIO == 5
EBADMSG == 74

ASSUME ConnectAssumption ==
    /\ Nesting = {BusThread}
    /\ MainThread \notin Threads \cup {NoThread}
    /\ Errnos \subseteq Nat \ {0}

VARIABLES loop,         \* where process() stands
          alive,        \* the flag process() looks at
          connection,   \* Application::dbusConnection and what it points to
          handlerOn,    \* the thread that runs the SIGINT handler, or NoThread
          failure       \* errno of the latest failed dispatch, 0 when none

connectVars == <<loop, alive, connection, handlerOn, failure>>
vars == <<guardVars, connectVars>>

ConnectTypeOK ==
    /\ GuardTypeOK
    /\ loop \in {"off", "check", "cleanup", "cleaned", "dispatch", "sleep",
                "done"}
    /\ alive \in BOOLEAN
    /\ connection \in {"open", "joining", "closed", "aborted", "exited"}
    /\ handlerOn \in Threads \cup {MainThread, NoThread}
    /\ failure \in Errnos \cup {0}

\* The parts of the shutdown go together at every step: the observing thread is
\* in the guard, or waits for it, only while it dispatches; it is told to stop
\* before anybody waits for it; a closed connection has no thread any more.
ConnectInv ==
    /\ ConnectTypeOK
    /\ depth[BusThread] > 0 \/ pc[BusThread] # "run" => loop = "dispatch"
    /\ connection \in {"joining", "closed"} => ~alive
    /\ connection = "closed" => loop \in {"off", "done"}

Init ==
    /\ GuardInit
    /\ loop = "off"
    /\ alive = FALSE
    /\ connection = "open"
    /\ handlerOn = NoThread
    /\ failure = 0

-----------------------------------------------------------------------------
(* Slips in this code that the runs detect *)

\* terminate() forgets alive.store(false).
AliveKept == alive

\* ~DBusConnect does not wait for the observing thread.
NotJoined == TRUE

-----------------------------------------------------------------------------
Running == connection \in {"open", "joining", "closed"}

\* A thread that the SIGINT handler interrupted does not move.
Free(t) == Running /\ handlerOn # t

\* DBusConnect::run
Run ==
    /\ Free(MainThread) /\ loop = "off" /\ connection = "open"
    /\ alive' = TRUE
    /\ loop' = "check"
    /\ UNCHANGED <<guardVars, connection, handlerOn, failure>>

\* process: while (alive.load()), then cleanupInstacesWatchers, which has
\* watchers to destroy or has none.
LoopCheck ==
    /\ Free(BusThread) /\ loop = "check"
    /\ IF alive THEN loop' \in {"cleanup", "cleaned"} ELSE loop' = "done"
    /\ UNCHANGED <<guardVars, alive, connection, handlerOn, failure>>

\* The matches of dead instances are destroyed; no guard is held.
LoopCleanup ==
    /\ Free(BusThread) /\ loop = "cleanup"
    /\ loop' = "cleaned"
    /\ UNCHANGED <<guardVars, alive, connection, handlerOn, failure>>

\* process: the guard of the dispatch is made.
LoopCleaned ==
    /\ Free(BusThread) /\ loop = "cleaned"
    /\ loop' = "dispatch"
    /\ Construct(BusThread)
    /\ UNCHANGED <<alive, connection, handlerOn, failure>>

\* Inside the guarded dispatch: take the guard, run handlers that call the
\* bus again, end these nested calls.
LoopDispatch ==
    /\ Free(BusThread) /\ loop = "dispatch"
    /\ \/ Capture(BusThread) \/ CallUnsafe(BusThread)
       \/ Sleep(BusThread) \/ Wake(BusThread)
       \/ depth[BusThread] > 0 /\ Construct(BusThread)
       \/ depth[BusThread] > 1 /\ Destroy(BusThread)
    /\ UNCHANGED connectVars

\* The dispatch returned.
LoopDispatched ==
    /\ Free(BusThread) /\ loop = "dispatch" /\ depth[BusThread] = 1
    /\ Destroy(BusThread)
    /\ loop' = "sleep"
    /\ UNCHANGED <<alive, connection, handlerOn, failure>>

\* process: the test of the catch block, as it is written.
IsCorrupt(e) == e = -EIO \/ e = -EBADMSG

\* The dispatch threw an sdbusplus exception: exit() or the next round.
LoopFailed ==
    /\ Free(BusThread) /\ loop = "dispatch" /\ depth[BusThread] = 1
    /\ Destroy(BusThread)
    /\ \E e \in Errnos :
        /\ failure' = e
        /\ connection' = IF IsCorrupt(e) THEN "exited" ELSE connection
    /\ loop' = "check"
    /\ UNCHANGED <<alive, handlerOn>>

LoopSlept ==
    /\ Free(BusThread) /\ loop = "sleep"
    /\ loop' = "check"
    /\ UNCHANGED <<guardVars, alive, connection, handlerOn, failure>>

-----------------------------------------------------------------------------
\* Application::getDBusConnect throws once dbusConnection is reset.
Connected == connection = "open"

\* callMethodAndRead and createWatcher on a request thread: the call starts,
RequestCall(t) ==
    /\ t # BusThread /\ Free(t) /\ Connected
    /\ Construct(t)
    /\ UNCHANGED connectVars

\* and runs to its end.
RequestProgress(t) ==
    /\ t # BusThread /\ Free(t)
    /\ Capture(t) \/ CallUnsafe(t) \/ Sleep(t) \/ Wake(t) \/ Destroy(t)
    /\ UNCHANGED connectVars

-----------------------------------------------------------------------------
\* DBusConnect::terminate: alive.store(false)
AliveAfterTerminate == FALSE

\* Application::handleSignals -> terminate: dbusConnection.reset() empties the
\* pointer, then ~DBusConnect calls terminate.  On the observing thread itself
\* join() throws inside the noexcept terminate() and the process aborts.
HandleSignal(t) ==
    /\ Connected /\ handlerOn = NoThread
    /\ handlerOn' = t
    /\ alive' = AliveAfterTerminate
    /\ connection' = IF t = BusThread THEN "aborted" ELSE "joining"
    /\ UNCHANGED <<guardVars, loop, failure>>

\* thread->join() returns, or there is no thread to join.
Joined == loop \in {"off", "done"}

\* ~DBusConnect: the observing thread is joined, then disconnect() closes.
Disconnect ==
    /\ connection = "joining" /\ Joined
    /\ connection' = "closed"
    /\ handlerOn' = NoThread
    /\ UNCHANGED <<guardVars, loop, alive, failure>>

BusStep == LoopCheck \/ LoopCleanup \/ LoopCleaned \/ LoopDispatch
           \/ LoopDispatched \/ LoopFailed \/ LoopSlept

Next ==
    \/ Run
    \/ BusStep
    \/ \E t \in Threads : RequestCall(t) \/ RequestProgress(t)
    \/ \E t \in Threads \cup {MainThread} : HandleSignal(t)
    \/ Disconnect

\* The operating system runs every thread; nested operations end.  Nobody has
\* to send a signal, and which spinning thread wins the guard is not promised.
Fairness ==
    /\ WF_vars(Run) /\ WF_vars(BusStep) /\ WF_vars(Disconnect)
    /\ SF_vars(LoopFailed \/ LoopDispatched)
    /\ \A d \in Depths : SF_vars(LoopDispatch /\ End(BusThread, d))
    /\ \A t \in Threads : WF_vars(RequestProgress(t))

Spec == Init /\ [][Next]_vars /\ Fairness

-----------------------------------------------------------------------------
\* A captured connection is freed again, exceptions of the guarded operation
\* included - unless the process ends.
BusFreedAgain ==
    \A t \in Threads : capturedByThreadId = t ~> capturedByThreadId = NoThread \/ ~Connected

\* A SIGINT that lands on the main thread, or on a request thread that is not
\* inside a guarded call, ends in a closed connection: neither the dispatch
\* in flight nor requests that keep calling can hold the shutdown up.
ShutdownCompletes ==
    \A t \in Threads \cup {MainThread} :
        (handlerOn = t /\ (t \in Threads => depth[t] = 0 /\ t # BusThread))
            ~> connection = "closed" \/ connection = "exited"

\* Once the connection is closed the observing thread neither holds nor waits
\* for the guard, whatever the moment of the signal: no dispatch runs on a
\* closed bus, and no request thread is left spinning on its behalf.
ObserverGoneWhenClosed ==
    connection = "closed" =>
        /\ capturedByThreadId # BusThread
        /\ depth[BusThread] = 0 /\ pc[BusThread] = "run"
=============================================================================
