-------------------------- MODULE DBusConnectProofs --------------------------
(***************************************************************************)
(* For every number of threads and every nesting depth, DBusCallGuard      *)
(* keeps two threads off the sd_bus connection and is a re-entrant lock.   *)
(* GuardInv is the inductive invariant: mutual exclusion alone is not      *)
(* inductive, since a destructor could free an id that operations of its   *)
(* thread still rely on.                                                   *)
(*                                                                         *)
(* On top of it the shutdown of DBusConnect, for any number of request     *)
(* threads, any nesting of handlers and any error numbers.  GuardInv and   *)
(* ConnectInv, which ties the loop of process() to it, are inductive       *)
(* together: that the observing thread has left the guard when its loop is *)
(* done follows from where the loop stands, and that nobody else is        *)
(* recorded in its place from the guard.                                   *)
(***************************************************************************)
EXTENDS DBusConnect, TLAPS

----------------------------------------------------------------------------
\* The guard.

\* The initial state, with nobody on the bus, satisfies the invariant.
LEMMA GuardInvInit == GuardInit => GuardInv
  BY GuardAssumption
  DEF GuardInit, GuardInv, GuardTypeOK, OutermostReleases, PendingIsFresh,
      Depths

\* Every step of every thread keeps it.
LEMMA GuardInvNext == GuardInv /\ [GuardNext]_guardVars => GuardInv'
<1> SUFFICES ASSUME GuardInv, [GuardNext]_guardVars PROVE GuardInv'
  OBVIOUS
<1> USE GuardAssumption DEF GuardInv, GuardTypeOK, Depths
<1>1. ASSUME NEW t \in Threads, Construct(t) PROVE GuardInv'
  BY <1>1 DEF Construct, OutermostReleases, PendingIsFresh
<1>2. ASSUME NEW t \in Threads, Capture(t) PROVE GuardInv'
  <2>1. depth[t] = 0 /\ \A u \in Threads : depth[u] = 0
    BY <1>2 DEF Capture, MayCapture, OutermostReleases
  <2>2. GuardTypeOK'
    BY <1>2, <2>1 DEF Capture, MayCapture
  <2>3. OutermostReleases'
    BY <1>2, <2>1 DEF Capture, MayCapture, OutermostReleases, PendingIsFresh
  <2>4. PendingIsFresh'
    BY <1>2 DEF Capture, MayCapture, PendingIsFresh
  <2> QED BY <2>2, <2>3, <2>4
<1>3. ASSUME NEW t \in Threads, CallUnsafe(t) PROVE GuardInv'
  <2>1. depth[t] < MaxDepth /\ depth[t] > 0
    BY <1>3 DEF CallUnsafe, OutermostReleases, PendingIsFresh
  <2>2. GuardTypeOK'
    BY <1>3, <2>1 DEF CallUnsafe
  <2>3. OutermostReleases'
    BY <1>3, <2>1 DEF CallUnsafe, OutermostReleases
  <2>4. PendingIsFresh'
    BY <1>3, <2>1 DEF CallUnsafe, PendingIsFresh
  <2> QED BY <2>2, <2>3, <2>4
<1>4. ASSUME NEW t \in Threads, Sleep(t) \/ Wake(t) PROVE GuardInv'
  BY <1>4 DEF Sleep, Wake, OutermostReleases, PendingIsFresh
<1>5. ASSUME NEW t \in Threads, Destroy(t) PROVE GuardInv'
  <2>1. capturedByThreadId = t /\ (Releases(t) <=> depth[t] = 1)
    BY <1>5 DEF Destroy, Releases, OutermostReleases
  <2>2. GuardTypeOK'
    BY <1>5 DEF Destroy
  <2>3. OutermostReleases'
    BY <1>5, <2>1 DEF Destroy, OutermostReleases
  <2>4. PendingIsFresh'
    BY <1>5 DEF Destroy, PendingIsFresh
  <2> QED BY <2>2, <2>3, <2>4
<1>6. CASE UNCHANGED guardVars
  BY <1>6 DEF guardVars, OutermostReleases, PendingIsFresh
<1> QED
  BY <1>1, <1>2, <1>3, <1>4, <1>5, <1>6 DEF GuardNext, GuardStep

\* The guard's state is well-typed, the captor is the thread inside, and only
\* the outermost guard object releases: the inductive invariant.
THEOREM GuardInvariant == GuardSpec => []GuardInv
  BY GuardInvInit, GuardInvNext, PTL DEF GuardSpec

\* No two threads ever run guarded operations on the sd_bus connection, the
\* promise of the comment on DBusCallGuard.
THEOREM BusExclusion == GuardSpec => []OneThreadOnBus
<1>1. GuardInv => OneThreadOnBus
  BY GuardAssumption
  DEF GuardInv, GuardTypeOK, OutermostReleases, OneThreadOnBus
<1> QED
  BY <1>1, GuardInvariant, PTL

\* Of nested guard objects only the outermost one frees the connection, and a
\* captured id always has an operation behind it.
THEOREM OutermostRelease == GuardSpec => []OutermostReleases
<1>1. GuardInv => OutermostReleases
  BY DEF GuardInv
<1> QED
  BY <1>1, GuardInvariant, PTL

\* The guard implements the abstract re-entrant lock: every step of it is an
\* acquisition, a re-entry or a release by one thread, or invisible.
THEOREM GuardImplementsLock == GuardSpec => ImplementsLock
<1> USE GuardAssumption
<1>1. GuardInit => Lock!LockInit
  BY DEF GuardInit, Lock!LockInit
<1>2. GuardInv /\ [GuardNext]_guardVars => [Lock!LockNext]_(Lock!lockVars)
  <2> SUFFICES ASSUME GuardInv, [GuardNext]_guardVars
               PROVE  [Lock!LockNext]_(Lock!lockVars)
    OBVIOUS
  <2> USE DEF GuardInv, GuardTypeOK, Depths
  <2>1. ASSUME NEW t \in Threads, Construct(t)
        PROVE  UNCHANGED Lock!lockVars
    BY <2>1 DEF Construct, Lock!lockVars
  <2>2. ASSUME NEW t \in Threads, Capture(t) PROVE Lock!Acquire(t)
    BY <2>2 DEF Capture, MayCapture, OutermostReleases, Lock!Acquire
  <2>3. ASSUME NEW t \in Threads, CallUnsafe(t) PROVE Lock!Reenter(t)
    BY <2>3 DEF CallUnsafe, OutermostReleases, Lock!Reenter
  <2>4. ASSUME NEW t \in Threads, Sleep(t) \/ Wake(t)
        PROVE  UNCHANGED Lock!lockVars
    BY <2>4 DEF Sleep, Wake, Lock!lockVars
  <2>5. ASSUME NEW t \in Threads, Destroy(t) PROVE Lock!Release(t)
    <3>1. capturedByThreadId = t /\ (Releases(t) <=> depth[t] = 1)
      BY <2>5 DEF Destroy, Releases, OutermostReleases
    <3> QED
      BY <2>5, <3>1 DEF Destroy, Lock!Release
  <2>6. CASE UNCHANGED guardVars
    BY <2>6 DEF guardVars, Lock!lockVars
  <2> QED
    BY <2>1, <2>2, <2>3, <2>4, <2>5, <2>6
    DEF GuardNext, GuardStep, Lock!LockNext
<1> QED
  BY <1>1, <1>2, GuardInvariant, PTL
  DEF GuardSpec, ImplementsLock, Lock!LockSpec

----------------------------------------------------------------------------
\* The connection.

\* The observing thread uses the guard like every other thread.
LEMMA BusThreadKnown == BusThread \in Threads /\ BusThread # NoThread
  BY GuardAssumption, ConnectAssumption

\* What any action of the connection does to the guard is a step of the guard.
LEMMA NextIsGuardStep == [Next]_vars => [GuardNext]_guardVars
<1> SUFFICES ASSUME [Next]_vars PROVE [GuardNext]_guardVars
  OBVIOUS
<1> USE BusThreadKnown
<1>1. CASE BusStep
  BY <1>1 DEF BusStep, LoopCheck, LoopCleanup, LoopCleaned, LoopDispatch,
              LoopDispatched, LoopFailed, LoopSlept, GuardNext, GuardStep
<1>2. ASSUME NEW t \in Threads, RequestCall(t) \/ RequestProgress(t)
      PROVE  [GuardNext]_guardVars
  BY <1>2 DEF RequestCall, RequestProgress, GuardNext, GuardStep
<1>3. CASE Run \/ Disconnect \/ \E t \in Threads \cup {MainThread} : HandleSignal(t)
  BY <1>3 DEF Run, Disconnect, HandleSignal
<1>4. CASE UNCHANGED vars
  BY <1>4 DEF vars
<1> QED
  BY <1>1, <1>2, <1>3, <1>4 DEF Next

\* A request thread's step in the guard leaves the observing thread's place in
\* it alone.
LEMMA OthersLeaveBusThread ==
  ASSUME GuardInv, NEW t \in Threads, t # BusThread, GuardStep(t)
  PROVE  UNCHANGED <<depth[BusThread], pc[BusThread]>>
  BY BusThreadKnown
  DEF GuardInv, GuardTypeOK, GuardStep, Construct, Capture, CallUnsafe, Sleep,
      Wake, Destroy

\* Before run() nobody is in the guard and nothing is being shut down.
LEMMA ConnectInvInit == Init => GuardInv /\ ConnectInv
<1> SUFFICES ASSUME Init PROVE GuardInv /\ ConnectInv
  OBVIOUS
<1>1. GuardInv
  BY GuardInvInit DEF Init
<1>2. ~(depth[BusThread] > 0) /\ pc[BusThread] = "run"
  BY BusThreadKnown DEF Init, GuardInit
<1>3. ConnectTypeOK
  BY <1>1 DEF Init, GuardInv, ConnectTypeOK
<1>4. ConnectInv
  BY <1>2, <1>3 DEF Init, ConnectInv
<1> QED BY <1>1, <1>4

\* Every step of the observing thread, a request or the SIGINT handler keeps
\* the invariant.
LEMMA ConnectInvNext ==
  ASSUME GuardInv, ConnectInv, [Next]_vars
  PROVE  GuardInv' /\ ConnectInv'
<1>1. GuardInv'
  BY NextIsGuardStep, GuardInvNext
<1> USE BusThreadKnown DEF GuardInv, ConnectInv, ConnectTypeOK
<1>2. CASE Run
  BY <1>1, <1>2 DEF Run, Free, guardVars
<1>3. CASE LoopCheck \/ LoopCleanup \/ LoopSlept
  BY <1>1, <1>3 DEF LoopCheck, LoopCleanup, LoopSlept, guardVars
<1>4. CASE LoopCleaned
  BY <1>1, <1>4 DEF LoopCleaned, Construct
<1>5. CASE LoopDispatch
  BY <1>1, <1>5 DEF LoopDispatch, connectVars
<1>6. CASE LoopDispatched \/ LoopFailed
  <2>1. depth'[BusThread] = 0 /\ pc'[BusThread] = "run"
    BY <1>6 DEF LoopDispatched, LoopFailed, Destroy, GuardTypeOK
  <2>2. alive' = alive /\ handlerOn' = handlerOn /\ loop = "dispatch"
        /\ loop' \in {"sleep", "check"}
    BY <1>6 DEF LoopDispatched, LoopFailed
  <2>3. connection' \in {connection, "exited"} /\ failure' \in Errnos \cup {0}
    BY <1>6 DEF LoopDispatched, LoopFailed
  <2> QED BY <1>1, <2>1, <2>2, <2>3
<1>7. ASSUME NEW t \in Threads, RequestCall(t) \/ RequestProgress(t)
      PROVE  ConnectInv'
  <2>1. GuardStep(t) /\ t # BusThread /\ UNCHANGED connectVars
    BY <1>7 DEF RequestCall, RequestProgress, GuardStep
  <2>2. UNCHANGED <<depth[BusThread], pc[BusThread]>>
    BY <2>1, OthersLeaveBusThread
  <2> QED BY <1>1, <2>1, <2>2 DEF connectVars
<1>8. ASSUME NEW t \in Threads \cup {MainThread}, HandleSignal(t)
      PROVE  ConnectInv'
  BY <1>1, <1>8 DEF HandleSignal, Connected, AliveAfterTerminate, guardVars
<1>9. CASE Disconnect
  BY <1>1, <1>9 DEF Disconnect, Joined, guardVars
<1>10. CASE UNCHANGED vars
  BY <1>1, <1>10 DEF vars, connectVars, guardVars
<1> QED
  BY <1>1, <1>2, <1>3, <1>4, <1>5, <1>6, <1>7, <1>8, <1>9, <1>10
  DEF Next, BusStep

\* The parts of the shutdown go together at every step of every behaviour.
THEOREM ConnectInvariant == Spec => [](GuardInv /\ ConnectInv)
<1>1. GuardInv /\ ConnectInv /\ [Next]_vars => (GuardInv /\ ConnectInv)'
  BY ConnectInvNext
<1> QED BY <1>1, ConnectInvInit, PTL DEF Spec

\* Once the connection is closed the observing thread neither holds the guard
\* nor waits for it: no dispatch runs on a closed bus.
THEOREM ObserverGone == Spec => []ObserverGoneWhenClosed
<1>1. GuardInv /\ ConnectInv => ObserverGoneWhenClosed
  BY BusThreadKnown
  DEF GuardInv, GuardTypeOK, OutermostReleases, ConnectInv,
      ObserverGoneWhenClosed
<1> QED BY <1>1, ConnectInvariant, PTL

\* The connection with its loop, requests and signals uses the guard so that
\* no two threads are inside it: what BusExclusion proves of the guard alone
\* holds of the system that contains it.
THEOREM ConnectUsesGuard == Spec => GuardSpec
<1>1. Init => GuardInit
  BY DEF Init
<1> QED BY <1>1, NextIsGuardStep, PTL DEF Spec, GuardSpec
=============================================================================
