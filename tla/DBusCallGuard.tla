---------------------------- MODULE DBusCallGuard ----------------------------
(***************************************************************************)
(* DBusConnect::DBusCallGuard (core/connect/dbus_connect.hpp): the guard   *)
(* every call on the shared sd_bus connection goes through.  A call site   *)
(* makes a guard object, runs operator() and leaves the scope; operator()  *)
(* takes capturedByThreadId with a compare-and-swap, and when the swap     *)
(* fails because the calling thread is the captor it runs the operation    *)
(* unsafe, marking the object so that its destructor releases nothing.     *)
(*                                                                         *)
(* The compare-and-swap stores the value it saw in vocationThreadId, and   *)
(* isSameThread looks at that value only: swap and test are one step here. *)
(* An operation that throws leaves the scope the way a returning one does: *)
(* the destructor is the same step.                                        *)
(***************************************************************************)
EXTENDS Naturals

CONSTANTS Threads,      \* threads that use the connection
          Nesting,      \* those whose operation dispatches signal handlers,
                        \* which use the connection again: the dbus thread
          NoThread,     \* std::thread::id(0)
          MaxDepth      \* bound: guard objects alive at once on one thread

ASSUME GuardAssumption ==
    /\ Nesting \subseteq Threads
    /\ NoThread \notin Threads
    /\ MaxDepth \in Nat \ {0}

VARIABLES capturedByThreadId,   \* the atomic thread id
          depth,                \* operations running, one inside another
          calledUnsafe,         \* the flag of each of these guard objects
          pc                    \* where operator() of the newest one stands

guardVars == <<capturedByThreadId, depth, calledUnsafe, pc>>

Depths == 1..MaxDepth

GuardTypeOK ==
    /\ capturedByThreadId \in Threads \cup {NoThread}
    /\ depth \in [Threads -> 0..MaxDepth]
    /\ calledUnsafe \in [Threads -> [Depths -> BOOLEAN]]
    /\ pc \in [Threads -> {"run", "spin", "sleep"}]

GuardInit ==
    /\ capturedByThreadId = NoThread
    /\ depth = [t \in Threads |-> 0]
    /\ calledUnsafe = [t \in Threads |-> [d \in Depths |-> FALSE]]
    /\ pc = [t \in Threads |-> "run"]

-----------------------------------------------------------------------------
(* Slips in this code that the runs detect (see "mutants" in PROJECT.json) *)

\* A destructor that does not look at calledUnsafe.
AlwaysReleases(t) == TRUE

\* A destructor that does not run when the operation throws.
NeverReleases(t) == FALSE

\* operator() takes the id from whoever holds it.
CaptureFromAnyone(t) == capturedByThreadId # t

-----------------------------------------------------------------------------
\* compare_exchange_strong(0, current): the connection is free.
MayCapture(t) == capturedByThreadId = NoThread

\* ~DBusCallGuard stores 0 unless the object was called unsafe.
Releases(t) == ~calledUnsafe[t][depth[t]]

\* A call site makes a guard object and enters operator().
Construct(t) ==
    /\ pc[t] = "run"
    /\ depth[t] < MaxDepth
    /\ depth[t] > 0 => t \in Nesting
    /\ calledUnsafe' = [calledUnsafe EXCEPT ![t][depth[t] + 1] = FALSE]
    /\ pc' = [pc EXCEPT ![t] = "spin"]
    /\ UNCHANGED <<capturedByThreadId, depth>>

\* compare_exchange_strong succeeds and the operation starts.
Capture(t) ==
    /\ pc[t] = "spin"
    /\ MayCapture(t)
    /\ capturedByThreadId' = t
    /\ depth' = [depth EXCEPT ![t] = @ + 1]
    /\ pc' = [pc EXCEPT ![t] = "run"]
    /\ UNCHANGED calledUnsafe

\* The swap fails on the caller's own id: the operation starts unsafe.
CallUnsafe(t) ==
    /\ pc[t] = "spin"
    /\ capturedByThreadId = t
    /\ calledUnsafe' = [calledUnsafe EXCEPT ![t][depth[t] + 1] = TRUE]
    /\ depth' = [depth EXCEPT ![t] = @ + 1]
    /\ pc' = [pc EXCEPT ![t] = "run"]
    /\ UNCHANGED capturedByThreadId

\* The swap fails on another thread's id: sleep, then try again.
Sleep(t) ==
    /\ pc[t] = "spin"
    /\ capturedByThreadId \notin {t, NoThread}
    /\ pc' = [pc EXCEPT ![t] = "sleep"]
    /\ UNCHANGED <<capturedByThreadId, depth, calledUnsafe>>

Wake(t) ==
    /\ pc[t] = "sleep"
    /\ pc' = [pc EXCEPT ![t] = "spin"]
    /\ UNCHANGED <<capturedByThreadId, depth, calledUnsafe>>

\* The operation returned or threw: the destructor of its guard object.
Destroy(t) ==
    /\ pc[t] = "run"
    /\ depth[t] > 0
    /\ capturedByThreadId' = IF Releases(t) THEN NoThread
                             ELSE capturedByThreadId
    /\ depth' = [depth EXCEPT ![t] = @ - 1]
    /\ UNCHANGED <<calledUnsafe, pc>>

GuardStep(t) == Construct(t) \/ Capture(t) \/ CallUnsafe(t)
                \/ Sleep(t) \/ Wake(t) \/ Destroy(t)

GuardNext == \E t \in Threads : GuardStep(t)

GuardSpec == GuardInit /\ [][GuardNext]_guardVars

(* The end of the operation at depth d.  An operation ends - sd_bus calls  *)
(* time out, and process_discard dispatches one message to finitely many   *)
(* handlers - so the users of the guard assume strong fairness of it.      *)
End(t, d) == depth[t] = d /\ Destroy(t)

-----------------------------------------------------------------------------
\* At no time do two threads run guarded operations on the connection.
OneThreadOnBus ==
    \A t, u \in Threads : depth[t] > 0 /\ depth[u] > 0 => t = u

\* The captor is the thread whose operations run, and of its nested guard
\* objects exactly the outermost owes the release: no destructor of a nested
\* call frees the connection under the operation it is nested in, and no
\* exit leaves the id captured with nobody inside.
OutermostReleases ==
    /\ \A t \in Threads : depth[t] > 0 <=> capturedByThreadId = t
    /\ \A t \in Threads : \A d \in 1..depth[t] : calledUnsafe[t][d] <=> d > 1

\* A guard object that is still trying to enter has its flag cleared and a
\* place on the stack: a flag left over from an earlier call would make the
\* outermost destructor skip the release.
PendingIsFresh ==
    \A t \in Threads :
        pc[t] # "run" => depth[t] < MaxDepth /\ ~calledUnsafe[t][depth[t] + 1]

\* The inductive strengthening of OneThreadOnBus.
GuardInv == GuardTypeOK /\ OutermostReleases /\ PendingIsFresh

\* The guard is a re-entrant lock: capturedByThreadId is its owner, and the
\* operations of the captor are its open entries.
Lock == INSTANCE ReentrantLock
            WITH owner   <- capturedByThreadId,
                 entries <- IF capturedByThreadId = NoThread THEN 0
                            ELSE depth[capturedByThreadId]

ImplementsLock == Lock!LockSpec
=============================================================================
