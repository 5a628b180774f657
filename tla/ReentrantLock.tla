---------------------------- MODULE ReentrantLock ----------------------------
(***************************************************************************)
(* What a guard of the application promises its callers: one thread at a   *)
(* time owns the protected resource, the owner may enter again, and only   *)
(* the exit that matches the first entry hands the resource over.  Both    *)
(* hand-written guards of the code (DBusConnect::DBusCallGuard and         *)
(* DBusInstance::instanceAccessGuard) are meant to be such a lock.         *)
(***************************************************************************)
EXTENDS Naturals

CONSTANTS Threads,      \* the threads that use the resource
          NoThread      \* std::thread::id(0)

VARIABLES owner,        \* the thread inside, or NoThread
          entries       \* how many entries of the owner are open

lockVars == <<owner, entries>>

LockInit ==
    /\ owner = NoThread
    /\ entries = 0

\* A free lock is taken by a thread.
Acquire(t) ==
    /\ owner = NoThread
    /\ owner' = t
    /\ entries' = 1

\* The owner enters once more.
Reenter(t) ==
    /\ owner = t
    /\ owner' = owner
    /\ entries' = entries + 1

\* The owner closes its latest entry; the last one frees the lock.
Release(t) ==
    /\ owner = t
    /\ entries > 0
    /\ entries' = entries - 1
    /\ owner' = IF entries = 1 THEN NoThread ELSE owner

LockNext == \E t \in Threads : Acquire(t) \/ Reenter(t) \/ Release(t)

LockSpec == LockInit /\ [][LockNext]_lockVars
=============================================================================
