SPECIFICATION Spec
CONSTANTS
    BusThread = BusThread
    MainThread = MainThread
    req1 = req1
    req2 = req2
    NoThread = NoThread
    Threads <- MCThreads
    Nesting <- MCNesting
    MaxDepth = 3
    Errnos <- MCErrnos
INVARIANTS ConnectInv ObserverGoneWhenClosed GuardInv OneThreadOnBus
PROPERTIES ShutdownCompletes ImplementsLock BusFreedAgain
\* The process ends after a signal.
CHECK_DEADLOCK FALSE
