SPECIFICATION Spec
CONSTANTS
    Movable <- MovedEntities
    Unreliable <- FailingQueries
    Requested <- RequestedEntities
    MaxChanges = 1
    MaxFailures = 1
    MaxRequests = 1
INVARIANT ManagerTypeOK
INVARIANT NoReentry
INVARIANT SettledShowsObjects
INVARIANT AnswerHeals
INVARIANT ObservedOnce
PROPERTY GuardFileRemoved
CHECK_DEADLOCK FALSE
