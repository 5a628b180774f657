SPECIFICATION Spec
CONSTANTS
    None = None
    Operation = Operation
    Instances <- SmallInstances
    EntityOf <- SmallEntityOf
    InitialName <- SmallName
    Owner <- SmallOwner
    Renamed <- SmallRenamed
    Paths <- SmallPaths
    Queries <- SmallQueries
    MaxChanges = 2
INVARIANT ApiTypeOK
INVARIANT ResolvesAsSpelled
INVARIANT MembersResolve
INVARIANT StatusTellsFailure
INVARIANT RelatedOnly
INVARIANT OnlyArrivalsBreak
PROPERTY RequestAnswered
CHECK_DEADLOCK FALSE
