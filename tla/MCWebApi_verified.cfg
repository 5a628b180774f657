SPECIFICATION Spec
CONSTANTS
    None = None
    Operation = Operation
    Instances <- SmallInstances
    EntityOf <- SmallEntityOf
    InitialName <- SmallName
    Owner <- SmallOwner
    Renamed <- SmallRenamed
    Paths <- SmallPaths
    Queries <- SmallQueries
    MaxChanges = 2
INVARIANT VerifiedIsFound
CHECK_DEADLOCK FALSE
