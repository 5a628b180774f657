SPECIFICATION Spec
CONSTANTS
    Classes <- AllClasses
    MaxChanges = 2
    MaxFailures = 1
INVARIANT InstanceTypeOK
INVARIANT DerivedIsCurrent
INVARIANT CacheIsCurrent
PROPERTY InitializedInTheEnd
CHECK_DEADLOCK FALSE
