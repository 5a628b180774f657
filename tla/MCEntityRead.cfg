SPECIFICATION Spec
CONSTANTS
    r1 = r1
    r2 = r2
    s1 = s1
    s2 = s2
    f1 = f1
    f2 = f2
    Readers <- TwoReaders
    Sensors <- TwoSensors
    Associated <- OneAssociated
    Firmwares <- TwoFirmwares
    Kinds <- AllKinds
    MaxChanges = 3
SYMMETRY Symmetry
INVARIANT ReadTypeOK
INVARIANT QuietReadIsCurrent
INVARIANT BootModeIsFresh
INVARIANT RollupWithinSpan
INVARIANT StatusOnePassBehind
CHECK_DEADLOCK FALSE
