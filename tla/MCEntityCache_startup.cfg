SPECIFICATION Spec
CONSTANTS
    main = main
    req = req
    o1 = o1
    o2 = o2
    i1 = i1
    i2 = i2
    i3 = i3
    i4 = i4
    i5 = i5
    None = None
    Main = main
    Readers <- OneReader
    Objects <- TwoObjects
    Instances <- FourInstances
    Source = "cached"
    MayFail = FALSE
    MayThrow = FALSE
    MaxEvents = 3
INVARIANTS TypeOK SettledIsPresent
SYMMETRY InstanceSymmetry
