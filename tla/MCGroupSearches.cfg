CONSTANTS
    Nodes = {g, p1, p2, p3, p4}
    Group = g
    MaxDepth = 3
    MaxMemberships = 5
    Tenants <- UpToNames
SPECIFICATION SearchesSpec
INVARIANTS
    FoundThroughChain
    CompleteWhenShallow
    CyclesAreExact
    WarnedAboutItself
PROPERTY BothTerminate
CHECK_DEADLOCK FALSE
