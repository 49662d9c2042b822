SPECIFICATION Spec
CONSTANTS
    p = p
    g1 = g1
    g2 = g2
    g3 = g3
    g4 = g4
    Groups = {g1, g2, g3, g4}
    Direct = {g1, g2}
    Nodes = {p, g1, g2, g3, g4}
    Principal = p
    MaxDepth = 3
    MaxPaths = 8
    Tenants <- AnyTenant
INVARIANTS
    PathsAreReal
    CompleteUnlessCapped
    PastCapOnlySiblings
CHECK_DEADLOCK FALSE
