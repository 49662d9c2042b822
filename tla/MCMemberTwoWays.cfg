CONSTANTS
    Nodes = {g, first, second, inner, shared, deep}
    Group = g
    First = first
    Second = second
    Inner = inner
    Shared = shared
    Deep = deep
    MaxDepth = 3
    Tenants <- TwoWays
SPECIFICATION Spec
INVARIANT FindsNestedMembers
CHECK_DEADLOCK FALSE
