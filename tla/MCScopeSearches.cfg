CONSTANTS
    Scopes = {root, s1, s2, s3}
    Root = root
    Nothing = Nothing
    Principals = {}
    Roles = {}
    Names = {}
    AssignmentIds = {}
    Graphs <- OnlyScopes
SPECIFICATION SearchesSpec
INVARIANTS
    ReachIsExact
    AncestorsClimb
    CoversMatchesReach
PROPERTY Terminates
CHECK_DEADLOCK FALSE
