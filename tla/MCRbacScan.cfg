CONSTANTS
    a1 = a1
    a2 = a2
    k1 = k1
    k2 = k2
    free = free
    bound = bound
    p1 = p1
    p2 = p2
    NoRecord = NoRecord
    NoFile = NoFile
    Ids = {a1, a2}
    Keys = {k1, k2}
    Constraints = {free, bound}
    Roles = {role}
    Permissions = {p1, p2}
    Queries <- TwoQueries
    Targets <- ApprovalAndPin
    Dirs = {d1}
    Attempts = 2
    MaxChanges = 2
SPECIFICATION Spec
INVARIANTS
    GreenIsTrue
    DriftIsTrue
    EvidenceReproducesVerdict
    ExitAgreesWithEvidence
PROPERTIES
    EvidenceKept
    RunEnds
CHECK_DEADLOCK FALSE
