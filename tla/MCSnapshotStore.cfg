SPECIFICATION Spec
CONSTANTS
    d1 = d1
    d2 = d2
    c1 = c1
    c2 = c2
    None = None
    Datasets = {d1, d2}
    Clients = {c1, c2}
    MaxId = 3
    MaxAudit = 10
    CacheLimit = 2
SYMMETRY Symmetry
INVARIANTS
    OneActiveSnapshot
    TablesMatchSnapshots
    CachesCoherent
    AuditExplainsStore
PROPERTY ImplementsActiveDataset
CHECK_DEADLOCK FALSE
