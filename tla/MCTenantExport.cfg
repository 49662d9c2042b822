CONSTANTS
    user = user
    group = group
    app = app
    mgRoot = mgRoot
    mgBelow = mgBelow
    sub = sub
    rg = rg
    reader = reader
    narrow = narrow
    a1 = a1
    a2 = a2
    v1 = v1
    v2 = v2
    free = free
    Root = Root
    Users = {user}
    Groups = {group}
    Applications = {app}
    ManagementGroups = {mgRoot, mgBelow}
    Subscriptions = {sub}
    ResourceGroups = {rg}
    Roles = {reader, narrow}
    Contents = {v1, v2}
    Assignments = {a1, a2}
    Conditions = {free, v2}
    Grant <- GrantOf
    Listed <- ListedAt
    Assignable <- AssignableAt
    Tenants <- SomeTenants
    MaxChanges = 2
SPECIFICATION Spec
INVARIANTS ExportIsClosed ExportWasTrue
PROPERTIES OutputOnlyWhenComplete
CHECK_DEADLOCK FALSE
