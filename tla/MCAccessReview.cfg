CONSTANTS
    user = user
    app = app
    g1 = g1
    g2 = g2
    root = root
    mg1 = mg1
    mg2 = mg2
    sub1 = sub1
    sub2 = sub2
    owner = owner
    custom = custom
    Principals = {user, app, g1, g2}
    Scopes = {root, mg1, mg2, sub1, sub2}
    Roles = {owner, custom}
    Names = {"u", "a", "g"}
    AssignmentIds = {a1, a2}
    Nothing = Nothing
    Graphs <- AnyGraph
    RowLimits = {1, 2}
SYMMETRY Symmetry
SPECIFICATION Spec
INVARIANTS TypeOK PrivilegeIsReported RedundantForHolder  ScreensAgree  DiagramShowsAccess
CHECK_DEADLOCK FALSE
