CONSTANTS
    g = g
    s = s
    q = q
    x = x
    elsewhere = elsewhere
    role = role
    p1 = p1
    p2 = p2
    Scopes = {g, s, q, x, elsewhere}
    Root = root
    Roles = {role}
    Principals = {p1, p2}
    AssignmentIds <- Ids
    Records <- Sample
    MaxRecords = 3
    Malformed = Malformed
    Blank = Blank
    Unparseable = Unparseable
    Absent = Absent
SPECIFICATION Spec
INVARIANT ImportIsTotal
CHECK_DEADLOCK FALSE
