CONSTANTS
    mgId = mgId
    subId = subId
    rgId = rgId
    rgAgain = rgAgain
    free = free
    bound = bound
    role = role
    p1 = p1
    p2 = p2
    here = here
    elsewhere = elsewhere
    Malformed = Malformed
    Nothing = Nothing
    Tenants = {here, elsewhere}
    Home = here
    Scopes <- ScopeIds
    Ids = {mgId, rgId, rgAgain}
    Origin <- OriginOf
    AtOrAbove <- Above
    Grants = {grant}
    Constraints = {free, bound}
    Roles = {role}
    Permissions = {p1, p2}
    Libraries <- Files
    MaxAge = 1
    Ahead = 1
    Skews <- ClockSkews
    MaxTime = 3
    MaxChanges = 1
SPECIFICATION Spec
INVARIANTS
    GreenWasTrue
    AnswerIgnoresFileNames
    QuietTenantJudged
CHECK_DEADLOCK FALSE
