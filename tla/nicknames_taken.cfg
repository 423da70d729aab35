SPECIFICATION Spec
CONSTANTS
    u1 = u1
    u2 = u2
    r1 = r1
    r2 = r2
    Users = {u1, u2}
    Requests = {r1, r2}
    Pools <- MCPools
    Typed <- MCTyped
    MaxLength = 3
    MaxRequests = 4
    None = None
CHECK_DEADLOCK FALSE
INVARIANTS ClaimsHold
