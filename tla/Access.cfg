SPECIFICATION Spec
CONSTANTS
    x1 = x1  x2 = x2  j1 = j1  j2 = j2  j3 = j3  r1 = r1  r2 = r2  r3 = r3
    None = None
    Malformed = Malformed
    All = All
    Tokens = {j1, j2, j3}
    Requests = {r1, r2, r3}
    Tenants = {x1, x2}
    Claims <- MCClaims
    Second = 2
    AccessSeconds = 2
    RefreshSeconds = 3
    MinTtl = 2
    MaxClock = 6
    MaxFaults = 1
SYMMETRY Symmetry
INVARIANTS TypeOK TenantIsolation
PROPERTY LogoutHolds
CHECK_DEADLOCK FALSE
