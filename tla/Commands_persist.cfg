SPECIFICATION Spec
CONSTANTS
    Requests = {r1, r2}
    Keys = {k1}
    BadSlugs = {}
    MaxRetries = 3
    MaxFaults = 1
    r1 = r1
    r2 = r2
    k1 = k1
INVARIANT CreatedTenantsPersist
CHECK_DEADLOCK FALSE
