SPECIFICATION Spec
CONSTANTS
    e1 = e1  e2 = e2  e3 = e3
    c1 = c1  c2 = c2  c3 = c3
    w1 = w1  w2 = w2
    None = None
    Events = {e1, e2}
    Unresolved = {}
    Calls = {c1, c2}
    Workers = {w1}
    OutboxKey <- MCOutboxKey
    CreatedAt <- MCCreatedAt
    MaxRetries = 1
    BatchSize = 1
    MaxFaults = 0
INVARIANTS DistinctEventsAccepted
CHECK_DEADLOCK FALSE
