\* Two events of two keys, one of them in a contained incident, one consumer
\* process and all others, one status change, one scrape, one reader that may walk through
\* pages of one, and one failure.
SPECIFICATION Spec
CONSTANTS
    a1 = a1
    a2 = a2
    k1 = k1
    k2 = k2
    low = low
    high = high
    Events = {a1, a2}
    Keys = {k1, k2}
    KeysOf <- MCKeysOf
    Incidents = {i1, i2}
    Rows = {p1}
    Ages = {4}
    None = None
    Severities = {low, high}
    SeverityOf <- MCSeverityOf
    Readers = {r1}
    Scrapes = {s1}
    Limit = 1
    MaxCalls = 1
    MaxFaults = 1
SYMMETRY Symmetry
INVARIANTS
    TypeOK
    ReadsAgree
    WalkMissesNothing
    ScrapeFresh
    CountersNotAhead
