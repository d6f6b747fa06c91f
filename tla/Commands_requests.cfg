\* Two requests about tenants or alerts, of the same name or not, one with a slug no
\* tenant may have, three attempts, three failures.
SPECIFICATION FairSpec
CONSTANTS
    Requests = {r1, r2}
    Keys = {k1, k2}
    BadSlugs = {k2}
    MaxRetries = 3
    MaxFaults = 3
    r1 = r1
    r2 = r2
    k1 = k1
    k2 = k2
INVARIANTS
    TypeOK
    DeadLettersAreFailures
    AnnouncedOnce
    AcceptedIsAnnounced
    AcceptedIsWritten
PROPERTY EveryRequestEnds
CHECK_DEADLOCK FALSE
