\* Two workers and one partition of three messages, a batch of two, three
\* rebalances, one crash, and two failures of the database or of an offset commit.
SPECIFICATION FairSpec
CONSTANTS
    q1 = q1  q2 = q2  w1 = w1  w2 = w2
    None = None
    Partitions = {q1}
    Consumers = {w1, w2}
    MaxRecords = 2
    MaxLog = 3
    MaxRebalances = 3
    MaxCrashes = 1
    MaxFailures = 2
INVARIANTS
    TypeOK
    OffsetAfterDatabase
    CrashesSkipNothing
    HandledOncePerAssignment
PROPERTIES
    EveryMessageHandled
CHECK_DEADLOCK FALSE
