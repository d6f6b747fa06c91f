SPECIFICATION Spec
CONSTANTS
    q1 = q1  q2 = q2  w1 = w1  w2 = w2
    None = None
    Partitions = {q1}
    Consumers = {w1, w2}
    MaxRecords = 2
    MaxLog = 2
    MaxRebalances = 1
    MaxCrashes = 0
    MaxFailures = 1
INVARIANTS NothingSkipped
CHECK_DEADLOCK FALSE
