\* Two events of one tenant on either side of the edge of a window, three
\* correlation keys, a partition of three messages (so that the outbox repeats one
\* of them), a worker that crashes once, and one failure of the database or of an
\* offset commit.  Both rules are in the catalogue and switched off.
SPECIFICATION PFairSpec
CONSTANTS
    q1 = q1
    w1 = w1
    e1 = e1
    e2 = e2
    t1 = t1
    None = None
    NoAsset = NoAsset
    Partitions = {q1}
    Consumers = {w1}
    MaxRecords = 2
    MaxLog = 3
    MaxRebalances = 1
    MaxCrashes = 1
    MaxFailures = 1
    TicksPerSecond = 2
    Window = 2
    Catalogue <- MCCatalogue
    Events = {e1, e2}
    MaxIncidents = 3
    EventOf <- MCEventOf
    PartitionOf <- MCPartitionOf
INVARIANTS
    CommittedIsCorrelated
    EvidenceCoherent
PROPERTIES
    EveryEventCorrelated
CHECK_DEADLOCK FALSE
