\* Three calls with up to two outbox rows, two calls that wait for each other's
\* keys, two workers that take up to two rows at a time, and one failure.
SPECIFICATION MCSpec
CONSTANTS
    e1 = e1  e2 = e2  e3 = e3
    c1 = c1  c2 = c2  c3 = c3
    w1 = w1  w2 = w2
    None = None
    Events = {e1, e2, e3}
    Unresolved = {e2}
    Calls = {c1, c2, c3}
    Workers = {w1, w2}
    OutboxKey <- MCOutboxKey
    CreatedAt <- MCCreatedAt
    MaxRetries = 2
    BatchSize = 2
    MaxFaults = 1
INVARIANTS
    TypeOK IngestAtomic AnswersHold PersistBeforePublish RetryBudget
    ExclusiveDispatch CopiesAccounted
PROPERTIES
    ImplementsDelivery EveryCallAnswered EveryRowSettles
CHECK_DEADLOCK FALSE
